----------------------------- MODULE WorkQueue -----------------------------
(***************************************************************************)
(* The work queue of harness/workqueue.py: job rows in a store that several *)
(* machines share, one worker service per machine that runs them in order   *)
(* under a runner lock, and the callers that add, reorder, cancel, pause and *)
(* quiesce.  Every store statement, file operation and signal is one step,  *)
(* so the processes interleave between them as the operating system allows.  *)
(*                                                                         *)
(* A worker may be killed at any step (launchd starts it again) and a       *)
(* machine may reboot; rows, pid files, cancel flags and the pause flag      *)
(* survive both, locks and memory do not.  A job's process group is its own  *)
(* session, so it outlives the worker that started it but not a reboot.      *)
(***************************************************************************)
EXTENDS Naturals, FiniteSets

CONSTANTS
    Machines,    \* machines sharing the store
    Workers,     \* worker processes (workqueue.serve)
    Cancellers,  \* processes running `soh jobs cancel`
    Quiescers,   \* processes that quiesce a queue, reload its worker and resume
    At,          \* the machine each of those processes runs on
    Free,        \* the value of a lock nobody holds
    MaxJobs,     \* bound: how many jobs are ever added
    Priorities,  \* priorities a caller gives a job
    MaxCrashes   \* bound: kills of workers and installs, and reboots, together

Jobs == 1..MaxJobs
Lockers == Workers \cup Quiescers
Procs == Lockers \cup Cancellers

ASSUME ProcsAssumption ==
    /\ Workers \cap Quiescers = {}
    /\ Free \notin Lockers
    /\ At \in [Procs -> Machines]
ASSUME BoundsAssumption ==
    /\ MaxJobs \in Nat \ {0}
    /\ MaxCrashes \in Nat
    /\ Priorities \subseteq Nat /\ Priorities # {}
    /\ Machines # {}

VARIABLES
    state,    \* a row's state column; "absent": no row with this id
    home,     \* a row's machine_id
    pri,      \* a row's priority
    nextId,   \* the id the store hands out next (AUTOINCREMENT)
    lock,     \* per machine, who holds runner.lock
    paused,   \* machines whose `paused` flag file exists
    pidFile,  \* jobs whose running/<id>.pid exists on the job's machine
    flag,     \* jobs whose running/<id>.cancel exists on the job's machine
    group,    \* live members of a job's process group
    exit,     \* what a job's leader exited with
    runs,     \* history: how often a job's command was started
    wpc, wjob,       \* a worker's place in serve/run_pending/run_one, and its job
    cpc, cjob,       \* a canceller's place in cancel, and its job
    qpc, qwas,       \* a quiescer's place, and the paused state it found
    holding,         \* history: quiescers whose pause nobody has lifted since
    crashes          \* kills and reboots so far

rowVars  == <<state, home, pri, nextId>>
fileVars == <<pidFile, flag>>
procVars == <<group, exit, runs>>
wVars    == <<wpc, wjob>>
cVars    == <<cpc, cjob>>
qVars    == <<qpc, qwas, holding>>
vars     == <<rowVars, lock, paused, fileVars, procVars, wVars, cVars, qVars, crashes>>

Finished == {"done", "failed", "cancelled"}
States   == {"absent", "pending", "running"} \cup Finished
Members  == {"leader", "zombie", "child"}   \* "zombie": exited, its worker has not reaped it
WorkerPCs == {"idle", "enter", "recover", "pick", "gate", "start", "spawn", "pid",
              "wait", "check", "finish", "settle", "release"}
CancelPCs == {"idle", "drop", "pid", "flag", "term", "grace", "settle"}
QuiescePCs == {"idle", "pause", "probe", "probed", "quiet", "anyway", "reloaded"}

\* The places where a worker holds its machine's runner lock, and of those the
\* ones where it has taken a job past the gate and not yet recorded its end.
InRun  == WorkerPCs \ {"idle", "enter"}
OnJob  == {"start", "spawn", "pid", "wait", "check", "finish", "settle"}

TypeOK ==
    /\ state \in [Jobs -> States]
    /\ home \in [Jobs -> Machines]
    /\ pri \in [Jobs -> Priorities]
    /\ nextId \in 1..(MaxJobs + 1)
    /\ lock \in [Machines -> Lockers \cup {Free}]
    /\ paused \subseteq Machines
    /\ pidFile \subseteq Jobs
    /\ flag \subseteq Jobs
    /\ group \in [Jobs -> SUBSET Members]
    /\ exit \in [Jobs -> {"none", "ok", "err"}]
    /\ runs \in [Jobs -> Nat]
    /\ wpc \in [Workers -> WorkerPCs]
    /\ wjob \in [Workers -> Jobs]
    /\ cpc \in [Cancellers -> CancelPCs]
    /\ cjob \in [Cancellers -> Jobs]
    /\ qpc \in [Quiescers -> QuiescePCs]
    /\ qwas \in [Quiescers -> BOOLEAN]
    /\ holding \subseteq Quiescers
    /\ crashes \in 0..MaxCrashes

Init ==
    /\ state = [j \in Jobs |-> "absent"]
    /\ home = [j \in Jobs |-> CHOOSE m \in Machines : TRUE]  \* read once the row exists
    /\ pri = [j \in Jobs |-> CHOOSE p \in Priorities : TRUE]
    /\ nextId = 1
    /\ lock = [m \in Machines |-> Free]
    /\ paused = {}
    /\ pidFile = {} /\ flag = {}
    /\ group = [j \in Jobs |-> {}]
    /\ exit = [j \in Jobs |-> "none"]
    /\ runs = [j \in Jobs |-> 0]
    /\ wpc = [w \in Workers |-> "idle"]
    /\ wjob = [w \in Workers |-> 1]
    /\ cpc = [c \in Cancellers |-> "idle"]
    /\ cjob = [c \in Cancellers |-> 1]
    /\ qpc = [q \in Quiescers |-> "idle"]
    /\ qwas = [q \in Quiescers |-> FALSE]
    /\ holding = {}
    /\ crashes = 0

-----------------------------------------------------------------------------
(* Callers of the queue: `soh jobs add|priority|pause|resume` and the MCP     *)
(* tools.  Each is one store statement or one file operation.                *)

\* add: the store assigns the id inside the insert; ids are never handed out again.
Add(m, p) ==
    /\ nextId \in Jobs
    /\ state' = [state EXCEPT ![nextId] = "pending"]
    /\ home' = [home EXCEPT ![nextId] = m]
    /\ pri' = [pri EXCEPT ![nextId] = p]
    /\ nextId' = nextId + 1
    /\ UNCHANGED <<lock, paused, fileVars, procVars, wVars, cVars, qVars, crashes>>

\* set_priority: the state test is in the same statement as the update.
SetPriority(j, p) ==
    /\ state[j] = "pending"
    /\ pri' = [pri EXCEPT ![j] = p]
    /\ UNCHANGED <<state, home, nextId, lock, paused, fileVars, procVars, wVars,
                   cVars, qVars, crashes>>

Pause(m) ==
    /\ m \notin paused
    /\ paused' = paused \cup {m}
    /\ UNCHANGED <<rowVars, lock, fileVars, procVars, wVars, cVars, qVars, crashes>>

\* Who resumes lifts every quiescer's pause of that machine.
Lift(m) ==
    /\ paused' = paused \ {m}
    /\ holding' = {q \in holding : At[q] # m}

Resume(m) ==
    /\ m \in paused
    /\ Lift(m)
    /\ UNCHANGED <<rowVars, lock, fileVars, procVars, wVars, cVars, qpc, qwas, crashes>>

-----------------------------------------------------------------------------
(* The worker: serve, run_pending, run_one.                                  *)

PendingHere(m) == {j \in Jobs : state[j] = "pending" /\ home[j] = m}

\* order(): higher priority first, then the order added.
IsFirst(j, S) ==
    /\ j \in S
    /\ \A k \in S : pri[j] > pri[k] \/ (pri[j] = pri[k] /\ j <= k)

\* Mutant: _write as an upsert, which brings a dropped row back.
MutantUpsert(j, s) == state' = [state EXCEPT ![j] = s]

\* _write: an UPDATE by id, which changes nothing when the row is gone.  The
\* priority, rc, log and time columns it also writes are read by nothing here.
WriteState(j, s) ==
    state' = IF state[j] = "absent" THEN state ELSE [state EXCEPT ![j] = s]

WGo(w, pc) == wpc' = [wpc EXCEPT ![w] = pc]

\* serve: something waits and the gate is open, both read without the lock.
\* Memory pressure may close the gate at any reading.
Serve(w) ==
    /\ wpc[w] = "idle"
    /\ PendingHere(At[w]) # {}
    /\ At[w] \notin paused
    /\ WGo(w, "enter")
    /\ UNCHANGED <<rowVars, lock, paused, fileVars, procVars, wjob, cVars, qVars, crashes>>

\* Mutant: run_pending that does not look at the runner lock.
MutantNoLock(w) ==
    /\ wpc[w] = "enter"
    /\ lock' = [lock EXCEPT ![At[w]] = w]
    /\ WGo(w, "recover")
    /\ UNCHANGED <<rowVars, paused, fileVars, procVars, wjob, cVars, qVars, crashes>>

\* run_pending takes runner.lock without waiting ...
Enter(w) ==
    /\ wpc[w] = "enter"
    /\ lock[At[w]] = Free
    /\ lock' = [lock EXCEPT ![At[w]] = w]
    /\ WGo(w, "recover")
    /\ UNCHANGED <<rowVars, paused, fileVars, procVars, wjob, cVars, qVars, crashes>>

\* ... or, when somebody has it, goes back to the poll loop.
EnterBusy(w) ==
    /\ wpc[w] = "enter"
    /\ lock[At[w]] # Free
    /\ WGo(w, "idle")
    /\ UNCHANGED <<rowVars, lock, paused, fileVars, procVars, wjob, cVars, qVars, crashes>>

\* What _recover does with the rows it finds, and seeded bugs in it: queue the row
\* again, give it a state no reader knows, leave it.
RecoverTo(w, s) ==
    /\ wpc[w] = "recover"
    /\ state' = [j \in Jobs |-> IF state[j] = "running" /\ home[j] = At[w] THEN s ELSE state[j]]
    /\ WGo(w, "pick")
    /\ UNCHANGED <<home, pri, nextId, lock, paused, fileVars, procVars, wjob, cVars,
                   qVars, crashes>>
MutantRequeue(w) == RecoverTo(w, "pending")
MutantInterrupted(w) == RecoverTo(w, "interrupted")
MutantNoRecover(w) == RecoverTo(w, "running")

\* _recover: a row of this machine still marked running was cut off.
Recover(w) == RecoverTo(w, "failed")

\* run_pending reads the next job; nothing marks it taken until run_one writes it.
Pick(w) ==
    /\ wpc[w] = "pick"
    /\ \/ /\ PendingHere(At[w]) = {}
          /\ WGo(w, "release")
          /\ UNCHANGED wjob
       \/ \E j \in Jobs :
             /\ IsFirst(j, PendingHere(At[w]))
             /\ wjob' = [wjob EXCEPT ![w] = j]
             /\ WGo(w, "gate")
    /\ UNCHANGED <<rowVars, lock, paused, fileVars, procVars, cVars, qVars, crashes>>

\* Mutant: the gate is asked by serve only, not again for each job.
MutantUngated(w) ==
    /\ wpc[w] = "gate"
    /\ WGo(w, "start")
    /\ UNCHANGED <<rowVars, lock, paused, fileVars, procVars, wjob, cVars, qVars, crashes>>

\* gate(): not paused and no memory alarm, asked again for each job.
GateOpen(w) ==
    /\ wpc[w] = "gate"
    /\ At[w] \notin paused
    /\ WGo(w, "start")
    /\ UNCHANGED <<rowVars, lock, paused, fileVars, procVars, wjob, cVars, qVars, crashes>>

\* The pause flag, or memory pressure whatever the flag says.
GateClosed(w) ==
    /\ wpc[w] = "gate"
    /\ WGo(w, "release")
    /\ UNCHANGED <<rowVars, lock, paused, fileVars, procVars, wjob, cVars, qVars, crashes>>

\* run_one marks the row running.
Start(w) ==
    /\ wpc[w] = "start"
    /\ WriteState(wjob[w], "running")
    /\ WGo(w, "spawn")
    /\ UNCHANGED <<home, pri, nextId, lock, paused, fileVars, procVars, wjob, cVars,
                   qVars, crashes>>

\* run_one drops an old cancel flag and starts the command as a group leader,
\* which may have a helper process; a command that cannot start exits 127.
Spawn(w) ==
    /\ wpc[w] = "spawn"
    /\ flag' = flag \ {wjob[w]}
    /\ \/ /\ \E helpers \in SUBSET {"child"} :
                group' = [group EXCEPT ![wjob[w]] = {"leader"} \cup helpers]
          /\ runs' = [runs EXCEPT ![wjob[w]] = @ + 1]
          /\ WGo(w, "pid")
          /\ UNCHANGED exit
       \/ /\ exit' = [exit EXCEPT ![wjob[w]] = "err"]
          /\ WGo(w, "check")
          /\ UNCHANGED <<group, runs>>
    /\ UNCHANGED <<rowVars, lock, paused, pidFile, wjob, cVars, qVars, crashes>>

WritePid(w) ==
    /\ wpc[w] = "pid"
    /\ pidFile' = pidFile \cup {wjob[w]}
    /\ WGo(w, "wait")
    /\ UNCHANGED <<rowVars, lock, paused, flag, procVars, wjob, cVars, qVars, crashes>>

\* child.wait() returns: the leader is reaped and its pid file removed.
Reap(w) ==
    /\ wpc[w] = "wait"
    /\ "leader" \notin group[wjob[w]]
    /\ group' = [group EXCEPT ![wjob[w]] = @ \ {"zombie"}]
    /\ pidFile' = pidFile \ {wjob[w]}
    /\ WGo(w, "check")
    /\ UNCHANGED <<rowVars, lock, paused, flag, exit, runs, wjob, cVars, qVars, crashes>>

\* run_one reads the cancel flag, and removes it when it is there.
CheckFlag(w) ==
    /\ wpc[w] = "check"
    /\ WGo(w, IF wjob[w] \in flag THEN "settle" ELSE "finish")
    /\ flag' = flag \ {wjob[w]}
    /\ UNCHANGED <<rowVars, lock, paused, pidFile, procVars, wjob, cVars, qVars, crashes>>

\* Mutant: run_one that does not look at the return code.
MutantAlwaysDone(w) ==
    /\ \/ wpc[w] = "finish" /\ WriteState(wjob[w], "done")
       \/ wpc[w] = "settle" /\ WriteState(wjob[w], "cancelled")
    /\ WGo(w, "pick")
    /\ UNCHANGED <<home, pri, nextId, lock, paused, fileVars, procVars, wjob, cVars,
                   qVars, crashes>>

\* run_one records how the job ended and run_pending goes on to the next.
Finish(w) ==
    /\ \/ /\ wpc[w] = "finish"
          /\ WriteState(wjob[w], IF exit[wjob[w]] = "ok" THEN "done" ELSE "failed")
       \/ /\ wpc[w] = "settle"
          /\ WriteState(wjob[w], "cancelled")
    /\ WGo(w, "pick")
    /\ UNCHANGED <<home, pri, nextId, lock, paused, fileVars, procVars, wjob, cVars,
                   qVars, crashes>>

\* Mutant: run_pending that returns without giving the runner lock back.
MutantKeepLock(w) ==
    /\ wpc[w] = "release"
    /\ WGo(w, "idle")
    /\ UNCHANGED <<rowVars, lock, paused, fileVars, procVars, wjob, cVars, qVars, crashes>>

Release(w) ==
    /\ wpc[w] = "release"
    /\ lock' = [lock EXCEPT ![At[w]] = Free]
    /\ WGo(w, "idle")
    /\ UNCHANGED <<rowVars, paused, fileVars, procVars, wjob, cVars, qVars, crashes>>

-----------------------------------------------------------------------------
(* The job's own processes.                                                  *)

\* A leader that exits stays a zombie until the worker that started it reaps it;
\* without that worker the system reaps it at once.
Waiting(w, j) == wjob[w] = j /\ wpc[w] \in {"pid", "wait"}
Remains(j) == IF \E w \in Workers : Waiting(w, j) THEN {"zombie"} ELSE {}

LeaderExit(j) ==
    /\ "leader" \in group[j]
    /\ group' = [group EXCEPT ![j] = (@ \ {"leader"}) \cup Remains(j)]
    /\ \E r \in {"ok", "err"} : exit' = [exit EXCEPT ![j] = r]
    /\ UNCHANGED <<rowVars, lock, paused, fileVars, runs, wVars, cVars, qVars, crashes>>

ChildExit(j) ==
    /\ "child" \in group[j]
    /\ group' = [group EXCEPT ![j] = @ \ {"child"}]
    /\ UNCHANGED <<rowVars, lock, paused, fileVars, exit, runs, wVars, cVars, qVars, crashes>>

-----------------------------------------------------------------------------
(* cancel, on the caller's machine.                                          *)

CGo(c, pc) == cpc' = [cpc EXCEPT ![c] = pc]

\* cancel reads the row; a running job is stopped, anything else must be dropped.
CancelRead(c, j) ==
    /\ cpc[c] = "idle"
    /\ cjob' = [cjob EXCEPT ![c] = j]
    /\ CGo(c, IF state[j] = "running" THEN "pid" ELSE "drop")
    /\ UNCHANGED <<rowVars, lock, paused, fileVars, procVars, wVars, qVars, crashes>>

\* _only_pending: delete the row if it is still pending, else refuse.
CancelDrop(c) ==
    /\ cpc[c] = "drop"
    /\ state' = IF state[cjob[c]] = "pending"
                THEN [state EXCEPT ![cjob[c]] = "absent"] ELSE state
    /\ CGo(c, "idle")
    /\ UNCHANGED <<home, pri, nextId, lock, paused, fileVars, procVars, wVars, cjob,
                   qVars, crashes>>

\* _pid_of: the pid file is on this machine and a process, or a zombie, has the pid.
CancelPid(c) ==
    /\ cpc[c] = "pid"
    /\ CGo(c, IF /\ home[cjob[c]] = At[c]
                 /\ cjob[c] \in pidFile
                 /\ group[cjob[c]] \cap {"leader", "zombie"} # {}
              THEN "flag" ELSE "idle")
    /\ UNCHANGED <<rowVars, lock, paused, fileVars, procVars, wVars, cjob, qVars, crashes>>

CancelFlag(c) ==
    /\ cpc[c] = "flag"
    /\ flag' = flag \cup {cjob[c]}
    /\ CGo(c, "term")
    /\ UNCHANGED <<rowVars, lock, paused, pidFile, procVars, wVars, cjob, qVars, crashes>>

\* stop_group: SIGTERM to a group that is there.  What a member does about it,
\* exit or not, is LeaderExit and ChildExit.
CancelTerm(c) ==
    /\ cpc[c] = "term"
    /\ CGo(c, IF group[cjob[c]] = {} THEN "settle" ELSE "grace")
    /\ UNCHANGED <<rowVars, lock, paused, fileVars, procVars, wVars, cjob, qVars, crashes>>

\* stop_group sees the group gone within the grace period.
CancelGone(c) ==
    /\ cpc[c] = "grace"
    /\ group[cjob[c]] = {}
    /\ CGo(c, "settle")
    /\ UNCHANGED <<rowVars, lock, paused, fileVars, procVars, wVars, cjob, qVars, crashes>>

\* Mutant: SIGKILL to the leader instead of its group.
MutantKillLeader(c) ==
    /\ cpc[c] = "grace"
    /\ group' = [group EXCEPT ![cjob[c]] =
                    (@ \ {"leader"}) \cup (IF "leader" \in @ THEN Remains(cjob[c]) ELSE {})]
    /\ exit' = IF "leader" \in group[cjob[c]]
               THEN [exit EXCEPT ![cjob[c]] = "err"] ELSE exit
    /\ CGo(c, "settle")
    /\ UNCHANGED <<rowVars, lock, paused, fileVars, runs, wVars, cjob, qVars, crashes>>

\* The grace period ends and stop_group kills what is left.
CancelKill(c) ==
    /\ cpc[c] = "grace"
    /\ group' = [group EXCEPT ![cjob[c]] =
                    IF @ \cap {"leader", "zombie"} # {} THEN Remains(cjob[c]) ELSE {}]
    /\ exit' = IF "leader" \in group[cjob[c]]
               THEN [exit EXCEPT ![cjob[c]] = "err"] ELSE exit
    /\ CGo(c, "settle")
    /\ UNCHANGED <<rowVars, lock, paused, fileVars, runs, wVars, cjob, qVars, crashes>>

\* _settle_cancelled in the caller: the row it read becomes cancelled.
CancelSettle(c) ==
    /\ cpc[c] = "settle"
    /\ WriteState(cjob[c], "cancelled")
    /\ CGo(c, "idle")
    /\ UNCHANGED <<home, pri, nextId, lock, paused, fileVars, procVars, wVars, cjob,
                   qVars, crashes>>

\* The caller is interrupted where it stands.
CancelDies(c) ==
    /\ cpc[c] # "idle"
    /\ CGo(c, "idle")
    /\ UNCHANGED <<rowVars, lock, paused, fileVars, procVars, wVars, cjob, qVars, crashes>>

-----------------------------------------------------------------------------
(* quiesce, and what launchd.sh install does with it.                        *)

QGo(q, pc) == qpc' = [qpc EXCEPT ![q] = pc]

QuiesceRead(q) ==
    /\ qpc[q] = "idle"
    /\ qwas' = [qwas EXCEPT ![q] = At[q] \in paused]
    /\ QGo(q, "pause")
    /\ UNCHANGED <<rowVars, lock, paused, fileVars, procVars, wVars, cVars, holding, crashes>>

QuiescePause(q) ==
    /\ qpc[q] = "pause"
    /\ paused' = paused \cup {At[q]}
    /\ holding' = holding \cup {q}
    /\ QGo(q, "probe")
    /\ UNCHANGED <<rowVars, lock, fileVars, procVars, wVars, cVars, qwas, crashes>>

\* running(): nobody is running when the runner lock can be taken, and it is
\* given straight back; quiesce polls until then.
QuiesceProbe(q) ==
    /\ qpc[q] = "probe"
    /\ lock[At[q]] = Free
    /\ lock' = [lock EXCEPT ![At[q]] = q]
    /\ QGo(q, "probed")
    /\ UNCHANGED <<rowVars, paused, fileVars, procVars, wVars, cVars, qwas, holding, crashes>>

\* Mutant: running() that keeps the lock it probed with.
MutantKeepProbe(q) ==
    /\ qpc[q] = "probed"
    /\ QGo(q, "quiet")
    /\ UNCHANGED <<rowVars, lock, paused, fileVars, procVars, wVars, cVars, qwas, holding, crashes>>

QuiesceQuiet(q) ==
    /\ qpc[q] = "probed"
    /\ lock' = [lock EXCEPT ![At[q]] = Free]
    /\ QGo(q, "quiet")
    /\ UNCHANGED <<rowVars, paused, fileVars, procVars, wVars, cVars, qwas, holding, crashes>>

\* Killing workers: the kernel drops their locks and reaps what they would have;
\* the jobs they started run on, each in its own session.
KillWorkers(K) ==
    /\ wpc' = [w \in Workers |-> IF w \in K THEN "idle" ELSE wpc[w]]
    /\ lock' = [m \in Machines |-> IF lock[m] \in K THEN Free ELSE lock[m]]
    /\ group' = [j \in Jobs |-> IF \E w \in K : Waiting(w, j)
                                THEN group[j] \ {"zombie"} ELSE group[j]]

\* launchctl bootout and bootstrap of the worker service, quiesced or not.
Reload(q) ==
    /\ qpc[q] \in {"quiet", "anyway"}
    /\ KillWorkers({w \in Workers : At[w] = At[q]})
    /\ QGo(q, "reloaded")
    /\ UNCHANGED <<rowVars, paused, fileVars, exit, runs, wjob, cVars, qwas, holding, crashes>>

\* `soh jobs resume`, only after a load that worked and a queue found running.
ReloadResume(q) ==
    /\ qpc[q] = "reloaded"
    /\ \/ /\ ~qwas[q]
          /\ Lift(At[q])
       \/ /\ holding' = holding \ {q}
          /\ UNCHANGED paused
    /\ QGo(q, "idle")
    /\ UNCHANGED <<rowVars, lock, fileVars, procVars, wVars, cVars, qwas, crashes>>

\* A quiescing process that ends drops the runner lock it probes with.  The pause it
\* wrote stays, and nobody answers for it any more.
QuiesceEnds(q) ==
    /\ crashes < MaxCrashes
    /\ crashes' = crashes + 1
    /\ lock' = [lock EXCEPT ![At[q]] = IF @ = q THEN Free ELSE @]
    /\ holding' = holding \ {q}

\* quiesce fails or is killed: install reloads the worker anyway and will not resume,
\* for it does not know how the queue was found.
QuiesceFails(q) ==
    /\ qpc[q] \in {"pause", "probe", "probed"}
    /\ QuiesceEnds(q)
    /\ qwas' = [qwas EXCEPT ![q] = TRUE]
    /\ QGo(q, "anyway")
    /\ UNCHANGED <<rowVars, paused, fileVars, procVars, wVars, cVars>>

\* The install itself is interrupted where it stands.
InstallDies(q) ==
    /\ qpc[q] # "idle"
    /\ QuiesceEnds(q)
    /\ QGo(q, "idle")
    /\ UNCHANGED <<rowVars, paused, fileVars, procVars, wVars, cVars, qwas>>

-----------------------------------------------------------------------------
(* What the machine does to them all.                                        *)

\* A worker is killed where it stands; launchd starts it again in serve.
WorkerKilled(w) ==
    /\ crashes < MaxCrashes
    /\ wpc[w] # "idle"
    /\ crashes' = crashes + 1
    /\ KillWorkers({w})
    /\ UNCHANGED <<rowVars, paused, fileVars, exit, runs, wjob, cVars, qVars>>

Reboot(m) ==
    /\ crashes < MaxCrashes
    /\ crashes' = crashes + 1
    /\ lock' = [lock EXCEPT ![m] = Free]
    /\ group' = [j \in Jobs |-> IF home[j] = m THEN {} ELSE group[j]]
    /\ wpc' = [w \in Workers |-> IF At[w] = m THEN "idle" ELSE wpc[w]]
    /\ cpc' = [c \in Cancellers |-> IF At[c] = m THEN "idle" ELSE cpc[c]]
    /\ qpc' = [q \in Quiescers |-> IF At[q] = m THEN "idle" ELSE qpc[q]]
    /\ holding' = {q \in holding : At[q] # m}
    /\ UNCHANGED <<rowVars, paused, fileVars, exit, runs, wjob, cjob, qwas>>

-----------------------------------------------------------------------------
Caller == \/ \E m \in Machines, p \in Priorities : Add(m, p)
          \/ \E j \in Jobs, p \in Priorities : SetPriority(j, p)
          \/ \E m \in Machines : Pause(m) \/ Resume(m)

RunOne(w) == Start(w) \/ Spawn(w) \/ WritePid(w) \/ Reap(w) \/ CheckFlag(w) \/ Finish(w)
RunPending(w) == \/ Serve(w) \/ Enter(w) \/ EnterBusy(w) \/ Recover(w) \/ Pick(w) \/ GateOpen(w)
                 \/ GateClosed(w) \/ RunOne(w) \/ Release(w)

Cancel(c) == \/ \E j \in Jobs : CancelRead(c, j)
             \/ CancelDrop(c) \/ CancelPid(c) \/ CancelFlag(c) \/ CancelTerm(c)
             \/ CancelGone(c) \/ CancelKill(c) \/ CancelSettle(c) \/ CancelDies(c)

Quiesce(q) == \/ QuiesceRead(q) \/ QuiescePause(q) \/ QuiesceProbe(q) \/ QuiesceQuiet(q)
              \/ Reload(q) \/ ReloadResume(q) \/ QuiesceFails(q) \/ InstallDies(q)

Next == \/ Caller
        \/ \E w \in Workers : RunPending(w) \/ WorkerKilled(w)
        \/ \E j \in Jobs : LeaderExit(j) \/ ChildExit(j)
        \/ \E c \in Cancellers : Cancel(c)
        \/ \E q \in Quiescers : Quiesce(q)
        \/ \E m \in Machines : Reboot(m)

Spec == Init /\ [][Next]_vars

-----------------------------------------------------------------------------
(* Fairness.  launchd keeps a worker running and it polls for ever; a caller  *)
(* that has begun goes on; a command ends.  Memory pressure and a contended   *)
(* lock do not turn a worker away every time it asks.  Nobody has to add,     *)
(* cancel, pause or resume, and nothing has to crash.                         *)
Fairness ==
    /\ \A w \in Workers : /\ WF_vars(RunPending(w))
                          /\ SF_vars(Enter(w))
                          /\ SF_vars(GateOpen(w))
    /\ \A j \in Jobs : WF_vars(LeaderExit(j)) /\ WF_vars(ChildExit(j))
    /\ \A q \in Quiescers : /\ WF_vars(QuiescePause(q)) /\ WF_vars(QuiesceProbe(q))
                            /\ WF_vars(QuiesceQuiet(q))

FairSpec == Spec /\ Fairness

-----------------------------------------------------------------------------
(* Properties.                                                               *)

\* No command is ever started twice, whatever is killed, rebooted, cancelled or
\* reloaded in between: run_one marks the row before it starts the command and
\* _recover fails a cut-off row instead of queueing it again.
RunAtMostOnce == \A j \in Jobs : runs[j] <= 1

\* While a worker is on a job nobody else moves the job's row except a cancel:
\* _recover, which fails every running row of its machine, never hits a job whose
\* worker is alive, because only the holder of the runner lock gets there.
RowOfLiveJobKept ==
    \A w \in Workers : wpc[w] \in OnJob \ {"start"} =>
        state[wjob[w]] \in {"running", "cancelled", "absent"}

\* When quiesce returns, no worker of that machine has a job in hand, and none
\* takes one until somebody resumes: the gate is asked again under the runner
\* lock that quiesce saw free after it had paused.
QuietMeansIdle ==
    \A q \in Quiescers, w \in Workers :
        qpc[q] = "quiet" /\ q \in holding /\ At[w] = At[q] => wpc[w] \notin OnJob

\* When cancel goes on to record a running job cancelled, no process of the job's
\* group is left alive, helpers that ignored SIGTERM included.
CancelStops ==
    \A c \in Cancellers : cpc[c] = "settle" => group[cjob[c]] \subseteq {"zombie"}

\* A row says done only for a command that was started once, whose leader exited
\* with 0 and is gone.
DoneIsReal ==
    \A j \in Jobs : state[j] = "done" =>
        runs[j] = 1 /\ exit[j] = "ok" /\ "leader" \notin group[j]

\* A finished job is never pending or running again, and a dropped row never
\* comes back, not even as another job's id (workqueue.add, jobs AUTOINCREMENT).
EndsKept ==
    \A j \in Jobs : /\ state[j] \in Finished => state'[j] \in Finished
                    /\ state[j] = "absent" /\ j < nextId => state'[j] = "absent"
RowLifecycle == [][EndsKept]_vars

\* quiesce returns unless somebody lifts its pause: the running job ends, the
\* worker finds the gate closed and gives the runner lock back.
QuiesceReturns ==
    \A q \in Quiescers : qpc[q] = "probe" ~> (qpc[q] # "probe" \/ q \notin holding)

\* A pending job is started or dropped, once the queue stays unpaused.
PendingStarts ==
    <>[](paused = {}) => \A j \in Jobs : state[j] = "pending" ~> state[j] # "pending"

\* A job cut off while running does not stay running beside a waiting one: the
\* waiting job makes serve call run_pending, whose _recover fails the cut-off row.
CutOffIsFailed ==
    <>[](paused = {}) =>
        \A j, k \in Jobs :
            (state[j] = "running" /\ state[k] = "pending" /\ home[j] = home[k])
                ~> state[j] # "running"

\* A job's command as JobLedger sees it: not started, started, or how it exited.
CommandOf(j) == IF exit[j] # "none" THEN exit[j] ELSE IF runs[j] = 0 THEN "none" ELSE "started"

Ledger == INSTANCE JobLedger
              WITH row <- state, next <- nextId, command <- [j \in Jobs |-> CommandOf(j)]

\* To whoever adds a job the queue is JobLedger, however workers, cancels, kills and
\* reboots interleave: among others a finished job never runs again, a dropped row
\* never comes back, no command starts twice, and nobody settles a job whose command
\* has not ended, save as cut off.
ImplementsLedger == Ledger!Spec
=============================================================================
