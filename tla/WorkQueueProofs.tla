-------------------------- MODULE WorkQueueProofs --------------------------
(***************************************************************************)
(* Proofs about WorkQueue, for any machines, processes and bounds.  The     *)
(* inductive invariant says who holds the runner lock, what the holder's    *)
(* job looks like at each place of run_one, and what a canceller past its   *)
(* checks knows of its job.                                                 *)
(***************************************************************************)
EXTENDS WorkQueue, TLAPS

\* The places where a worker has read a job and not yet recorded its end.
HasJob == {"gate"} \cup OnJob

\* Whoever is inside run_pending, or between running()'s take and release, is
\* the holder of its machine's runner lock.
LockInv ==
    /\ \A w \in Workers : wpc[w] \in InRun => lock[At[w]] = w
    /\ \A q \in Quiescers : qpc[q] = "probed" => lock[At[q]] = q

\* An id not handed out has no row and no run; a pending job has no run.
FreshInv ==
    \A j \in Jobs : /\ j >= nextId => state[j] = "absent" /\ runs[j] = 0
                    /\ state[j] = "pending" => runs[j] = 0

\* A worker's job is a job of its machine; up to the start of the command it has
\* no run, and up to run_one's first write its row is pending or was dropped.
WorkInv ==
    \A w \in Workers :
        /\ wpc[w] \in HasJob => wjob[w] < nextId /\ home[wjob[w]] = At[w]
        /\ wpc[w] \in {"gate", "start"} => state[wjob[w]] \in {"pending", "absent"}
        /\ wpc[w] \in {"gate", "start", "spawn"} => runs[wjob[w]] = 0

\* A group has members only after its one start, and a leader that exited with 0
\* is gone for good.
RunInv ==
    \A j \in Jobs : /\ runs[j] <= 1
                    /\ group[j] # {} => runs[j] = 1
                    /\ exit[j] = "ok" => runs[j] = 1 /\ "leader" \notin group[j]
                    /\ state[j] = "done" => exit[j] = "ok"

\* A canceller that found its job running deals with a row that stays, and past
\* _pid_of with a command that was started.
CancelInv ==
    \A c \in Cancellers :
        /\ cpc[c] \in {"pid", "flag", "term", "grace", "settle"}
              => state[cjob[c]] \notin {"absent", "pending"}
        /\ cpc[c] \in {"flag", "term", "grace", "settle"} => runs[cjob[c]] = 1

\* A quiescer's pause that nobody lifted is still there.
PauseInv == \A q \in holding : At[q] \in paused

\* The command of a pending job has not ended; a worker waits for a leader that lives
\* or has ended, and records an end; a cancel deals with a job of its machine whose
\* leader lives or has ended.
EndInv ==
    /\ \A j \in Jobs : /\ state[j] = "pending" \/ j >= nextId => exit[j] = "none"
                       /\ state[j] = "cancelled" => exit[j] # "none"
                       /\ "leader" \in group[j] => exit[j] = "none"
                       /\ "zombie" \in group[j] => exit[j] # "none"
    /\ \A w \in Workers :
          /\ wpc[w] \in {"gate", "start", "spawn"} => exit[wjob[w]] = "none"
          /\ wpc[w] \in {"pid", "wait"} => "leader" \in group[wjob[w]] \/ exit[wjob[w]] # "none"
          /\ wpc[w] \in {"check", "finish", "settle"} => exit[wjob[w]] # "none"
    /\ \A c \in Cancellers : cpc[c] \in {"flag", "term", "grace", "settle"} =>
          /\ home[cjob[c]] = At[c]
          /\ "leader" \in group[cjob[c]] \/ exit[cjob[c]] # "none"

\* A runner lock that is not free has a live holder that gives it back: a worker
\* inside run_pending or a probe, on its own machine.
LockHeld ==
    \A m \in Machines :
        \/ lock[m] = Free
        \/ lock[m] \in Workers /\ At[lock[m]] = m /\ wpc[lock[m]] \in InRun
        \/ lock[m] \in Quiescers /\ At[lock[m]] = m /\ qpc[lock[m]] = "probed"

IInv ==
    /\ TypeOK /\ LockInv /\ FreshInv /\ WorkInv /\ RowOfLiveJobKept
    /\ RunInv /\ CancelInv /\ CancelStops /\ PauseInv /\ QuietMeansIdle
    /\ EndInv /\ LockHeld

-----------------------------------------------------------------------------
\* At most one worker of a machine is inside run_pending: the runner lock has one
\* holder.
LEMMA OneWorker ==
    ASSUME LockInv, NEW v \in Workers, NEW w \in Workers,
           wpc[v] \in InRun, wpc[w] \in InRun, At[v] = At[w]
    PROVE  v = w
BY DEF LockInv

\* No two workers have the same job: a job's row names one machine.
LEMMA OneWorkerPerJob ==
    ASSUME LockInv, WorkInv, NEW v \in Workers, NEW w \in Workers,
           wpc[v] \in HasJob, wpc[w] \in HasJob, wjob[v] = wjob[w]
    PROVE  v = w
BY OneWorker DEF WorkInv, HasJob, OnJob, InRun, WorkerPCs

\* What _write leaves: the other rows, and a row that is gone.
LEMMA WriteEffect ==
    ASSUME TypeOK, NEW j \in Jobs, NEW s \in States, WriteState(j, s)
    PROVE  /\ state' \in [Jobs -> States]
           /\ \A k \in Jobs : k # j => state'[k] = state[k]
           /\ state'[j] = IF state[j] = "absent" THEN "absent" ELSE s
BY DEF TypeOK, WriteState

\* What starting a command changes: only its job, and either the command runs or
\* it could not start.
SpawnOf(w) ==
    /\ wpc[w] = "spawn" /\ wjob[w] \in Jobs
    /\ flag' \subseteq Jobs
    /\ UNCHANGED <<state, home, pri, nextId, lock, paused, pidFile, wjob>>
    /\ UNCHANGED <<cpc, cjob, qpc, qwas, holding, crashes>>
    /\ group' \in [Jobs -> SUBSET Members]
    /\ runs' \in [Jobs -> Nat]
    /\ exit' \in [Jobs -> {"none", "ok", "err"}]
    /\ \A k \in Jobs : k # wjob[w] =>
          group'[k] = group[k] /\ runs'[k] = runs[k] /\ exit'[k] = exit[k]
    /\ \/ /\ wpc' = [wpc EXCEPT ![w] = "pid"]
          /\ runs'[wjob[w]] = runs[wjob[w]] + 1 /\ exit' = exit
       \/ /\ wpc' = [wpc EXCEPT ![w] = "check"]
          /\ runs' = runs /\ group' = group /\ exit'[wjob[w]] = "err"

\* run_one's Popen, in the form the lemmas below use.
LEMMA SpawnEffect ==
    ASSUME TypeOK, NEW w \in Workers, Spawn(w)
    PROVE  SpawnOf(w)
<1>1. wjob[w] \in Jobs
  BY DEF TypeOK
<1>2. /\ wpc[w] = "spawn" /\ flag' \subseteq Jobs
      /\ UNCHANGED <<state, home, pri, nextId, lock, paused, pidFile, wjob>>
      /\ UNCHANGED <<cpc, cjob, qpc, qwas, holding, crashes>>
  BY DEF Spawn, TypeOK, rowVars, cVars, qVars
<1>3. CASE WGo(w, "pid") /\ UNCHANGED exit
  <2>1. PICK helpers \in SUBSET {"child"} :
           group' = [group EXCEPT ![wjob[w]] = {"leader"} \cup helpers]
    BY <1>3 DEF Spawn, WGo, TypeOK
  <2>2. {"leader"} \cup helpers \in SUBSET Members
    BY DEF Members
  <2>3. runs' = [runs EXCEPT ![wjob[w]] = runs[wjob[w]] + 1]
    BY <1>3 DEF Spawn, WGo, TypeOK
  <2>4. group' \in [Jobs -> SUBSET Members] /\ runs' \in [Jobs -> Nat]
    BY <1>1, <2>1, <2>2, <2>3 DEF TypeOK
  <2> QED BY <1>1, <1>2, <1>3, <2>1, <2>3, <2>4 DEF TypeOK, WGo, SpawnOf
<1>4. CASE WGo(w, "check") /\ UNCHANGED <<group, runs>>
  BY <1>1, <1>2, <1>4 DEF Spawn, TypeOK, WGo, SpawnOf
<1> QED BY <1>3, <1>4 DEF Spawn

\* Every step of the queue keeps the types.
LEMMA TypeStep == TypeOK /\ [Next]_vars => TypeOK'
<1> SUFFICES ASSUME TypeOK, [Next]_vars PROVE TypeOK'
  OBVIOUS
<1> USE ProcsAssumption, BoundsAssumption DEF TypeOK, rowVars, fileVars, procVars,
     wVars, cVars, qVars, Jobs, Lockers, Procs, States, Finished, Members, WorkerPCs,
     CancelPCs, QuiescePCs
<1>1. CASE Caller
  <2>1. ASSUME NEW m \in Machines, NEW p \in Priorities, Add(m, p) PROVE TypeOK'
    BY <2>1 DEF Add
  <2>2. ASSUME NEW j \in Jobs, NEW p \in Priorities, SetPriority(j, p) PROVE TypeOK'
    BY <2>2 DEF SetPriority
  <2>3. ASSUME NEW m \in Machines, Pause(m) PROVE TypeOK'
    BY <2>3 DEF Pause
  <2>4. ASSUME NEW m \in Machines, Resume(m) PROVE TypeOK'
    BY <2>4 DEF Resume, Lift
  <2> QED BY <1>1, <2>1, <2>2, <2>3, <2>4 DEF Caller
<1>2. ASSUME NEW w \in Workers, RunPending(w) PROVE TypeOK'
  <2>1. CASE Serve(w)
    BY <2>1 DEF Serve, WGo
  <2>2. CASE Enter(w)
    BY <2>2 DEF Enter, WGo
  <2>3. CASE EnterBusy(w)
    BY <2>3 DEF EnterBusy, WGo
  <2>4. CASE Recover(w)
    BY <2>4 DEF Recover, WGo, RecoverTo
  <2>5. CASE Pick(w)
    <3>1. CASE WGo(w, "release") /\ UNCHANGED wjob
      BY <2>5, <3>1 DEF Pick, WGo
    <3>2. ASSUME NEW j \in Jobs, wjob' = [wjob EXCEPT ![w] = j], WGo(w, "gate")
          PROVE TypeOK'
      BY <2>5, <3>2 DEF Pick, WGo
    <3> QED BY <2>5, <3>1, <3>2 DEF Pick
  <2>6. CASE GateOpen(w)
    BY <2>6 DEF GateOpen, WGo
  <2>7. CASE GateClosed(w)
    BY <2>7 DEF GateClosed, WGo
  <2>8. CASE Start(w)
    BY <2>8 DEF Start, WGo, WriteState
  <2>9. CASE Spawn(w)
    <3>1. SpawnOf(w)
      BY <2>9, SpawnEffect
    <3> QED BY <3>1 DEF SpawnOf
  <2>10. CASE WritePid(w)
    BY <2>10 DEF WritePid, WGo
  <2>11. CASE Reap(w)
    BY <2>11 DEF Reap, WGo
  <2>12. CASE CheckFlag(w)
    BY <2>12 DEF CheckFlag, WGo
  <2>13. CASE Finish(w)
    BY <2>13 DEF Finish, WGo, WriteState
  <2>14. CASE Release(w)
    BY <2>14 DEF Release, WGo
  <2> QED BY <1>2, <2>1, <2>2, <2>3, <2>4, <2>5, <2>6, <2>7, <2>8, <2>9, <2>10, <2>11,
       <2>12, <2>13, <2>14 DEF RunPending, RunOne
<1>3. ASSUME NEW w \in Workers, WorkerKilled(w) PROVE TypeOK'
  BY <1>3 DEF WorkerKilled, KillWorkers
<1>4. ASSUME NEW j \in Jobs, LeaderExit(j) PROVE TypeOK'
  BY <1>4 DEF LeaderExit, Remains
<1>5. ASSUME NEW j \in Jobs, ChildExit(j) PROVE TypeOK'
  BY <1>5 DEF ChildExit
<1>6. ASSUME NEW c \in Cancellers, Cancel(c) PROVE TypeOK'
  <2>1. ASSUME NEW j \in Jobs, CancelRead(c, j) PROVE TypeOK'
    BY <2>1 DEF CancelRead, CGo
  <2>2. CASE CancelDrop(c)
    BY <2>2 DEF CancelDrop, CGo
  <2>3. CASE CancelPid(c)
    BY <2>3 DEF CancelPid, CGo
  <2>4. CASE CancelFlag(c)
    BY <2>4 DEF CancelFlag, CGo
  <2>5. CASE CancelTerm(c)
    BY <2>5 DEF CancelTerm, CGo
  <2>6. CASE CancelGone(c)
    BY <2>6 DEF CancelGone, CGo
  <2>7. CASE CancelKill(c)
    BY <2>7 DEF CancelKill, CGo, Remains
  <2>8. CASE CancelSettle(c)
    BY <2>8 DEF CancelSettle, CGo, WriteState
  <2>9. CASE CancelDies(c)
    BY <2>9 DEF CancelDies, CGo
  <2> QED BY <1>6, <2>1, <2>2, <2>3, <2>4, <2>5, <2>6, <2>7, <2>8, <2>9 DEF Cancel
<1>7. ASSUME NEW q \in Quiescers, Quiesce(q) PROVE TypeOK'
  <2>1. CASE QuiesceRead(q)
    BY <2>1 DEF QuiesceRead, QGo
  <2>2. CASE QuiescePause(q)
    BY <2>2 DEF QuiescePause, QGo
  <2>3. CASE QuiesceProbe(q)
    BY <2>3 DEF QuiesceProbe, QGo
  <2>4. CASE QuiesceQuiet(q)
    BY <2>4 DEF QuiesceQuiet, QGo
  <2>5. CASE Reload(q)
    BY <2>5 DEF Reload, QGo, KillWorkers
  <2>6. CASE ReloadResume(q)
    BY <2>6 DEF ReloadResume, QGo, Lift
  <2>7. CASE QuiesceFails(q)
    BY <2>7 DEF QuiesceFails, QuiesceEnds, QGo
  <2>8. CASE InstallDies(q)
    BY <2>8 DEF InstallDies, QuiesceEnds, QGo
  <2> QED BY <1>7, <2>1, <2>2, <2>3, <2>4, <2>5, <2>6, <2>7, <2>8 DEF Quiesce
<1>8. ASSUME NEW m \in Machines, Reboot(m) PROVE TypeOK'
  BY <1>8 DEF Reboot
<1>9. CASE UNCHANGED vars
  BY <1>9 DEF vars
<1> QED BY <1>1, <1>2, <1>3, <1>4, <1>5, <1>6, <1>7, <1>8, <1>9 DEF Next

\* The runner lock changes hands only through Free: run_pending and running() take it
\* without waiting, and a kill or a reboot frees only what the dead held.
LEMMA LockStep == TypeOK /\ LockInv /\ [Next]_vars => LockInv'
<1> SUFFICES ASSUME TypeOK, LockInv, [Next]_vars PROVE LockInv'
  OBVIOUS
<1> USE ProcsAssumption DEF TypeOK, LockInv, InRun, WorkerPCs, Lockers, Procs, rowVars,
     fileVars, procVars, wVars, cVars, qVars
<1>1. CASE Caller
  BY <1>1 DEF Caller, Add, SetPriority, Pause, Resume, Lift
<1>2. ASSUME NEW w \in Workers, RunPending(w) PROVE LockInv'
  <2>1. CASE Serve(w)
    BY <2>1 DEF Serve, WGo
  <2>2. CASE Enter(w)
    BY <2>2 DEF Enter, WGo
  <2>3. CASE EnterBusy(w)
    BY <2>3 DEF EnterBusy, WGo
  <2>4. CASE Recover(w)
    BY <2>4 DEF Recover, WGo, RecoverTo
  <2>5. CASE Pick(w)
    BY <2>5 DEF Pick, WGo
  <2>6. CASE GateOpen(w)
    BY <2>6 DEF GateOpen, WGo
  <2>7. CASE GateClosed(w)
    BY <2>7 DEF GateClosed, WGo
  <2>8. CASE Start(w)
    BY <2>8 DEF Start, WGo, WriteState
  <2>9. CASE Spawn(w)
    BY <2>9 DEF Spawn, WGo
  <2>10. CASE WritePid(w)
    BY <2>10 DEF WritePid, WGo
  <2>11. CASE Reap(w)
    BY <2>11 DEF Reap, WGo
  <2>12. CASE CheckFlag(w)
    BY <2>12 DEF CheckFlag, WGo
  <2>13. CASE Finish(w)
    BY <2>13 DEF Finish, WGo, WriteState
  <2>14. CASE Release(w)
    BY <2>14 DEF Release, WGo
  <2> QED BY <1>2, <2>1, <2>2, <2>3, <2>4, <2>5, <2>6, <2>7, <2>8, <2>9, <2>10, <2>11,
       <2>12, <2>13, <2>14 DEF RunPending, RunOne
<1>3. ASSUME NEW w \in Workers, WorkerKilled(w) PROVE LockInv'
  BY <1>3 DEF WorkerKilled, KillWorkers
<1>4. ASSUME NEW j \in Jobs, LeaderExit(j) PROVE LockInv'
  BY <1>4 DEF LeaderExit, Remains
<1>5. ASSUME NEW j \in Jobs, ChildExit(j) PROVE LockInv'
  BY <1>5 DEF ChildExit
<1>6. ASSUME NEW c \in Cancellers, Cancel(c) PROVE LockInv'
  BY <1>6 DEF Cancel, CancelRead, CancelDrop, CancelPid, CancelFlag, CancelTerm,
       CancelGone, CancelKill, CancelSettle, CancelDies, CGo, Remains, WriteState
<1>7. ASSUME NEW q \in Quiescers, Quiesce(q) PROVE LockInv'
  <2>1. CASE QuiesceRead(q)
    BY <2>1 DEF QuiesceRead, QGo
  <2>2. CASE QuiescePause(q)
    BY <2>2 DEF QuiescePause, QGo
  <2>3. CASE QuiesceProbe(q)
    BY <2>3 DEF QuiesceProbe, QGo
  <2>4. CASE QuiesceQuiet(q)
    BY <2>4 DEF QuiesceQuiet, QGo
  <2>5. CASE Reload(q)
    BY <2>5 DEF Reload, QGo, KillWorkers
  <2>6. CASE ReloadResume(q)
    BY <2>6 DEF ReloadResume, QGo, Lift
  <2>7. CASE QuiesceFails(q)
    BY <2>7 DEF QuiesceFails, QuiesceEnds, QGo
  <2>8. CASE InstallDies(q)
    BY <2>8 DEF InstallDies, QuiesceEnds, QGo
  <2> QED BY <1>7, <2>1, <2>2, <2>3, <2>4, <2>5, <2>6, <2>7, <2>8 DEF Quiesce
<1>8. ASSUME NEW m \in Machines, Reboot(m) PROVE LockInv'
  BY <1>8 DEF Reboot
<1>9. CASE UNCHANGED vars
  BY <1>9 DEF vars
<1> QED BY <1>1, <1>2, <1>3, <1>4, <1>5, <1>6, <1>7, <1>8, <1>9 DEF Next

\* Ids are handed out in order and a job's command is started only after its row has
\* left pending.
LEMMA FreshStep ==
    TypeOK /\ FreshInv /\ WorkInv /\ RowOfLiveJobKept /\ CancelInv /\ [Next]_vars => FreshInv'
<1> SUFFICES ASSUME TypeOK, FreshInv, WorkInv, RowOfLiveJobKept, CancelInv, [Next]_vars
     PROVE FreshInv'
  OBVIOUS
<1> USE DEF TypeOK, FreshInv, Jobs, rowVars, fileVars, procVars, wVars, cVars, qVars
<1>1. CASE Caller
  <2>1. ASSUME NEW m \in Machines, NEW p \in Priorities, Add(m, p) PROVE FreshInv'
    BY <2>1 DEF Add
  <2>2. ASSUME NEW j \in Jobs, NEW p \in Priorities, SetPriority(j, p) PROVE FreshInv'
    BY <2>2 DEF SetPriority
  <2>3. ASSUME NEW m \in Machines, Pause(m) PROVE FreshInv'
    BY <2>3 DEF Pause
  <2>4. ASSUME NEW m \in Machines, Resume(m) PROVE FreshInv'
    BY <2>4 DEF Resume, Lift
  <2> QED BY <1>1, <2>1, <2>2, <2>3, <2>4 DEF Caller
<1>2. ASSUME NEW w \in Workers, RunPending(w) PROVE FreshInv'
  <2>1. CASE Serve(w)
    BY <2>1 DEF Serve, WGo
  <2>2. CASE Enter(w)
    BY <2>2 DEF Enter, WGo
  <2>3. CASE EnterBusy(w)
    BY <2>3 DEF EnterBusy, WGo
  <2>4. CASE Recover(w)
    BY <2>4 DEF Recover, WGo, RecoverTo
  <2>5. CASE Pick(w)
    BY <2>5 DEF Pick, WGo
  <2>6. CASE GateOpen(w)
    BY <2>6 DEF GateOpen, WGo
  <2>7. CASE GateClosed(w)
    BY <2>7 DEF GateClosed, WGo
  <2>8. CASE Start(w)
    BY <2>8 DEF Start, WGo, WriteState
  <2>9. CASE Spawn(w)
    <3>1. SpawnOf(w)
      BY <2>9, SpawnEffect
    <3>2. wjob[w] < nextId /\ state[wjob[w]] # "pending"
      BY <3>1 DEF SpawnOf, WorkInv, RowOfLiveJobKept, HasJob, OnJob
    <3> QED BY <3>1, <3>2 DEF SpawnOf
  <2>10. CASE WritePid(w)
    BY <2>10 DEF WritePid, WGo
  <2>11. CASE Reap(w)
    BY <2>11 DEF Reap, WGo
  <2>12. CASE CheckFlag(w)
    BY <2>12 DEF CheckFlag, WGo
  <2>13. CASE Finish(w)
    BY <2>13 DEF Finish, WGo, WriteState
  <2>14. CASE Release(w)
    BY <2>14 DEF Release, WGo
  <2> QED BY <1>2, <2>1, <2>2, <2>3, <2>4, <2>5, <2>6, <2>7, <2>8, <2>9, <2>10, <2>11,
       <2>12, <2>13, <2>14 DEF RunPending, RunOne
<1>3. ASSUME NEW w \in Workers, WorkerKilled(w) PROVE FreshInv'
  BY <1>3 DEF WorkerKilled, KillWorkers
<1>4. ASSUME NEW j \in Jobs, LeaderExit(j) PROVE FreshInv'
  BY <1>4 DEF LeaderExit, Remains
<1>5. ASSUME NEW j \in Jobs, ChildExit(j) PROVE FreshInv'
  BY <1>5 DEF ChildExit
<1>6. ASSUME NEW c \in Cancellers, Cancel(c) PROVE FreshInv'
  <2>1. ASSUME NEW j \in Jobs, CancelRead(c, j) PROVE FreshInv'
    BY <2>1 DEF CancelRead, CGo
  <2>2. CASE CancelDrop(c)
    BY <2>2 DEF CancelDrop, CGo
  <2>3. CASE CancelPid(c)
    BY <2>3 DEF CancelPid, CGo
  <2>4. CASE CancelFlag(c)
    BY <2>4 DEF CancelFlag, CGo
  <2>5. CASE CancelTerm(c)
    BY <2>5 DEF CancelTerm, CGo
  <2>6. CASE CancelGone(c)
    BY <2>6 DEF CancelGone, CGo
  <2>7. CASE CancelKill(c)
    BY <2>7 DEF CancelKill, CGo, Remains
  <2>8. CASE CancelSettle(c)
    BY <2>8 DEF CancelSettle, CGo, WriteState
  <2>9. CASE CancelDies(c)
    BY <2>9 DEF CancelDies, CGo
  <2> QED BY <1>6, <2>1, <2>2, <2>3, <2>4, <2>5, <2>6, <2>7, <2>8, <2>9 DEF Cancel
<1>7. ASSUME NEW q \in Quiescers, Quiesce(q) PROVE FreshInv'
  BY <1>7 DEF Quiesce, QuiesceRead, QuiescePause, QuiesceProbe, QuiesceQuiet, Reload,
       ReloadResume, QuiesceFails, InstallDies, QuiesceEnds, QGo, KillWorkers, Lift
<1>8. ASSUME NEW m \in Machines, Reboot(m) PROVE FreshInv'
  BY <1>8 DEF Reboot
<1>9. CASE UNCHANGED vars
  BY <1>9 DEF vars
<1> QED BY <1>1, <1>2, <1>3, <1>4, <1>5, <1>6, <1>7, <1>8, <1>9 DEF Next

\* What run_pending read stays true of its job up to run_one's own writes, except that a
\* cancel may drop the row.
LEMMA WorkStep ==
    TypeOK /\ LockInv /\ FreshInv /\ WorkInv /\ CancelInv /\ [Next]_vars => WorkInv'
<1> SUFFICES ASSUME TypeOK, LockInv, FreshInv, WorkInv, CancelInv, [Next]_vars PROVE
     WorkInv'
  OBVIOUS
<1> USE ProcsAssumption DEF TypeOK, FreshInv, WorkInv, HasJob, OnJob, Jobs, Lockers,
     Procs, rowVars, fileVars, procVars, wVars, cVars, qVars
<1>1. CASE Caller
  <2>1. ASSUME NEW m \in Machines, NEW p \in Priorities, Add(m, p) PROVE WorkInv'
    BY <2>1 DEF Add
  <2>2. ASSUME NEW j \in Jobs, NEW p \in Priorities, SetPriority(j, p) PROVE WorkInv'
    BY <2>2 DEF SetPriority
  <2>3. ASSUME NEW m \in Machines, Pause(m) PROVE WorkInv'
    BY <2>3 DEF Pause
  <2>4. ASSUME NEW m \in Machines, Resume(m) PROVE WorkInv'
    BY <2>4 DEF Resume, Lift
  <2> QED BY <1>1, <2>1, <2>2, <2>3, <2>4 DEF Caller
<1>2. ASSUME NEW w \in Workers, RunPending(w) PROVE WorkInv'
  <2>1. CASE Serve(w)
    BY <2>1 DEF Serve, WGo
  <2>2. CASE Enter(w)
    BY <2>2 DEF Enter, WGo
  <2>3. CASE EnterBusy(w)
    BY <2>3 DEF EnterBusy, WGo
  <2>4. CASE Recover(w)
    BY <2>4 DEF Recover, WGo, RecoverTo
  <2>5. CASE Pick(w)
    <3>1. CASE WGo(w, "release") /\ UNCHANGED wjob
      BY <2>5, <3>1 DEF Pick, WGo
    <3>2. ASSUME NEW j \in PendingHere(At[w]), wjob' = [wjob EXCEPT ![w] = j], WGo(w, "gate")
          PROVE WorkInv'
      BY <2>5, <3>2 DEF Pick, WGo, PendingHere
    <3> QED BY <2>5, <3>1, <3>2 DEF Pick, IsFirst
  <2>6. CASE GateOpen(w)
    BY <2>6 DEF GateOpen, WGo
  <2>7. CASE GateClosed(w)
    BY <2>7 DEF GateClosed, WGo
  <2>8. CASE Start(w)
    BY <2>8, OneWorkerPerJob, WriteEffect DEF Start, WGo, States
  <2>9. CASE Spawn(w)
    <3>1. SpawnOf(w)
      BY <2>9, SpawnEffect
    <3> QED BY <3>1, OneWorkerPerJob DEF SpawnOf
  <2>10. CASE WritePid(w)
    BY <2>10 DEF WritePid, WGo
  <2>11. CASE Reap(w)
    BY <2>11 DEF Reap, WGo
  <2>12. CASE CheckFlag(w)
    BY <2>12 DEF CheckFlag, WGo
  <2>13. CASE Finish(w)
    <3>1. PICK s \in Finished : WriteState(wjob[w], s)
      BY <2>13 DEF Finish, Finished
    <3> QED BY <2>13, <3>1, OneWorkerPerJob, WriteEffect DEF Finish, WGo, States, Finished
  <2>14. CASE Release(w)
    BY <2>14 DEF Release, WGo
  <2> QED BY <1>2, <2>1, <2>2, <2>3, <2>4, <2>5, <2>6, <2>7, <2>8, <2>9, <2>10, <2>11,
       <2>12, <2>13, <2>14 DEF RunPending, RunOne
<1>3. ASSUME NEW w \in Workers, WorkerKilled(w) PROVE WorkInv'
  BY <1>3 DEF WorkerKilled, KillWorkers
<1>4. ASSUME NEW j \in Jobs, LeaderExit(j) PROVE WorkInv'
  BY <1>4 DEF LeaderExit, Remains
<1>5. ASSUME NEW j \in Jobs, ChildExit(j) PROVE WorkInv'
  BY <1>5 DEF ChildExit
<1>6. ASSUME NEW c \in Cancellers, Cancel(c) PROVE WorkInv'
  <2>1. ASSUME NEW j \in Jobs, CancelRead(c, j) PROVE WorkInv'
    BY <2>1 DEF CancelRead, CGo
  <2>2. CASE CancelDrop(c)
    BY <2>2 DEF CancelDrop, CGo
  <2>3. CASE CancelPid(c)
    BY <2>3 DEF CancelPid, CGo
  <2>4. CASE CancelFlag(c)
    BY <2>4 DEF CancelFlag, CGo
  <2>5. CASE CancelTerm(c)
    BY <2>5 DEF CancelTerm, CGo
  <2>6. CASE CancelGone(c)
    BY <2>6 DEF CancelGone, CGo
  <2>7. CASE CancelKill(c)
    BY <2>7 DEF CancelKill, CGo, Remains
  <2>8. CASE CancelSettle(c)
    BY <2>8, WriteEffect DEF CancelSettle, CGo, States, Finished, CancelInv
  <2>9. CASE CancelDies(c)
    BY <2>9 DEF CancelDies, CGo
  <2> QED BY <1>6, <2>1, <2>2, <2>3, <2>4, <2>5, <2>6, <2>7, <2>8, <2>9 DEF Cancel
<1>7. ASSUME NEW q \in Quiescers, Quiesce(q) PROVE WorkInv'
  <2>1. CASE QuiesceRead(q)
    BY <2>1 DEF QuiesceRead, QGo
  <2>2. CASE QuiescePause(q)
    BY <2>2 DEF QuiescePause, QGo
  <2>3. CASE QuiesceProbe(q)
    BY <2>3 DEF QuiesceProbe, QGo
  <2>4. CASE QuiesceQuiet(q)
    BY <2>4 DEF QuiesceQuiet, QGo
  <2>5. CASE Reload(q)
    BY <2>5 DEF Reload, QGo, KillWorkers
  <2>6. CASE ReloadResume(q)
    BY <2>6 DEF ReloadResume, QGo, Lift
  <2>7. CASE QuiesceFails(q)
    BY <2>7 DEF QuiesceFails, QuiesceEnds, QGo
  <2>8. CASE InstallDies(q)
    BY <2>8 DEF InstallDies, QuiesceEnds, QGo
  <2> QED BY <1>7, <2>1, <2>2, <2>3, <2>4, <2>5, <2>6, <2>7, <2>8 DEF Quiesce
<1>8. ASSUME NEW m \in Machines, Reboot(m) PROVE WorkInv'
  BY <1>8 DEF Reboot
<1>9. CASE UNCHANGED vars
  BY <1>9 DEF vars
<1> QED BY <1>1, <1>2, <1>3, <1>4, <1>5, <1>6, <1>7, <1>8, <1>9 DEF Next

\* Only a cancel and the worker itself move the row of a job in hand.
LEMMA RowStep ==
    TypeOK /\ LockInv /\ FreshInv /\ WorkInv /\ RowOfLiveJobKept /\ CancelInv /\ [Next]_vars => RowOfLiveJobKept'
<1> SUFFICES ASSUME TypeOK, LockInv, FreshInv, WorkInv, RowOfLiveJobKept, CancelInv,
     [Next]_vars PROVE RowOfLiveJobKept'
  OBVIOUS
<1> USE ProcsAssumption DEF TypeOK, FreshInv, WorkInv, RowOfLiveJobKept, HasJob, OnJob,
     Jobs, Lockers, Procs, rowVars, fileVars, procVars, wVars, cVars, qVars
<1>1. CASE Caller
  <2>1. ASSUME NEW m \in Machines, NEW p \in Priorities, Add(m, p) PROVE
       RowOfLiveJobKept'
    BY <2>1 DEF Add
  <2>2. ASSUME NEW j \in Jobs, NEW p \in Priorities, SetPriority(j, p) PROVE
       RowOfLiveJobKept'
    BY <2>2 DEF SetPriority
  <2>3. ASSUME NEW m \in Machines, Pause(m) PROVE RowOfLiveJobKept'
    BY <2>3 DEF Pause
  <2>4. ASSUME NEW m \in Machines, Resume(m) PROVE RowOfLiveJobKept'
    BY <2>4 DEF Resume, Lift
  <2> QED BY <1>1, <2>1, <2>2, <2>3, <2>4 DEF Caller
<1>2. ASSUME NEW w \in Workers, RunPending(w) PROVE RowOfLiveJobKept'
  <2>1. CASE Serve(w)
    BY <2>1 DEF Serve, WGo
  <2>2. CASE Enter(w)
    BY <2>2 DEF Enter, WGo
  <2>3. CASE EnterBusy(w)
    BY <2>3 DEF EnterBusy, WGo
  <2>4. CASE Recover(w)
    <3>1. wpc[w] = "recover"
      BY <2>4 DEF Recover, RecoverTo
    <3>2. ASSUME NEW v \in Workers, wpc[v] \in HasJob PROVE home[wjob[v]] # At[w]
      <4>1. wpc[v] \in InRun /\ wpc[w] \in InRun /\ v # w
        BY <3>1, <3>2 DEF InRun, WorkerPCs
      <4>2. At[v] # At[w]
        BY <4>1, OneWorker
      <4> QED BY <3>2, <4>2
    <3> QED BY <2>4, <3>2 DEF Recover, RecoverTo, WGo
  <2>5. CASE Pick(w)
    BY <2>5 DEF Pick, WGo
  <2>6. CASE GateOpen(w)
    BY <2>6 DEF GateOpen, WGo
  <2>7. CASE GateClosed(w)
    BY <2>7 DEF GateClosed, WGo
  <2>8. CASE Start(w)
    BY <2>8, OneWorkerPerJob, WriteEffect DEF Start, WGo, States
  <2>9. CASE Spawn(w)
    <3>1. SpawnOf(w)
      BY <2>9, SpawnEffect
    <3> QED BY <3>1 DEF SpawnOf
  <2>10. CASE WritePid(w)
    BY <2>10 DEF WritePid, WGo
  <2>11. CASE Reap(w)
    BY <2>11 DEF Reap, WGo
  <2>12. CASE CheckFlag(w)
    BY <2>12 DEF CheckFlag, WGo
  <2>13. CASE Finish(w)
    <3>1. PICK s \in Finished : WriteState(wjob[w], s)
      BY <2>13 DEF Finish, Finished
    <3> QED BY <2>13, <3>1, OneWorkerPerJob, WriteEffect DEF Finish, WGo, States, Finished
  <2>14. CASE Release(w)
    BY <2>14 DEF Release, WGo
  <2> QED BY <1>2, <2>1, <2>2, <2>3, <2>4, <2>5, <2>6, <2>7, <2>8, <2>9, <2>10, <2>11,
       <2>12, <2>13, <2>14 DEF RunPending, RunOne
<1>3. ASSUME NEW w \in Workers, WorkerKilled(w) PROVE RowOfLiveJobKept'
  BY <1>3 DEF WorkerKilled, KillWorkers
<1>4. ASSUME NEW j \in Jobs, LeaderExit(j) PROVE RowOfLiveJobKept'
  BY <1>4 DEF LeaderExit, Remains
<1>5. ASSUME NEW j \in Jobs, ChildExit(j) PROVE RowOfLiveJobKept'
  BY <1>5 DEF ChildExit
<1>6. ASSUME NEW c \in Cancellers, Cancel(c) PROVE RowOfLiveJobKept'
  <2>1. ASSUME NEW j \in Jobs, CancelRead(c, j) PROVE RowOfLiveJobKept'
    BY <2>1 DEF CancelRead, CGo
  <2>2. CASE CancelDrop(c)
    BY <2>2 DEF CancelDrop, CGo
  <2>3. CASE CancelPid(c)
    BY <2>3 DEF CancelPid, CGo
  <2>4. CASE CancelFlag(c)
    BY <2>4 DEF CancelFlag, CGo
  <2>5. CASE CancelTerm(c)
    BY <2>5 DEF CancelTerm, CGo
  <2>6. CASE CancelGone(c)
    BY <2>6 DEF CancelGone, CGo
  <2>7. CASE CancelKill(c)
    BY <2>7 DEF CancelKill, CGo, Remains
  <2>8. CASE CancelSettle(c)
    BY <2>8, WriteEffect DEF CancelSettle, CGo, States, Finished, CancelInv
  <2>9. CASE CancelDies(c)
    BY <2>9 DEF CancelDies, CGo
  <2> QED BY <1>6, <2>1, <2>2, <2>3, <2>4, <2>5, <2>6, <2>7, <2>8, <2>9 DEF Cancel
<1>7. ASSUME NEW q \in Quiescers, Quiesce(q) PROVE RowOfLiveJobKept'
  <2>1. CASE QuiesceRead(q)
    BY <2>1 DEF QuiesceRead, QGo
  <2>2. CASE QuiescePause(q)
    BY <2>2 DEF QuiescePause, QGo
  <2>3. CASE QuiesceProbe(q)
    BY <2>3 DEF QuiesceProbe, QGo
  <2>4. CASE QuiesceQuiet(q)
    BY <2>4 DEF QuiesceQuiet, QGo
  <2>5. CASE Reload(q)
    BY <2>5 DEF Reload, QGo, KillWorkers
  <2>6. CASE ReloadResume(q)
    BY <2>6 DEF ReloadResume, QGo, Lift
  <2>7. CASE QuiesceFails(q)
    BY <2>7 DEF QuiesceFails, QuiesceEnds, QGo
  <2>8. CASE InstallDies(q)
    BY <2>8 DEF InstallDies, QuiesceEnds, QGo
  <2> QED BY <1>7, <2>1, <2>2, <2>3, <2>4, <2>5, <2>6, <2>7, <2>8 DEF Quiesce
<1>8. ASSUME NEW m \in Machines, Reboot(m) PROVE RowOfLiveJobKept'
  BY <1>8 DEF Reboot
<1>9. CASE UNCHANGED vars
  BY <1>9 DEF vars
<1> QED BY <1>1, <1>2, <1>3, <1>4, <1>5, <1>6, <1>7, <1>8, <1>9 DEF Next

\* A start, an exit or a kill keeps the count of starts and the recorded exit in step.
LEMMA RunStep ==
    TypeOK /\ WorkInv /\ RunInv /\ RowOfLiveJobKept /\ [Next]_vars => RunInv'
<1> SUFFICES ASSUME TypeOK, WorkInv, RunInv, RowOfLiveJobKept, [Next]_vars PROVE RunInv'
  OBVIOUS
<1> USE DEF TypeOK, WorkInv, RunInv, HasJob, OnJob, rowVars, fileVars, procVars, wVars,
     cVars, qVars
<1>1. CASE Caller
  <2>1. ASSUME NEW m \in Machines, NEW p \in Priorities, Add(m, p) PROVE RunInv'
    BY <2>1 DEF Add
  <2>2. ASSUME NEW j \in Jobs, NEW p \in Priorities, SetPriority(j, p) PROVE RunInv'
    BY <2>2 DEF SetPriority
  <2>3. ASSUME NEW m \in Machines, Pause(m) PROVE RunInv'
    BY <2>3 DEF Pause
  <2>4. ASSUME NEW m \in Machines, Resume(m) PROVE RunInv'
    BY <2>4 DEF Resume, Lift
  <2> QED BY <1>1, <2>1, <2>2, <2>3, <2>4 DEF Caller
<1>2. ASSUME NEW w \in Workers, RunPending(w) PROVE RunInv'
  <2>1. CASE Serve(w)
    BY <2>1 DEF Serve, WGo
  <2>2. CASE Enter(w)
    BY <2>2 DEF Enter, WGo
  <2>3. CASE EnterBusy(w)
    BY <2>3 DEF EnterBusy, WGo
  <2>4. CASE Recover(w)
    BY <2>4 DEF Recover, WGo, RecoverTo
  <2>5. CASE Pick(w)
    BY <2>5 DEF Pick, WGo
  <2>6. CASE GateOpen(w)
    BY <2>6 DEF GateOpen, WGo
  <2>7. CASE GateClosed(w)
    BY <2>7 DEF GateClosed, WGo
  <2>8. CASE Start(w)
    BY <2>8, WriteEffect DEF Start, WGo, States
  <2>9. CASE Spawn(w)
    <3>1. SpawnOf(w)
      BY <2>9, SpawnEffect
    <3> QED BY <3>1 DEF SpawnOf, RowOfLiveJobKept
  <2>10. CASE WritePid(w)
    BY <2>10 DEF WritePid, WGo
  <2>11. CASE Reap(w)
    BY <2>11 DEF Reap, WGo
  <2>12. CASE CheckFlag(w)
    BY <2>12 DEF CheckFlag, WGo
  <2>13. CASE Finish(w)
    <3>1. PICK s \in Finished : /\ WriteState(wjob[w], s)
                                 /\ s = "done" => exit[wjob[w]] = "ok"
      BY <2>13 DEF Finish, Finished
    <3> QED BY <2>13, <3>1, WriteEffect DEF Finish, WGo, States, Finished
  <2>14. CASE Release(w)
    BY <2>14 DEF Release, WGo
  <2> QED BY <1>2, <2>1, <2>2, <2>3, <2>4, <2>5, <2>6, <2>7, <2>8, <2>9, <2>10, <2>11,
       <2>12, <2>13, <2>14 DEF RunPending, RunOne
<1>3. ASSUME NEW w \in Workers, WorkerKilled(w) PROVE RunInv'
  BY <1>3 DEF WorkerKilled, KillWorkers
<1>4. ASSUME NEW j \in Jobs, LeaderExit(j) PROVE RunInv'
  BY <1>4 DEF LeaderExit, Remains
<1>5. ASSUME NEW j \in Jobs, ChildExit(j) PROVE RunInv'
  BY <1>5 DEF ChildExit
<1>6. ASSUME NEW c \in Cancellers, Cancel(c) PROVE RunInv'
  <2>1. ASSUME NEW j \in Jobs, CancelRead(c, j) PROVE RunInv'
    BY <2>1 DEF CancelRead, CGo
  <2>2. CASE CancelDrop(c)
    BY <2>2 DEF CancelDrop, CGo
  <2>3. CASE CancelPid(c)
    BY <2>3 DEF CancelPid, CGo
  <2>4. CASE CancelFlag(c)
    BY <2>4 DEF CancelFlag, CGo
  <2>5. CASE CancelTerm(c)
    BY <2>5 DEF CancelTerm, CGo
  <2>6. CASE CancelGone(c)
    BY <2>6 DEF CancelGone, CGo
  <2>7. CASE CancelKill(c)
    BY <2>7 DEF CancelKill, CGo, Remains
  <2>8. CASE CancelSettle(c)
    BY <2>8 DEF CancelSettle, CGo, WriteState
  <2>9. CASE CancelDies(c)
    BY <2>9 DEF CancelDies, CGo
  <2> QED BY <1>6, <2>1, <2>2, <2>3, <2>4, <2>5, <2>6, <2>7, <2>8, <2>9 DEF Cancel
<1>7. ASSUME NEW q \in Quiescers, Quiesce(q) PROVE RunInv'
  BY <1>7 DEF Quiesce, QuiesceRead, QuiescePause, QuiesceProbe, QuiesceQuiet, Reload,
       ReloadResume, QuiesceFails, InstallDies, QuiesceEnds, QGo, KillWorkers, Lift
<1>8. ASSUME NEW m \in Machines, Reboot(m) PROVE RunInv'
  BY <1>8 DEF Reboot
<1>9. CASE UNCHANGED vars
  BY <1>9 DEF vars
<1> QED BY <1>1, <1>2, <1>3, <1>4, <1>5, <1>6, <1>7, <1>8, <1>9 DEF Next

\* What cancel read of a running job stays true while it stops the group.
LEMMA CancelStep ==
    TypeOK /\ FreshInv /\ WorkInv /\ RunInv /\ CancelInv /\ [Next]_vars => CancelInv'
<1> SUFFICES ASSUME TypeOK, FreshInv, WorkInv, RunInv, CancelInv, [Next]_vars PROVE
     CancelInv'
  OBVIOUS
<1> USE DEF TypeOK, FreshInv, WorkInv, CancelInv, HasJob, OnJob, Jobs, rowVars,
     fileVars, procVars, wVars, cVars, qVars
<1>1. CASE Caller
  <2>1. ASSUME NEW m \in Machines, NEW p \in Priorities, Add(m, p) PROVE CancelInv'
    BY <2>1 DEF Add
  <2>2. ASSUME NEW j \in Jobs, NEW p \in Priorities, SetPriority(j, p) PROVE CancelInv'
    BY <2>2 DEF SetPriority
  <2>3. ASSUME NEW m \in Machines, Pause(m) PROVE CancelInv'
    BY <2>3 DEF Pause
  <2>4. ASSUME NEW m \in Machines, Resume(m) PROVE CancelInv'
    BY <2>4 DEF Resume, Lift
  <2> QED BY <1>1, <2>1, <2>2, <2>3, <2>4 DEF Caller
<1>2. ASSUME NEW w \in Workers, RunPending(w) PROVE CancelInv'
  <2>1. CASE Serve(w)
    BY <2>1 DEF Serve, WGo
  <2>2. CASE Enter(w)
    BY <2>2 DEF Enter, WGo
  <2>3. CASE EnterBusy(w)
    BY <2>3 DEF EnterBusy, WGo
  <2>4. CASE Recover(w)
    BY <2>4 DEF Recover, WGo, RecoverTo
  <2>5. CASE Pick(w)
    BY <2>5 DEF Pick, WGo
  <2>6. CASE GateOpen(w)
    BY <2>6 DEF GateOpen, WGo
  <2>7. CASE GateClosed(w)
    BY <2>7 DEF GateClosed, WGo
  <2>8. CASE Start(w)
    BY <2>8, WriteEffect DEF Start, WGo, States
  <2>9. CASE Spawn(w)
    <3>1. SpawnOf(w)
      BY <2>9, SpawnEffect
    <3> QED BY <3>1 DEF SpawnOf
  <2>10. CASE WritePid(w)
    BY <2>10 DEF WritePid, WGo
  <2>11. CASE Reap(w)
    BY <2>11 DEF Reap, WGo
  <2>12. CASE CheckFlag(w)
    BY <2>12 DEF CheckFlag, WGo
  <2>13. CASE Finish(w)
    <3>1. PICK s \in Finished : WriteState(wjob[w], s)
      BY <2>13 DEF Finish, Finished
    <3> QED BY <2>13, <3>1, WriteEffect DEF Finish, WGo, States, Finished
  <2>14. CASE Release(w)
    BY <2>14 DEF Release, WGo
  <2> QED BY <1>2, <2>1, <2>2, <2>3, <2>4, <2>5, <2>6, <2>7, <2>8, <2>9, <2>10, <2>11,
       <2>12, <2>13, <2>14 DEF RunPending, RunOne
<1>3. ASSUME NEW w \in Workers, WorkerKilled(w) PROVE CancelInv'
  BY <1>3 DEF WorkerKilled, KillWorkers
<1>4. ASSUME NEW j \in Jobs, LeaderExit(j) PROVE CancelInv'
  BY <1>4 DEF LeaderExit, Remains
<1>5. ASSUME NEW j \in Jobs, ChildExit(j) PROVE CancelInv'
  BY <1>5 DEF ChildExit
<1>6. ASSUME NEW c \in Cancellers, Cancel(c) PROVE CancelInv'
  <2>1. ASSUME NEW j \in Jobs, CancelRead(c, j) PROVE CancelInv'
    BY <2>1 DEF CancelRead, CGo
  <2>2. CASE CancelDrop(c)
    BY <2>2 DEF CancelDrop, CGo
  <2>3. CASE CancelPid(c)
    BY <2>3 DEF CancelPid, CGo, RunInv
  <2>4. CASE CancelFlag(c)
    BY <2>4 DEF CancelFlag, CGo
  <2>5. CASE CancelTerm(c)
    BY <2>5 DEF CancelTerm, CGo
  <2>6. CASE CancelGone(c)
    BY <2>6 DEF CancelGone, CGo
  <2>7. CASE CancelKill(c)
    BY <2>7 DEF CancelKill, CGo, Remains
  <2>8. CASE CancelSettle(c)
    BY <2>8, WriteEffect DEF CancelSettle, CGo, States, Finished, CancelInv
  <2>9. CASE CancelDies(c)
    BY <2>9 DEF CancelDies, CGo
  <2> QED BY <1>6, <2>1, <2>2, <2>3, <2>4, <2>5, <2>6, <2>7, <2>8, <2>9 DEF Cancel
<1>7. ASSUME NEW q \in Quiescers, Quiesce(q) PROVE CancelInv'
  BY <1>7 DEF Quiesce, QuiesceRead, QuiescePause, QuiesceProbe, QuiesceQuiet, Reload,
       ReloadResume, QuiesceFails, InstallDies, QuiesceEnds, QGo, KillWorkers, Lift
<1>8. ASSUME NEW m \in Machines, Reboot(m) PROVE CancelInv'
  BY <1>8 DEF Reboot
<1>9. CASE UNCHANGED vars
  BY <1>9 DEF vars
<1> QED BY <1>1, <1>2, <1>3, <1>4, <1>5, <1>6, <1>7, <1>8, <1>9 DEF Next

\* A group that cancel found or made empty never gets a member again.
LEMMA StopStep ==
    TypeOK /\ WorkInv /\ RunInv /\ CancelInv /\ CancelStops /\ [Next]_vars => CancelStops'
<1> SUFFICES ASSUME TypeOK, WorkInv, RunInv, CancelInv, CancelStops, [Next]_vars PROVE
     CancelStops'
  OBVIOUS
<1> USE DEF TypeOK, CancelInv, CancelStops, rowVars, fileVars, procVars, wVars, cVars,
     qVars
<1>1. CASE Caller
  BY <1>1 DEF Caller, Add, SetPriority, Pause, Resume, Lift
<1>2. ASSUME NEW w \in Workers, RunPending(w) PROVE CancelStops'
  <2>1. CASE Serve(w)
    BY <2>1 DEF Serve, WGo
  <2>2. CASE Enter(w)
    BY <2>2 DEF Enter, WGo
  <2>3. CASE EnterBusy(w)
    BY <2>3 DEF EnterBusy, WGo
  <2>4. CASE Recover(w)
    BY <2>4 DEF Recover, WGo, RecoverTo
  <2>5. CASE Pick(w)
    BY <2>5 DEF Pick, WGo
  <2>6. CASE GateOpen(w)
    BY <2>6 DEF GateOpen, WGo
  <2>7. CASE GateClosed(w)
    BY <2>7 DEF GateClosed, WGo
  <2>8. CASE Start(w)
    BY <2>8 DEF Start, WGo, WriteState
  <2>9. CASE Spawn(w)
    <3>1. SpawnOf(w)
      BY <2>9, SpawnEffect
    <3> QED BY <3>1 DEF SpawnOf, WorkInv
  <2>10. CASE WritePid(w)
    BY <2>10 DEF WritePid, WGo
  <2>11. CASE Reap(w)
    BY <2>11 DEF Reap, WGo
  <2>12. CASE CheckFlag(w)
    BY <2>12 DEF CheckFlag, WGo
  <2>13. CASE Finish(w)
    BY <2>13 DEF Finish, WGo, WriteState
  <2>14. CASE Release(w)
    BY <2>14 DEF Release, WGo
  <2> QED BY <1>2, <2>1, <2>2, <2>3, <2>4, <2>5, <2>6, <2>7, <2>8, <2>9, <2>10, <2>11,
       <2>12, <2>13, <2>14 DEF RunPending, RunOne
<1>3. ASSUME NEW w \in Workers, WorkerKilled(w) PROVE CancelStops'
  BY <1>3 DEF WorkerKilled, KillWorkers
<1>4. ASSUME NEW j \in Jobs, LeaderExit(j) PROVE CancelStops'
  BY <1>4 DEF LeaderExit, Remains
<1>5. ASSUME NEW j \in Jobs, ChildExit(j) PROVE CancelStops'
  BY <1>5 DEF ChildExit
<1>6. ASSUME NEW c \in Cancellers, Cancel(c) PROVE CancelStops'
  <2>1. ASSUME NEW j \in Jobs, CancelRead(c, j) PROVE CancelStops'
    BY <2>1 DEF CancelRead, CGo
  <2>2. CASE CancelDrop(c)
    BY <2>2 DEF CancelDrop, CGo
  <2>3. CASE CancelPid(c)
    BY <2>3 DEF CancelPid, CGo
  <2>4. CASE CancelFlag(c)
    BY <2>4 DEF CancelFlag, CGo
  <2>5. CASE CancelTerm(c)
    BY <2>5 DEF CancelTerm, CGo
  <2>6. CASE CancelGone(c)
    BY <2>6 DEF CancelGone, CGo
  <2>7. CASE CancelKill(c)
    BY <2>7 DEF CancelKill, CGo, Remains
  <2>8. CASE CancelSettle(c)
    BY <2>8 DEF CancelSettle, CGo, WriteState
  <2>9. CASE CancelDies(c)
    BY <2>9 DEF CancelDies, CGo
  <2> QED BY <1>6, <2>1, <2>2, <2>3, <2>4, <2>5, <2>6, <2>7, <2>8, <2>9 DEF Cancel
<1>7. ASSUME NEW q \in Quiescers, Quiesce(q) PROVE CancelStops'
  BY <1>7 DEF Quiesce, QuiesceRead, QuiescePause, QuiesceProbe, QuiesceQuiet, Reload,
       ReloadResume, QuiesceFails, InstallDies, QuiesceEnds, QGo, KillWorkers, Lift
<1>8. ASSUME NEW m \in Machines, Reboot(m) PROVE CancelStops'
  BY <1>8 DEF Reboot
<1>9. CASE UNCHANGED vars
  BY <1>9 DEF vars
<1> QED BY <1>1, <1>2, <1>3, <1>4, <1>5, <1>6, <1>7, <1>8, <1>9 DEF Next

\* After quiesce has paused and seen the lock free, no worker gets past the gate.
LEMMA QuietStep ==
    TypeOK /\ LockInv /\ PauseInv /\ QuietMeansIdle /\ [Next]_vars => (PauseInv /\ QuietMeansIdle)'
<1> SUFFICES ASSUME TypeOK, LockInv, PauseInv, QuietMeansIdle, [Next]_vars PROVE
     (PauseInv /\ QuietMeansIdle)'
  OBVIOUS
<1> USE ProcsAssumption DEF TypeOK, PauseInv, QuietMeansIdle, InRun, OnJob, WorkerPCs,
     Lockers, Procs, rowVars, fileVars, procVars, wVars, cVars, qVars
<1>1. CASE Caller
  <2>1. ASSUME NEW m \in Machines, NEW p \in Priorities, Add(m, p) PROVE (PauseInv /\
       QuietMeansIdle)'
    BY <2>1 DEF Add
  <2>2. ASSUME NEW j \in Jobs, NEW p \in Priorities, SetPriority(j, p) PROVE (PauseInv
       /\ QuietMeansIdle)'
    BY <2>2 DEF SetPriority
  <2>3. ASSUME NEW m \in Machines, Pause(m) PROVE (PauseInv /\ QuietMeansIdle)'
    BY <2>3 DEF Pause
  <2>4. ASSUME NEW m \in Machines, Resume(m) PROVE (PauseInv /\ QuietMeansIdle)'
    BY <2>4 DEF Resume, Lift
  <2> QED BY <1>1, <2>1, <2>2, <2>3, <2>4 DEF Caller
<1>2. ASSUME NEW w \in Workers, RunPending(w) PROVE (PauseInv /\ QuietMeansIdle)'
  <2>1. CASE Serve(w)
    BY <2>1 DEF Serve, WGo
  <2>2. CASE Enter(w)
    BY <2>2 DEF Enter, WGo
  <2>3. CASE EnterBusy(w)
    BY <2>3 DEF EnterBusy, WGo
  <2>4. CASE Recover(w)
    BY <2>4 DEF Recover, WGo, RecoverTo
  <2>5. CASE Pick(w)
    BY <2>5 DEF Pick, WGo
  <2>6. CASE GateOpen(w)
    BY <2>6 DEF GateOpen, WGo
  <2>7. CASE GateClosed(w)
    BY <2>7 DEF GateClosed, WGo
  <2>8. CASE Start(w)
    BY <2>8 DEF Start, WGo, WriteState
  <2>9. CASE Spawn(w)
    BY <2>9 DEF Spawn, WGo
  <2>10. CASE WritePid(w)
    BY <2>10 DEF WritePid, WGo
  <2>11. CASE Reap(w)
    BY <2>11 DEF Reap, WGo
  <2>12. CASE CheckFlag(w)
    BY <2>12 DEF CheckFlag, WGo
  <2>13. CASE Finish(w)
    BY <2>13 DEF Finish, WGo, WriteState
  <2>14. CASE Release(w)
    BY <2>14 DEF Release, WGo
  <2> QED BY <1>2, <2>1, <2>2, <2>3, <2>4, <2>5, <2>6, <2>7, <2>8, <2>9, <2>10, <2>11,
       <2>12, <2>13, <2>14 DEF RunPending, RunOne
<1>3. ASSUME NEW w \in Workers, WorkerKilled(w) PROVE (PauseInv /\ QuietMeansIdle)'
  BY <1>3 DEF WorkerKilled, KillWorkers
<1>4. ASSUME NEW j \in Jobs, LeaderExit(j) PROVE (PauseInv /\ QuietMeansIdle)'
  BY <1>4 DEF LeaderExit, Remains
<1>5. ASSUME NEW j \in Jobs, ChildExit(j) PROVE (PauseInv /\ QuietMeansIdle)'
  BY <1>5 DEF ChildExit
<1>6. ASSUME NEW c \in Cancellers, Cancel(c) PROVE (PauseInv /\ QuietMeansIdle)'
  BY <1>6 DEF Cancel, CancelRead, CancelDrop, CancelPid, CancelFlag, CancelTerm,
       CancelGone, CancelKill, CancelSettle, CancelDies, CGo, Remains, WriteState
<1>7. ASSUME NEW q \in Quiescers, Quiesce(q) PROVE (PauseInv /\ QuietMeansIdle)'
  <2>1. CASE QuiesceRead(q)
    BY <2>1 DEF QuiesceRead, QGo
  <2>2. CASE QuiescePause(q)
    BY <2>2 DEF QuiescePause, QGo
  <2>3. CASE QuiesceProbe(q)
    BY <2>3 DEF QuiesceProbe, QGo
  <2>4. CASE QuiesceQuiet(q)
    BY <2>4 DEF QuiesceQuiet, QGo, LockInv
  <2>5. CASE Reload(q)
    BY <2>5 DEF Reload, QGo, KillWorkers
  <2>6. CASE ReloadResume(q)
    BY <2>6 DEF ReloadResume, QGo, Lift
  <2>7. CASE QuiesceFails(q)
    BY <2>7 DEF QuiesceFails, QuiesceEnds, QGo, LockInv
  <2>8. CASE InstallDies(q)
    BY <2>8 DEF InstallDies, QuiesceEnds, QGo, LockInv
  <2> QED BY <1>7, <2>1, <2>2, <2>3, <2>4, <2>5, <2>6, <2>7, <2>8 DEF Quiesce
<1>8. ASSUME NEW m \in Machines, Reboot(m) PROVE (PauseInv /\ QuietMeansIdle)'
  BY <1>8 DEF Reboot
<1>9. CASE UNCHANGED vars
  BY <1>9 DEF vars
<1> QED BY <1>1, <1>2, <1>3, <1>4, <1>5, <1>6, <1>7, <1>8, <1>9 DEF Next

\* A job settles by how its command ended.
LEMMA EndStep ==
    TypeOK /\ LockInv /\ FreshInv /\ WorkInv /\ RowOfLiveJobKept /\ RunInv /\ CancelInv
        /\ CancelStops /\ EndInv /\ [Next]_vars => EndInv'
<1> SUFFICES ASSUME TypeOK, LockInv, FreshInv, WorkInv, RowOfLiveJobKept, RunInv, CancelInv,
       CancelStops, EndInv,
       [Next]_vars PROVE EndInv'
  OBVIOUS
<1> USE ProcsAssumption DEF TypeOK, FreshInv, WorkInv, CancelInv, EndInv, HasJob, OnJob, Jobs,
     rowVars, fileVars, procVars, wVars, cVars, qVars
<1>1. CASE Caller
  <2>1. ASSUME NEW m \in Machines, NEW p \in Priorities, Add(m, p) PROVE EndInv'
    BY <2>1 DEF Add
  <2>2. ASSUME NEW j \in Jobs, NEW p \in Priorities, SetPriority(j, p) PROVE EndInv'
    BY <2>2 DEF SetPriority
  <2>3. ASSUME NEW m \in Machines, Pause(m) PROVE EndInv'
    BY <2>3 DEF Pause
  <2>4. ASSUME NEW m \in Machines, Resume(m) PROVE EndInv'
    BY <2>4 DEF Resume, Lift
  <2> QED BY <1>1, <2>1, <2>2, <2>3, <2>4 DEF Caller
<1>2. ASSUME NEW w \in Workers, RunPending(w) PROVE EndInv'
  <2>1. CASE Serve(w)
    BY <2>1 DEF Serve, WGo
  <2>2. CASE Enter(w)
    BY <2>2 DEF Enter, WGo
  <2>3. CASE EnterBusy(w)
    BY <2>3 DEF EnterBusy, WGo
  <2>4. CASE Recover(w)
    BY <2>4 DEF Recover, WGo, RecoverTo
  <2>5. CASE Pick(w)
    BY <2>5 DEF Pick, WGo, IsFirst, PendingHere
  <2>6. CASE GateOpen(w)
    BY <2>6 DEF GateOpen, WGo
  <2>7. CASE GateClosed(w)
    BY <2>7 DEF GateClosed, WGo
  <2>8. CASE Start(w)
    BY <2>8, WriteEffect DEF Start, WGo, States
  <2>9. CASE Spawn(w)
    <3>1. SpawnOf(w)
      BY <2>9, SpawnEffect
    <3>2. \A v \in Workers : v # w /\ wpc[v] \in HasJob => wjob[v] # wjob[w]
      BY <3>1, OneWorkerPerJob DEF SpawnOf
    <3>3. \A v \in Workers : v # w => wpc'[v] = wpc[v] /\ wjob'[v] = wjob[v]
      BY <3>1 DEF SpawnOf
    <3>4. exit[wjob[w]] = "none" /\ wjob[w] < nextId /\ state[wjob[w]] # "pending"
      BY <3>1 DEF SpawnOf, RowOfLiveJobKept
    <3>5. CASE exit' = exit /\ wpc' = [wpc EXCEPT ![w] = "pid"]
      <4>1. PICK helpers \in SUBSET {"child"} :
               group' = [group EXCEPT ![wjob[w]] = {"leader"} \cup helpers]
        <5>1. wpc'[w] = "pid"
          BY <3>5
        <5>2. ~WGo(w, "check")
          BY <5>1 DEF WGo
        <5> QED BY <2>9, <5>2 DEF Spawn
      <4>2. "leader" \in group'[wjob[w]] /\ "zombie" \notin group'[wjob[w]]
        BY <3>1, <4>1 DEF SpawnOf
      <4>3. /\ \A k \in Jobs : k # wjob[w] => group'[k] = group[k]
            /\ UNCHANGED <<exit, state, nextId, home, wjob, cpc, cjob>>
        BY <3>1, <3>5 DEF SpawnOf
      <4>4. wpc'[w] = "pid"
        BY <3>5
      <4>5. ASSUME NEW j \in Jobs
            PROVE  /\ "leader" \in group'[j] => exit[j] = "none"
                   /\ "zombie" \in group'[j] => exit[j] # "none"
        BY <3>4, <4>2, <4>3
      <4>6. ASSUME NEW c \in Cancellers, cpc[c] \in {"flag", "term", "grace", "settle"}
            PROVE  "leader" \in group'[cjob[c]] \/ exit[cjob[c]] # "none"
        BY <4>2, <4>3, <4>6
      <4>7. ASSUME NEW v \in Workers, wpc'[v] \in {"pid", "wait"}
            PROVE  "leader" \in group'[wjob[v]] \/ exit[wjob[v]] # "none"
        BY <3>2, <3>3, <4>2, <4>3, <4>7
      <4> QED BY <3>3, <4>3, <4>4, <4>5, <4>6, <4>7
    <3>6. CASE exit'[wjob[w]] = "err" /\ group' = group /\ wpc' = [wpc EXCEPT ![w] = "check"]
      <4>1. group[wjob[w]] = {}
        <5>1. wjob[w] \in Jobs /\ runs[wjob[w]] = 0
          BY <3>1 DEF SpawnOf
        <5>2. group[wjob[w]] # {} => runs[wjob[w]] = 1
          BY <5>1, Zenon DEF RunInv
        <5>3. 0 # 1
          OBVIOUS
        <5> QED BY <5>1, <5>2, <5>3, Zenon
      <4>2. wpc'[w] = "check" /\ UNCHANGED <<group, state, nextId, home, wjob, cpc, cjob>>
        BY <3>1, <3>6 DEF SpawnOf
      <4>3. \A k \in Jobs : k # wjob[w] => exit'[k] = exit[k]
        BY <3>1 DEF SpawnOf
      <4>4. exit'[wjob[w]] # "none" /\ exit' \in [Jobs -> {"none", "ok", "err"}]
        BY <3>1, <3>6 DEF SpawnOf
      <4>5. ASSUME NEW j \in Jobs
            PROVE  /\ state[j] = "pending" \/ j >= nextId => exit'[j] = "none"
                   /\ state[j] = "cancelled" => exit'[j] # "none"
                   /\ "leader" \in group[j] => exit'[j] = "none"
                   /\ "zombie" \in group[j] => exit'[j] # "none"
        BY <3>4, <4>1, <4>3, <4>4
      <4>6. ASSUME NEW v \in Workers
            PROVE  /\ wpc'[v] \in {"gate", "start", "spawn"} => exit'[wjob[v]] = "none"
                   /\ wpc'[v] \in {"pid", "wait"} => "leader" \in group[wjob[v]] \/ exit'[wjob[v]] # "none"
                   /\ wpc'[v] \in {"check", "finish", "settle"} => exit'[wjob[v]] # "none"
        <5>1. CASE v = w
          BY <4>2, <4>4, <5>1
        <5>2. CASE v # w /\ wpc[v] \in HasJob
          <6>1. exit'[wjob[v]] = exit[wjob[v]] /\ wpc'[v] = wpc[v]
            BY <3>2, <3>3, <4>3, <5>2
          <6> QED BY <6>1
        <5>3. CASE v # w /\ wpc[v] \notin HasJob
          BY <3>3, <5>3
        <5> QED BY <5>1, <5>2, <5>3
      <4>7. ASSUME NEW c \in Cancellers, cpc[c] \in {"flag", "term", "grace", "settle"}
            PROVE  "leader" \in group[cjob[c]] \/ exit'[cjob[c]] # "none"
        BY <4>1, <4>3, <4>4, <4>7
      <4> QED BY <4>2, <4>5, <4>6, <4>7
    <3> QED BY <3>1, <3>5, <3>6 DEF SpawnOf
  <2>10. CASE WritePid(w)
    BY <2>10 DEF WritePid, WGo
  <2>11. CASE Reap(w)
    BY <2>11 DEF Reap, WGo
  <2>12. CASE CheckFlag(w)
    BY <2>12 DEF CheckFlag, WGo
  <2>13. CASE Finish(w)
    <3>1. PICK s \in Finished : WriteState(wjob[w], s)
      BY <2>13 DEF Finish, Finished
    <3> QED BY <2>13, <3>1, WriteEffect DEF Finish, WGo, States, Finished
  <2>14. CASE Release(w)
    BY <2>14 DEF Release, WGo
  <2> QED BY <1>2, <2>1, <2>2, <2>3, <2>4, <2>5, <2>6, <2>7, <2>8, <2>9, <2>10, <2>11, <2>12, <2>13, <2>14 DEF RunPending, RunOne
<1>3. ASSUME NEW w \in Workers, WorkerKilled(w) PROVE EndInv'
  BY <1>3 DEF WorkerKilled, KillWorkers
<1>4. ASSUME NEW j \in Jobs, LeaderExit(j) PROVE EndInv'
  <2>1. group'[j] \subseteq (group[j] \ {"leader"}) \cup {"zombie"} /\ exit'[j] \in {"ok", "err"}
    BY <1>4 DEF LeaderExit, Remains
  <2>2. \A k \in Jobs : k # j => group'[k] = group[k] /\ exit'[k] = exit[k]
    BY <1>4 DEF LeaderExit
  <2>3. exit'[j] # "none" /\ "leader" \notin group'[j] /\ runs[j] = 1
    BY <1>4, <2>1 DEF LeaderExit, RunInv
  <2>4. state[j] # "pending" /\ j < nextId
    BY <2>3
  <2> QED BY <1>4, <2>2, <2>3, <2>4 DEF LeaderExit
<1>5. ASSUME NEW j \in Jobs, ChildExit(j) PROVE EndInv'
  BY <1>5 DEF ChildExit
<1>6. ASSUME NEW c \in Cancellers, Cancel(c) PROVE EndInv'
  <2>1. ASSUME NEW j \in Jobs, CancelRead(c, j) PROVE EndInv'
    BY <2>1 DEF CancelRead, CGo
  <2>2. CASE CancelDrop(c)
    BY <2>2 DEF CancelDrop, CGo
  <2>3. CASE CancelPid(c)
    BY <2>3 DEF CancelPid, CGo
  <2>4. CASE CancelFlag(c)
    BY <2>4 DEF CancelFlag, CGo
  <2>5. CASE CancelTerm(c)
    BY <2>5 DEF CancelTerm, CGo
  <2>6. CASE CancelGone(c)
    BY <2>6 DEF CancelGone, CGo
  <2>7. CASE CancelKill(c)
    BY <2>7 DEF CancelKill, CGo, Remains
  <2>8. CASE CancelSettle(c)
    BY <2>8, WriteEffect DEF CancelSettle, CGo, States, Finished, CancelStops
  <2>9. CASE CancelDies(c)
    BY <2>9 DEF CancelDies, CGo
  <2> QED BY <1>6, <2>1, <2>2, <2>3, <2>4, <2>5, <2>6, <2>7, <2>8, <2>9 DEF Cancel
<1>7. ASSUME NEW q \in Quiescers, Quiesce(q) PROVE EndInv'
  <2>1. CASE QuiesceRead(q)
    BY <2>1 DEF QuiesceRead, QGo
  <2>2. CASE QuiescePause(q)
    BY <2>2 DEF QuiescePause, QGo
  <2>3. CASE QuiesceProbe(q)
    BY <2>3 DEF QuiesceProbe, QGo
  <2>4. CASE QuiesceQuiet(q)
    BY <2>4 DEF QuiesceQuiet, QGo
  <2>5. CASE Reload(q)
    BY <2>5 DEF Reload, QGo, KillWorkers
  <2>6. CASE ReloadResume(q)
    BY <2>6 DEF ReloadResume, QGo, Lift
  <2>7. CASE QuiesceFails(q)
    BY <2>7 DEF QuiesceFails, QuiesceEnds, QGo
  <2>8. CASE InstallDies(q)
    BY <2>8 DEF InstallDies, QuiesceEnds, QGo
  <2> QED BY <1>7, <2>1, <2>2, <2>3, <2>4, <2>5, <2>6, <2>7, <2>8 DEF Quiesce
<1>8. ASSUME NEW m \in Machines, Reboot(m) PROVE EndInv'
  BY <1>8 DEF Reboot
<1>9. CASE UNCHANGED vars
  BY <1>9 DEF vars
<1> QED BY <1>1, <1>2, <1>3, <1>4, <1>5, <1>6, <1>7, <1>8, <1>9 DEF Next

\* A holder that is killed or rebooted drops its lock.
LEMMA HeldStep == TypeOK /\ LockInv /\ LockHeld /\ [Next]_vars => LockHeld'
<1> SUFFICES ASSUME TypeOK, LockInv, LockHeld, [Next]_vars PROVE LockHeld'
  OBVIOUS
<1> USE ProcsAssumption DEF TypeOK, LockInv, LockHeld, InRun, WorkerPCs, Lockers, Procs,
     rowVars, fileVars, procVars, wVars, cVars, qVars
<1>1. CASE Caller
  <2>1. ASSUME NEW m \in Machines, NEW p \in Priorities, Add(m, p) PROVE LockHeld'
    BY <2>1 DEF Add
  <2>2. ASSUME NEW j \in Jobs, NEW p \in Priorities, SetPriority(j, p) PROVE LockHeld'
    BY <2>2 DEF SetPriority
  <2>3. ASSUME NEW m \in Machines, Pause(m) \/ Resume(m) PROVE LockHeld'
    BY <2>3 DEF Pause, Resume, Lift
  <2> QED BY <1>1, <2>1, <2>2, <2>3 DEF Caller
<1>2. ASSUME NEW w \in Workers, RunPending(w) PROVE LockHeld'
  <2>1. CASE Serve(w)
    BY <2>1 DEF Serve, WGo
  <2>2. CASE Enter(w)
    BY <2>2 DEF Enter, WGo
  <2>3. CASE EnterBusy(w)
    BY <2>3 DEF EnterBusy, WGo
  <2>4. CASE Recover(w)
    BY <2>4 DEF Recover, WGo, RecoverTo
  <2>5. CASE Pick(w)
    BY <2>5 DEF Pick, WGo
  <2>6. CASE GateOpen(w)
    BY <2>6 DEF GateOpen, WGo
  <2>7. CASE GateClosed(w)
    BY <2>7 DEF GateClosed, WGo
  <2>8. CASE Start(w)
    BY <2>8 DEF Start, WGo
  <2>9. CASE Spawn(w)
    BY <2>9 DEF Spawn, WGo
  <2>10. CASE WritePid(w)
    BY <2>10 DEF WritePid, WGo
  <2>11. CASE Reap(w)
    BY <2>11 DEF Reap, WGo
  <2>12. CASE CheckFlag(w)
    BY <2>12 DEF CheckFlag, WGo
  <2>13. CASE Finish(w)
    BY <2>13 DEF Finish, WGo
  <2>14. CASE Release(w)
    BY <2>14 DEF Release, WGo
  <2> QED BY <1>2, <2>1, <2>2, <2>3, <2>4, <2>5, <2>6, <2>7, <2>8, <2>9, <2>10, <2>11, <2>12, <2>13, <2>14 DEF RunPending, RunOne
<1>3. ASSUME NEW w \in Workers, WorkerKilled(w) PROVE LockHeld'
  BY <1>3 DEF WorkerKilled, KillWorkers
<1>4. ASSUME NEW j \in Jobs, LeaderExit(j) PROVE LockHeld'
  BY <1>4 DEF LeaderExit, Remains
<1>5. ASSUME NEW j \in Jobs, ChildExit(j) PROVE LockHeld'
  BY <1>5 DEF ChildExit
<1>6. ASSUME NEW c \in Cancellers, Cancel(c) PROVE LockHeld'
  <2>1. ASSUME NEW j \in Jobs, CancelRead(c, j) PROVE LockHeld'
    BY <2>1 DEF CancelRead, CGo
  <2>2. CASE CancelDrop(c)
    BY <2>2 DEF CancelDrop, CGo
  <2>3. CASE CancelPid(c)
    BY <2>3 DEF CancelPid, CGo
  <2>4. CASE CancelFlag(c)
    BY <2>4 DEF CancelFlag, CGo
  <2>5. CASE CancelTerm(c)
    BY <2>5 DEF CancelTerm, CGo
  <2>6. CASE CancelGone(c)
    BY <2>6 DEF CancelGone, CGo
  <2>7. CASE CancelKill(c)
    BY <2>7 DEF CancelKill, CGo, Remains
  <2>8. CASE CancelSettle(c)
    BY <2>8 DEF CancelSettle, CGo
  <2>9. CASE CancelDies(c)
    BY <2>9 DEF CancelDies, CGo
  <2> QED BY <1>6, <2>1, <2>2, <2>3, <2>4, <2>5, <2>6, <2>7, <2>8, <2>9 DEF Cancel
<1>7. ASSUME NEW q \in Quiescers, Quiesce(q) PROVE LockHeld'
  <2>1. CASE QuiesceRead(q)
    BY <2>1 DEF QuiesceRead, QGo
  <2>2. CASE QuiescePause(q)
    BY <2>2 DEF QuiescePause, QGo
  <2>3. CASE QuiesceProbe(q)
    BY <2>3 DEF QuiesceProbe, QGo
  <2>4. CASE QuiesceQuiet(q)
    BY <2>4 DEF QuiesceQuiet, QGo
  <2>5. CASE Reload(q)
    BY <2>5 DEF Reload, QGo, KillWorkers
  <2>6. CASE ReloadResume(q)
    BY <2>6 DEF ReloadResume, QGo, Lift
  <2>7. CASE QuiesceFails(q)
    BY <2>7 DEF QuiesceFails, QuiesceEnds, QGo
  <2>8. CASE InstallDies(q)
    BY <2>8 DEF InstallDies, QuiesceEnds, QGo
  <2> QED BY <1>7, <2>1, <2>2, <2>3, <2>4, <2>5, <2>6, <2>7, <2>8 DEF Quiesce
<1>8. ASSUME NEW m \in Machines, Reboot(m) PROVE LockHeld'
  BY <1>8 DEF Reboot
<1>9. CASE UNCHANGED vars
  BY <1>9 DEF vars
<1> QED BY <1>1, <1>2, <1>3, <1>4, <1>5, <1>6, <1>7, <1>8, <1>9 DEF Next

\* No step takes a finished job back or revives a dropped row.
LEMMA EndsStep == TypeOK /\ FreshInv /\ WorkInv /\ [Next]_vars => EndsKept
<1> SUFFICES ASSUME TypeOK, FreshInv, WorkInv, [Next]_vars PROVE EndsKept
  OBVIOUS
<1> USE DEF TypeOK, FreshInv, WorkInv, EndsKept, Finished, Jobs, rowVars, fileVars,
     procVars, wVars, cVars, qVars
<1>1. CASE Caller
  <2>1. ASSUME NEW m \in Machines, NEW p \in Priorities, Add(m, p) PROVE EndsKept
    BY <2>1 DEF Add
  <2>2. ASSUME NEW j \in Jobs, NEW p \in Priorities, SetPriority(j, p) PROVE EndsKept
    BY <2>2 DEF SetPriority
  <2>3. ASSUME NEW m \in Machines, Pause(m) PROVE EndsKept
    BY <2>3 DEF Pause
  <2>4. ASSUME NEW m \in Machines, Resume(m) PROVE EndsKept
    BY <2>4 DEF Resume, Lift
  <2> QED BY <1>1, <2>1, <2>2, <2>3, <2>4 DEF Caller
<1>2. ASSUME NEW w \in Workers, RunPending(w) PROVE EndsKept
  <2>1. CASE Serve(w)
    BY <2>1 DEF Serve, WGo
  <2>2. CASE Enter(w)
    BY <2>2 DEF Enter, WGo
  <2>3. CASE EnterBusy(w)
    BY <2>3 DEF EnterBusy, WGo
  <2>4. CASE Recover(w)
    BY <2>4 DEF Recover, WGo, RecoverTo
  <2>5. CASE Pick(w)
    BY <2>5 DEF Pick, WGo
  <2>6. CASE GateOpen(w)
    BY <2>6 DEF GateOpen, WGo
  <2>7. CASE GateClosed(w)
    BY <2>7 DEF GateClosed, WGo
  <2>8. CASE Start(w)
    BY <2>8, WriteEffect DEF Start, WGo, States
  <2>9. CASE Spawn(w)
    <3>1. SpawnOf(w)
      BY <2>9, SpawnEffect
    <3> QED BY <3>1 DEF SpawnOf
  <2>10. CASE WritePid(w)
    BY <2>10 DEF WritePid, WGo
  <2>11. CASE Reap(w)
    BY <2>11 DEF Reap, WGo
  <2>12. CASE CheckFlag(w)
    BY <2>12 DEF CheckFlag, WGo
  <2>13. CASE Finish(w)
    <3>1. PICK s \in Finished : WriteState(wjob[w], s)
      BY <2>13 DEF Finish, Finished
    <3> QED BY <2>13, <3>1, WriteEffect DEF Finish, WGo, States, Finished
  <2>14. CASE Release(w)
    BY <2>14 DEF Release, WGo
  <2> QED BY <1>2, <2>1, <2>2, <2>3, <2>4, <2>5, <2>6, <2>7, <2>8, <2>9, <2>10, <2>11,
       <2>12, <2>13, <2>14 DEF RunPending, RunOne
<1>3. ASSUME NEW w \in Workers, WorkerKilled(w) PROVE EndsKept
  BY <1>3 DEF WorkerKilled, KillWorkers
<1>4. ASSUME NEW j \in Jobs, LeaderExit(j) PROVE EndsKept
  BY <1>4 DEF LeaderExit, Remains
<1>5. ASSUME NEW j \in Jobs, ChildExit(j) PROVE EndsKept
  BY <1>5 DEF ChildExit
<1>6. ASSUME NEW c \in Cancellers, Cancel(c) PROVE EndsKept
  <2>1. ASSUME NEW j \in Jobs, CancelRead(c, j) PROVE EndsKept
    BY <2>1 DEF CancelRead, CGo
  <2>2. CASE CancelDrop(c)
    BY <2>2 DEF CancelDrop, CGo
  <2>3. CASE CancelPid(c)
    BY <2>3 DEF CancelPid, CGo
  <2>4. CASE CancelFlag(c)
    BY <2>4 DEF CancelFlag, CGo
  <2>5. CASE CancelTerm(c)
    BY <2>5 DEF CancelTerm, CGo
  <2>6. CASE CancelGone(c)
    BY <2>6 DEF CancelGone, CGo
  <2>7. CASE CancelKill(c)
    BY <2>7 DEF CancelKill, CGo, Remains
  <2>8. CASE CancelSettle(c)
    BY <2>8, WriteEffect DEF CancelSettle, CGo, States, Finished
  <2>9. CASE CancelDies(c)
    BY <2>9 DEF CancelDies, CGo
  <2> QED BY <1>6, <2>1, <2>2, <2>3, <2>4, <2>5, <2>6, <2>7, <2>8, <2>9 DEF Cancel
<1>7. ASSUME NEW q \in Quiescers, Quiesce(q) PROVE EndsKept
  BY <1>7 DEF Quiesce, QuiesceRead, QuiescePause, QuiesceProbe, QuiesceQuiet, Reload,
       ReloadResume, QuiesceFails, InstallDies, QuiesceEnds, QGo, KillWorkers, Lift
<1>8. ASSUME NEW m \in Machines, Reboot(m) PROVE EndsKept
  BY <1>8 DEF Reboot
<1>9. CASE UNCHANGED vars
  BY <1>9 DEF vars
<1> QED BY <1>1, <1>2, <1>3, <1>4, <1>5, <1>6, <1>7, <1>8, <1>9 DEF Next

\* The initial state satisfies the invariant.
LEMMA InitInv == Init => IInv
<1> SUFFICES ASSUME Init PROVE IInv
  OBVIOUS
<1>1. TypeOK
  <2>1. (CHOOSE m \in Machines : TRUE) \in Machines
    BY BoundsAssumption
  <2>2. (CHOOSE p \in Priorities : TRUE) \in Priorities
    BY BoundsAssumption
  <2> QED BY <2>1, <2>2, BoundsAssumption
       DEF Init, TypeOK, Jobs, Lockers, States, WorkerPCs, CancelPCs, QuiescePCs, Members
<1>2. LockInv /\ FreshInv /\ WorkInv /\ RowOfLiveJobKept
  BY <1>1 DEF Init, TypeOK, LockInv, FreshInv, WorkInv, RowOfLiveJobKept, HasJob, OnJob, InRun
<1>3. RunInv /\ CancelInv /\ CancelStops /\ PauseInv /\ QuietMeansIdle
  BY <1>1 DEF Init, TypeOK, RunInv, CancelInv, CancelStops, PauseInv, QuietMeansIdle
<1>4. EndInv /\ LockHeld
  BY <1>1, BoundsAssumption DEF Init, TypeOK, EndInv, LockHeld, Jobs
<1> QED BY <1>1, <1>2, <1>3, <1>4 DEF IInv

\* Every step of the queue preserves the invariant: the runner lock keeps other
\* workers off a job, the row keeps other machines off it, and the ids keep other
\* jobs off its row.
LEMMA StepInv == IInv /\ [Next]_vars => IInv'
BY TypeStep, LockStep, FreshStep, WorkStep, RowStep, RunStep, CancelStep, StopStep, QuietStep,
   EndStep, HeldStep DEF IInv

\* IInv holds in every reachable state of the queue.
THEOREM Invariant == Spec => []IInv
BY InitInv, StepInv, PTL DEF Spec

\* Every row, file, lock and place of the queue keeps its type, for any machines,
\* processes and bounds.
THEOREM TypeCorrect == Spec => []TypeOK
BY Invariant, PTL DEF IInv

\* No command is started twice: run_one marks the row under the runner lock before
\* it starts the command, and _recover never queues a cut-off row again.
THEOREM AtMostOnce == Spec => []RunAtMostOnce
<1>1. IInv => RunAtMostOnce
  BY DEF IInv, RunInv, RunAtMostOnce
<1> QED BY <1>1, Invariant, PTL

\* While a worker is on a job, no _recover and no other worker moves its row.
THEOREM LiveRowKept == Spec => []RowOfLiveJobKept
BY Invariant, PTL DEF IInv

\* When quiesce returns, no worker of its machine is on a job until a resume.
THEOREM Quiet == Spec => []QuietMeansIdle
BY Invariant, PTL DEF IInv

\* When cancel records a running job cancelled, its process group is dead.
THEOREM Stopped == Spec => []CancelStops
BY Invariant, PTL DEF IInv

\* A row says done only for a command that ran once, exited with 0 and is gone.
THEOREM DoneReal == Spec => []DoneIsReal
<1>1. IInv => DoneIsReal
  BY DEF IInv, RunInv, DoneIsReal
<1> QED BY <1>1, Invariant, PTL

\* A finished job never runs again and a dropped row never comes back.
THEOREM Lifecycle == Spec => RowLifecycle
<1>1. IInv /\ [Next]_vars => [EndsKept]_vars
  BY EndsStep DEF IInv
<1> QED BY <1>1, Invariant, PTL DEF Spec, RowLifecycle

-----------------------------------------------------------------------------
(* Why quiesce returns.                                                      *)

\* How many steps a worker has left before it is back in its poll loop, when the gate is
\* closed.
StepsLeft(place) ==
    CASE place = "idle"    -> 0
      [] place = "release" -> 1
      [] place = "gate"    -> 2
      [] place = "pick"    -> 3
      [] place \in {"recover", "settle", "finish"} -> 4
      [] place \in {"enter", "check"} -> 5
      [] place = "wait"    -> 6
      [] place = "pid"     -> 7
      [] place = "spawn"   -> 8
      [] place = "start"   -> 9

\* While a quiescer's pause stands, every step brings every worker of its machine nearer
\* to the poll loop or leaves it where it is, and none leaves the poll loop: each ends at
\* most the job it has in hand, in a bounded number of steps of its own.
PauseWindsDown ==
    \A q \in holding, w \in Workers :
        At[w] = At[q] /\ wpc'[w] # wpc[w] => StepsLeft(wpc'[w]) < StepsLeft(wpc[w])

LEMMA WindsStep == TypeOK /\ PauseInv /\ [Next]_vars => PauseWindsDown
<1> SUFFICES ASSUME TypeOK, PauseInv, [Next]_vars, NEW q \in holding, NEW u \in Workers,
                    At[u] = At[q], wpc'[u] # wpc[u]
             PROVE  StepsLeft(wpc'[u]) < StepsLeft(wpc[u])
  BY DEF PauseWindsDown
<1>1. At[u] \in paused
  BY DEF PauseInv
<1>2. wpc[u] \in WorkerPCs
  BY DEF TypeOK
<1>3. ASSUME wpc'[u] = "idle" PROVE StepsLeft(wpc'[u]) < StepsLeft(wpc[u])
  BY <1>2, <1>3 DEF StepsLeft, WorkerPCs
<1> USE DEF TypeOK, wVars
<1>4. CASE Caller
  BY <1>4 DEF Caller, Add, SetPriority, Pause, Resume
<1>5. ASSUME NEW w \in Workers, RunPending(w) PROVE StepsLeft(wpc'[u]) < StepsLeft(wpc[u])
  <2>1. ASSUME NEW place, WGo(w, place) PROVE u = w /\ wpc'[u] = place
    BY <2>1 DEF WGo
  <2>2. CASE Serve(w) \/ GateOpen(w)
    BY <2>1, <2>2, <1>1 DEF Serve, GateOpen
  <2>3. CASE EnterBusy(w) \/ Release(w)
    BY <2>1, <2>3, <1>3 DEF EnterBusy, Release
  <2>4. CASE Enter(w)
    BY <2>1, <2>4 DEF Enter, StepsLeft
  <2>5. CASE Recover(w)
    BY <2>1, <2>5 DEF Recover, RecoverTo, StepsLeft
  <2>6. CASE Pick(w)
    BY <2>1, <2>6 DEF Pick, StepsLeft
  <2>7. CASE GateClosed(w)
    BY <2>1, <2>7 DEF GateClosed, StepsLeft
  <2>8. CASE Start(w)
    BY <2>1, <2>8 DEF Start, StepsLeft
  <2>9. CASE Spawn(w)
    BY <2>1, <2>9 DEF Spawn, StepsLeft
  <2>10. CASE WritePid(w)
    BY <2>1, <2>10 DEF WritePid, StepsLeft
  <2>11. CASE Reap(w)
    BY <2>1, <2>11 DEF Reap, StepsLeft
  <2>12. CASE CheckFlag(w)
    BY <2>1, <2>12 DEF CheckFlag, StepsLeft
  <2>13. CASE Finish(w)
    BY <2>1, <2>13 DEF Finish, StepsLeft
  <2> QED BY <1>5, <2>2, <2>3, <2>4, <2>5, <2>6, <2>7, <2>8, <2>9, <2>10, <2>11, <2>12, <2>13
       DEF RunPending, RunOne
<1>6. ASSUME NEW w \in Workers, WorkerKilled(w) PROVE StepsLeft(wpc'[u]) < StepsLeft(wpc[u])
  BY <1>3, <1>6 DEF WorkerKilled, KillWorkers
<1>7. ASSUME NEW j \in Jobs, LeaderExit(j) \/ ChildExit(j) PROVE wpc' = wpc
  BY <1>7 DEF LeaderExit, ChildExit
<1>8. ASSUME NEW c \in Cancellers, Cancel(c) PROVE wpc' = wpc
  BY <1>8 DEF Cancel, CancelRead, CancelDrop, CancelPid, CancelFlag, CancelTerm, CancelGone,
     CancelKill, CancelSettle, CancelDies
<1>9. ASSUME NEW p \in Quiescers, Quiesce(p) PROVE StepsLeft(wpc'[u]) < StepsLeft(wpc[u])
  BY <1>3, <1>9 DEF Quiesce, QuiesceRead, QuiescePause, QuiesceProbe, QuiesceQuiet, Reload,
     ReloadResume, QuiesceFails, InstallDies, KillWorkers
<1>10. ASSUME NEW m \in Machines, Reboot(m) PROVE StepsLeft(wpc'[u]) < StepsLeft(wpc[u])
  BY <1>3, <1>10 DEF Reboot
<1>11. CASE UNCHANGED vars
  BY <1>11 DEF vars
<1> QED BY <1>4, <1>5, <1>6, <1>7, <1>8, <1>9, <1>10, <1>11 DEF Next

\* What quiesce waits for comes to an end: while its pause stands no worker of the machine
\* takes another job, and each is a bounded number of its own steps from giving the runner
\* lock back.
THEOREM QuiesceIsAwaited == Spec => [][PauseWindsDown]_vars
<1>1. IInv /\ [Next]_vars => PauseWindsDown
  BY WindsStep DEF IInv
<1> QED BY <1>1, Invariant, PTL DEF Spec

-----------------------------------------------------------------------------
(* The refinement: JobLedger is what the rows and commands show of the queue. *)

Commands == [j \in Jobs |-> CommandOf(j)]

\* A step that moves no row, command or id is none of JobLedger's.
LEMMA Unseen ==
    ASSUME UNCHANGED <<state, nextId, exit, runs>>
    PROVE  UNCHANGED Ledger!ledger
BY DEF Ledger!ledger, CommandOf

\* One row moves and no command does.
LEMMA RowBecomes ==
    ASSUME TypeOK, NEW j \in Jobs, NEW s, state' = [state EXCEPT ![j] = s], UNCHANGED <<exit, runs>>
    PROVE  Ledger!Becomes(j, s)
BY DEF Ledger!Becomes, CommandOf

\* Writing the state of a row that is gone shows nothing.
LEMMA WriteBecomes ==
    ASSUME TypeOK, NEW j \in Jobs, NEW s, WriteState(j, s), UNCHANGED <<nextId, exit, runs>>
    PROVE  \/ state[j] = "absent" /\ UNCHANGED Ledger!ledger
           \/ state[j] # "absent" /\ Ledger!Becomes(j, s)
<1>1. CASE state[j] = "absent"
  BY <1>1, Unseen DEF WriteState
<1>2. CASE state[j] # "absent"
  BY <1>2, RowBecomes DEF WriteState
<1> QED BY <1>1, <1>2

\* One command moves.
LEMMA CommandMoves ==
    ASSUME TypeOK, NEW j \in Jobs, NEW c, CommandOf(j)' = c,
           \A k \in Jobs : k # j => exit'[k] = exit[k] /\ runs'[k] = runs[k]
    PROVE  Commands' = [Commands EXCEPT ![j] = c]
<1>1. \A k \in Jobs : k # j => CommandOf(k)' = CommandOf(k)
  BY DEF CommandOf
<1> QED BY <1>1 DEF Commands

\* How a command that had started ended.
LEMMA ExitLedger ==
    ASSUME TypeOK, EndInv, RunInv, NEW j \in Jobs, "leader" \in group[j],
           NEW e \in {"ok", "err"}, exit' = [exit EXCEPT ![j] = e],
           UNCHANGED <<state, nextId, runs>>
    PROVE  Ledger!Next
<1>1. Commands[j] = "started"
  <2>1. exit[j] = "none" /\ runs[j] = 1
    BY DEF EndInv, RunInv
  <2> QED BY <2>1 DEF Commands, CommandOf
<1>2. CommandOf(j)' = e
  BY DEF TypeOK, CommandOf
<1>3. Commands' = [Commands EXCEPT ![j] = e]
  BY <1>2, CommandMoves DEF TypeOK
<1>4. Ledger!Exit(j)
  BY <1>1, <1>3 DEF Ledger!Exit, Commands
<1> QED BY <1>4 DEF Ledger!Next, Ledger!Jobs, Jobs

\* A worker or a cancel settles a row only of a command that has ended.
LEMMA EndedIs ==
    ASSUME TypeOK, NEW j \in Jobs, exit[j] # "none"
    PROVE  Ledger!Ended(j) /\ (Commands[j] = "ok" <=> exit[j] = "ok")
BY DEF TypeOK, Ledger!Ended, Commands, CommandOf

LEMMA StartLedger ==
    ASSUME IInv, NEW w \in Workers, Spawn(w)
    PROVE  Ledger!Next
<1>1. SpawnOf(w)
  BY SpawnEffect DEF IInv
<1>0. PICK j \in Jobs : j = wjob[w]
  BY <1>1 DEF SpawnOf
<1>2. /\ j \in Jobs /\ j < nextId /\ runs[j] = 0 /\ exit[j] = "none"
      /\ state[j] \in {"running", "cancelled", "absent"}
  BY <1>0, <1>1 DEF SpawnOf, IInv, WorkInv, EndInv, RowOfLiveJobKept, HasJob, OnJob
<1>3. state[j] \in {"running", "absent"} /\ Commands[j] = "none"
  BY <1>2 DEF IInv, EndInv, Commands, CommandOf
<1>4. PICK c \in {"started", "err"} : CommandOf(j)' = c
  <2>1. CASE runs'[j] = runs[j] + 1 /\ exit' = exit
    <3>1. CommandOf(j)' = "started"
      BY <1>2, <2>1 DEF CommandOf
    <3> QED BY <3>1
  <2>2. CASE exit'[j] = "err"
    <3>1. CommandOf(j)' = "err"
      BY <2>2 DEF CommandOf
    <3> QED BY <3>1
  <2> QED BY <1>0, <1>1, <2>1, <2>2 DEF SpawnOf
<1>5. Commands' = [Commands EXCEPT ![j] = c]
  BY <1>0, <1>1, <1>2, <1>4, CommandMoves DEF SpawnOf, IInv
<1>6. Ledger!Start(j)
  BY <1>1, <1>2, <1>3, <1>5 DEF Ledger!Start, SpawnOf, Commands
<1> QED BY <1>2, <1>6 DEF Ledger!Next, Ledger!Jobs, Jobs

LEMMA RecoverLedger ==
    ASSUME TypeOK, NEW w \in Workers, Recover(w)
    PROVE  Ledger!Next
<1> DEFINE S == {j \in Jobs : state[j] = "running" /\ home[j] = At[w]}
<1>1. /\ state' = [j \in Jobs |-> IF j \in S THEN "failed" ELSE state[j]]
      /\ UNCHANGED <<nextId, exit, runs>>
  BY DEF Recover, RecoverTo, procVars
<1>2. UNCHANGED Commands
  BY <1>1 DEF Commands, CommandOf
<1>3. Ledger!CutOff(S)
  BY <1>1, <1>2 DEF Ledger!CutOff, Ledger!Jobs, Jobs, Commands
<1> QED BY <1>3 DEF Ledger!Next, Ledger!Jobs, Jobs

LEMMA FinishLedger ==
    ASSUME IInv, NEW w \in Workers, Finish(w)
    PROVE  [Ledger!Next]_(Ledger!ledger)
<1> DEFINE j == wjob[w]
<1>1. /\ j \in Jobs /\ exit[j] # "none" /\ state[j] \in {"running", "cancelled", "absent"}
      /\ UNCHANGED <<nextId, exit, runs>>
  BY DEF Finish, IInv, TypeOK, EndInv, RowOfLiveJobKept, OnJob, procVars
<1>2. TypeOK /\ Ledger!Ended(j) /\ (Commands[j] = "ok" <=> exit[j] = "ok")
  BY <1>1, EndedIs DEF IInv
<1>3. CASE WriteState(j, "cancelled")
  <2>1. CASE state[j] # "absent" /\ Ledger!Becomes(j, "cancelled")
    <3>1. Ledger!Cancel(j)
      BY <1>1, <1>2, <2>1 DEF Ledger!Cancel
    <3> QED BY <1>1, <3>1 DEF Ledger!Next, Ledger!Jobs, Jobs
  <2> QED BY <1>1, <1>2, <1>3, <2>1, WriteBecomes
<1>4. CASE WriteState(j, IF exit[j] = "ok" THEN "done" ELSE "failed")
  <2>1. CASE state[j] # "absent" /\ Ledger!Becomes(j, IF exit[j] = "ok" THEN "done" ELSE "failed")
    <3>1. Ledger!Settle(j)
      BY <1>1, <1>2, <2>1 DEF Ledger!Settle, Commands
    <3> QED BY <1>1, <3>1 DEF Ledger!Next, Ledger!Jobs, Jobs
  <2> QED BY <1>1, <1>2, <1>4, <2>1, WriteBecomes
<1> QED BY <1>3, <1>4 DEF Finish

LEMMA CancelLedger ==
    ASSUME IInv, NEW c \in Cancellers, CancelSettle(c)
    PROVE  [Ledger!Next]_(Ledger!ledger)
<1> DEFINE j == cjob[c]
<1>1. /\ j \in Jobs /\ TypeOK /\ WriteState(j, "cancelled") /\ UNCHANGED <<nextId, exit, runs>>
      /\ cpc[c] = "settle" /\ state[j] \in {"running"} \cup Finished
  BY DEF CancelSettle, IInv, TypeOK, CancelInv, procVars, States
<1>2. exit[j] # "none"
  BY <1>1 DEF IInv, EndInv, CancelStops
<1>3. Ledger!Becomes(j, "cancelled")
  <2>1. state[j] # "absent"
    BY <1>1 DEF Finished
  <2> QED BY <1>1, <2>1, WriteBecomes
<1>4. Ledger!Cancel(j)
  BY <1>1, <1>2, <1>3, EndedIs DEF Ledger!Cancel, Finished
<1> QED BY <1>1, <1>4 DEF Ledger!Next, Ledger!Jobs, Jobs

LEMMA AddLedger ==
    ASSUME TypeOK, NEW m \in Machines, NEW p \in Priorities, Add(m, p)
    PROVE  Ledger!Next
<1>1. nextId \in Jobs /\ state' = [state EXCEPT ![nextId] = "pending"] /\ nextId' = nextId + 1
      /\ UNCHANGED <<exit, runs>>
  BY DEF Add, procVars
<1>2. Ledger!Add
  BY <1>1, RowBecomes DEF Ledger!Add, Ledger!Jobs, Jobs
<1> QED BY <1>2 DEF Ledger!Next

LEMMA TakeLedger ==
    ASSUME IInv, NEW w \in Workers, Start(w)
    PROVE  [Ledger!Next]_(Ledger!ledger)
<1> DEFINE j == wjob[w]
<1>1. /\ j \in Jobs /\ TypeOK /\ WriteState(j, "running") /\ UNCHANGED <<nextId, exit, runs>>
      /\ state[j] \in {"pending", "absent"}
  BY DEF Start, IInv, TypeOK, WorkInv, procVars
<1>2. CASE state[j] # "absent" /\ Ledger!Becomes(j, "running")
  <2>1. Ledger!Take(j)
    BY <1>1, <1>2 DEF Ledger!Take
  <2> QED BY <1>1, <2>1 DEF Ledger!Next, Ledger!Jobs, Jobs
<1> QED BY <1>1, <1>2, WriteBecomes

LEMMA DropLedger ==
    ASSUME TypeOK, NEW c \in Cancellers, CancelDrop(c)
    PROVE  [Ledger!Next]_(Ledger!ledger)
<1> DEFINE j == cjob[c]
<1>1. j \in Jobs /\ UNCHANGED <<nextId, exit, runs>>
      /\ state' = IF state[j] = "pending" THEN [state EXCEPT ![j] = "absent"] ELSE state
  BY DEF CancelDrop, TypeOK, procVars
<1>2. CASE state[j] = "pending"
  <2>1. Ledger!Drop(j)
    BY <1>1, <1>2, RowBecomes DEF Ledger!Drop
  <2> QED BY <1>1, <2>1 DEF Ledger!Next, Ledger!Jobs, Jobs
<1>3. CASE state[j] # "pending"
  BY <1>1, <1>3, Unseen
<1> QED BY <1>2, <1>3

LEMMA KillLedger ==
    ASSUME IInv, NEW c \in Cancellers, CancelKill(c)
    PROVE  [Ledger!Next]_(Ledger!ledger)
<1> DEFINE j == cjob[c]
<1>1. j \in Jobs /\ TypeOK /\ RunInv /\ EndInv /\ UNCHANGED <<state, nextId, runs>>
      /\ exit' = IF "leader" \in group[j] THEN [exit EXCEPT ![j] = "err"] ELSE exit
  BY DEF CancelKill, IInv, TypeOK, rowVars
<1>2. CASE "leader" \in group[j]
  BY <1>1, <1>2, ExitLedger
<1>3. CASE "leader" \notin group[j]
  BY <1>1, <1>3, Unseen
<1> QED BY <1>2, <1>3

LEMMA LeaderLedger ==
    ASSUME IInv, NEW j \in Jobs, LeaderExit(j)
    PROVE  Ledger!Next
<1>1. PICK e \in {"ok", "err"} : exit' = [exit EXCEPT ![j] = e]
  BY DEF LeaderExit
<1>2. "leader" \in group[j] /\ TypeOK /\ RunInv /\ EndInv /\ UNCHANGED <<state, nextId, runs>>
  BY DEF LeaderExit, IInv, rowVars
<1> QED BY <1>1, <1>2, ExitLedger

\* Every other step is unseen.
LEMMA LedgerStep == IInv /\ [Next]_vars => [Ledger!Next]_(Ledger!ledger)
<1> SUFFICES ASSUME IInv, [Next]_vars PROVE [Ledger!Next]_(Ledger!ledger)
  OBVIOUS
<1>0. TypeOK
  BY DEF IInv
<1> USE DEF rowVars, procVars, qVars
<1>1. CASE Caller
  BY <1>0, <1>1, AddLedger, Unseen DEF Caller, SetPriority, Pause, Resume
<1>2. ASSUME NEW w \in Workers, RunPending(w) PROVE [Ledger!Next]_(Ledger!ledger)
  <2>1. CASE Serve(w) \/ Enter(w) \/ EnterBusy(w) \/ Pick(w) \/ GateOpen(w) \/ GateClosed(w)
             \/ WritePid(w) \/ Reap(w) \/ CheckFlag(w) \/ Release(w)
    BY <2>1, Unseen
       DEF Serve, Enter, EnterBusy, Pick, GateOpen, GateClosed, WritePid, Reap, CheckFlag, Release
  <2> QED BY <1>0, <1>2, <2>1, RecoverLedger, TakeLedger, StartLedger, FinishLedger
          DEF RunPending, RunOne
<1>3. ASSUME NEW w \in Workers, WorkerKilled(w) PROVE UNCHANGED Ledger!ledger
  BY <1>3, Unseen DEF WorkerKilled
<1>4. ASSUME NEW j \in Jobs, ChildExit(j) PROVE UNCHANGED Ledger!ledger
  BY <1>4, Unseen DEF ChildExit
<1>5. ASSUME NEW c \in Cancellers, Cancel(c) PROVE [Ledger!Next]_(Ledger!ledger)
  <2>1. ASSUME NEW j \in Jobs, CancelRead(c, j) PROVE UNCHANGED Ledger!ledger
    BY <2>1, Unseen DEF CancelRead
  <2>2. CASE CancelPid(c) \/ CancelFlag(c) \/ CancelTerm(c) \/ CancelGone(c) \/ CancelDies(c)
    BY <2>2, Unseen DEF CancelPid, CancelFlag, CancelTerm, CancelGone, CancelDies
  <2> QED BY <1>0, <1>5, <2>1, <2>2, DropLedger, KillLedger, CancelLedger DEF Cancel
<1>6. ASSUME NEW q \in Quiescers, Quiesce(q) PROVE UNCHANGED Ledger!ledger
  BY <1>6, Unseen DEF Quiesce, QuiesceRead, QuiescePause, QuiesceProbe, QuiesceQuiet, Reload,
     ReloadResume, QuiesceFails, InstallDies
<1>7. ASSUME NEW m \in Machines, Reboot(m) PROVE UNCHANGED Ledger!ledger
  BY <1>7, Unseen DEF Reboot
<1>8. CASE UNCHANGED vars
  BY <1>8, Unseen DEF vars
<1> QED BY <1>1, <1>2, <1>3, <1>4, <1>5, <1>6, <1>7, <1>8, LeaderLedger DEF Next

\* Before anything is added.
LEMMA InitLedger == Init => Ledger!Init
BY DEF Init, Ledger!Init, Ledger!Jobs, Jobs, CommandOf

\* No runner lock is left behind: whatever is killed, rebooted or reloaded, a lock that
\* is taken has a live holder that gives it back.
THEOREM LockNotLeft == Spec => []LockHeld
BY Invariant, PTL DEF IInv

\* To whoever adds a job the queue is JobLedger, for any machines, workers, cancels,
\* kills and reboots.
THEOREM ImplementsJobLedger == Spec => ImplementsLedger
<1>1. IInv /\ [Next]_vars => [Ledger!Next]_(Ledger!ledger)
  BY LedgerStep
<1> QED BY InitLedger, Invariant, <1>1, PTL DEF Spec, Ledger!Spec, ImplementsLedger
=============================================================================
