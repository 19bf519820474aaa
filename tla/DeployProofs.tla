---------------------------- MODULE DeployProofs ----------------------------
(***************************************************************************)
(* Proofs about Deploy: an install beside the queue leaves every theorem of  *)
(* WorkQueueProofs standing, the machine lock never stays with a process     *)
(* that is gone, and an install and a job that wait for each other are never *)
(* served while both of them and the worker are there.                       *)
(***************************************************************************)
EXTENDS Deploy, WorkQueueProofs

\* Jobs, installs and no one are told apart as holders of the machine lock.
HoldersApart == Jobs \cap (Quiescers \cup {Free}) = {}

\* An install holds the machine lock from its first step to its last, and a command
\* holds it no longer than its leader lives.
GpuInv ==
    /\ gpu \in Jobs \cup Quiescers \cup {Free}
    /\ used \subseteq Jobs
    /\ \A q \in Quiescers : gpu = q <=> qpc[q] # "idle"
    /\ gpu \in Jobs => gpu \in used /\ "leader" \in group[gpu]

\* A step of the composition is a step of the queue or does not touch it.
LEMMA DeployStep == [DeployNext]_deployVars => [Next]_vars
<1> SUFFICES ASSUME DeployNext PROVE [Next]_vars
  BY DEF deployVars
<1>1. ASSUME NEW q \in Quiescers, InstallStarts(q) PROVE Next
  BY <1>1 DEF InstallStarts, Next, Quiesce
<1>2. ASSUME NEW j \in Jobs, JobTakes(j) PROVE UNCHANGED vars
  BY <1>2 DEF JobTakes
<1>3. CASE Otherwise
  BY <1>3 DEF Otherwise, Next, Quiesce
<1> QED BY <1>1, <1>2, <1>3 DEF DeployNext

\* launchd.sh install and jobs that take the machine lock only do what any caller and
\* any command of the queue may do: all that is proved of the queue holds beside them.
THEOREM DeployIsQueue == DeploySpec => Spec
<1>1. DeployInit => Init
  BY DEF DeployInit
<1> QED BY <1>1, DeployStep, PTL DEF DeploySpec, Spec

-----------------------------------------------------------------------------
\* No step but an install's first brings an install under way.
LEMMA OtherwisePlaces ==
    ASSUME TypeOK, Otherwise
    PROVE  \A q \in Quiescers : qpc'[q] # "idle" => qpc[q] # "idle"
<1> USE DEF TypeOK, qVars
<1>1. CASE Caller
  BY <1>1 DEF Caller, Add, SetPriority, Pause, Resume
<1>2. ASSUME NEW w \in Workers, RunPending(w) \/ WorkerKilled(w)
      PROVE  qpc' = qpc
  BY <1>2 DEF RunPending, RunOne, Serve, Enter, EnterBusy, Recover, RecoverTo, Pick, GateOpen,
     GateClosed, Start, Spawn, WritePid, Reap, CheckFlag, Finish, Release, WorkerKilled
<1>3. ASSUME NEW j \in Jobs, LeaderExit(j) \/ ChildExit(j) PROVE qpc' = qpc
  BY <1>3 DEF LeaderExit, ChildExit
<1>4. ASSUME NEW c \in Cancellers, Cancel(c) PROVE qpc' = qpc
  BY <1>4 DEF Cancel, CancelRead, CancelDrop, CancelPid, CancelFlag, CancelTerm, CancelGone,
     CancelKill, CancelSettle, CancelDies
<1>5. ASSUME NEW p \in Quiescers,
             \/ QuiescePause(p) \/ QuiesceProbe(p) \/ QuiesceQuiet(p) \/ Reload(p)
             \/ ReloadResume(p) \/ QuiesceFails(p) \/ InstallDies(p)
      PROVE  \A q \in Quiescers : qpc'[q] # "idle" => qpc[q] # "idle"
  BY <1>5 DEF QuiescePause, QuiesceProbe, QuiesceQuiet, Reload, ReloadResume, QuiesceFails,
     InstallDies, QGo
<1>6. ASSUME NEW m \in Machines, Reboot(m)
      PROVE  \A q \in Quiescers : qpc'[q] # "idle" => qpc[q] # "idle"
  BY <1>6 DEF Reboot
<1> QED BY <1>1, <1>2, <1>3, <1>4, <1>5, <1>6 DEF Otherwise

\* Who holds the machine lock at a step.
LEMMA GpuStep ==
    ASSUME HoldersApart, TypeOK, GpuInv, [DeployNext]_deployVars
    PROVE  GpuInv'
<1> USE ProcsAssumption DEF HoldersApart, GpuInv, Lockers
<1>1. ASSUME NEW q \in Quiescers, InstallStarts(q) PROVE GpuInv'
  <2>1. gpu = Free /\ gpu' = q /\ used' = used /\ group' = group
        /\ qpc' = [qpc EXCEPT ![q] = "pause"]
    BY <1>1 DEF InstallStarts, QuiesceRead, QGo, procVars
  <2>2. \A p \in Quiescers : p # q => qpc'[p] = "idle"
    BY <2>1 DEF TypeOK
  <2>3. qpc'[q] # "idle"
    BY <2>1 DEF TypeOK
  <2> QED BY <2>1, <2>2, <2>3
<1>2. ASSUME NEW j \in Jobs, JobTakes(j) PROVE GpuInv'
  <2>1. gpu = Free /\ gpu' = j /\ used' = used \cup {j} /\ "leader" \in group[j]
        /\ group' = group /\ qpc' = qpc
    BY <1>2 DEF JobTakes, vars, procVars, qVars
  <2> QED BY <2>1
<1>3. CASE Otherwise
  <2>0. LockFollows
    BY <1>3 DEF Otherwise
  <2>1. /\ gpu' \in {gpu, Free} /\ used' = used
        /\ gpu \in Jobs /\ "leader" \notin group'[gpu] => gpu' = Free
        /\ gpu \in Quiescers /\ qpc'[gpu] = "idle" => gpu' = Free
        /\ gpu \in Quiescers /\ qpc'[gpu] # "idle" => gpu' = gpu
    <3>1. gpu \in Quiescers => gpu \notin Jobs
      OBVIOUS
    <3> QED BY <2>0, <3>1 DEF LockFollows
  <2>2. \A q \in Quiescers : qpc'[q] # "idle" => qpc[q] # "idle"
    BY <1>3, OtherwisePlaces
  <2>3. Free \notin Jobs \cup Quiescers
    BY DEF Jobs
  <2>4. gpu' \in Jobs => gpu' \in used' /\ "leader" \in group'[gpu']
    BY <2>1, <2>3
  <2>5. ASSUME NEW q \in Quiescers, gpu' = q PROVE qpc'[q] # "idle"
    BY <2>1, <2>3, <2>5
  <2>6. ASSUME NEW q \in Quiescers, qpc'[q] # "idle" PROVE gpu' = q
    <3>1. gpu = q
      BY <2>2, <2>6
    <3> QED BY <2>1, <2>6, <3>1
  <2> QED BY <2>1, <2>3, <2>4, <2>5, <2>6
<1>4. CASE UNCHANGED deployVars
  BY <1>4 DEF deployVars, vars, procVars, qVars
<1> QED BY <1>1, <1>2, <1>3, <1>4 DEF DeployNext

\* One holder at a time, install or command, and no holder that is gone: whatever fails,
\* is cancelled, killed, rebooted or reloaded, the machine lock is free again when its
\* holder is over.
THEOREM GpuHeld ==
    ASSUME HoldersApart
    PROVE  DeploySpec => [](IInv /\ GpuInv)
<1>1. DeployInit => GpuInv
  BY ProcsAssumption DEF DeployInit, GpuInv, Init, HoldersApart, Lockers
<1>2. IInv /\ GpuInv /\ [DeployNext]_deployVars => GpuInv'
  BY GpuStep DEF IInv
<1>3. DeploySpec => []IInv
  BY DeployIsQueue, Invariant, PTL
<1> QED BY <1>1, <1>2, <1>3, PTL DEF DeploySpec

-----------------------------------------------------------------------------
\* The circle at a step of the queue that is not an install's first.
LEMMA CircleOtherwise ==
    ASSUME HoldersApart, TypeOK, LockInv, GpuInv, Otherwise,
           NEW q \in Quiescers, NEW w \in Workers, Circle(q, w)
    PROVE  Circle(q, w)' \/ OneGone(q, w)'
<1>1. PICK j \in Jobs : j = wjob[w]
  BY DEF TypeOK
<1>2. /\ qpc[q] = "probe" /\ wpc[w] \in {"pid", "wait"} /\ At[w] = At[q]
      /\ "leader" \in group[j] /\ j \notin used
  BY <1>1 DEF Circle
<1>3. used' = used
  BY DEF Otherwise, LockFollows
<1>4. lock[At[q]] # Free
  BY <1>2, ProcsAssumption DEF LockInv, InRun, WorkerPCs, Lockers
<1>a. ASSUME qpc' = qpc, wjob' = wjob, wpc'[w] \in {"pid", "wait", "idle"}
      PROVE  Circle(q, w)' \/ OneGone(q, w)'
  BY <1>a, <1>1, <1>2, <1>3 DEF Circle, OneGone
<1> USE <1>1, <1>2, <1>4 DEF TypeOK, rowVars, fileVars, procVars, wVars, cVars, qVars
<1>5. CASE Caller
  BY <1>5, <1>a DEF Caller, Add, SetPriority, Pause, Resume, Lift
<1>6. ASSUME NEW v \in Workers, RunPending(v) PROVE Circle(q, w)' \/ OneGone(q, w)'
  <2>1. qpc' = qpc /\ \A u \in Workers : u # v => wpc'[u] = wpc[u] /\ wjob'[u] = wjob[u]
    BY <1>6 DEF RunPending, RunOne, Serve, Enter, EnterBusy, Recover, RecoverTo, Pick, GateOpen,
       GateClosed, Start, Spawn, WritePid, Reap, CheckFlag, Finish, Release, WGo
  <2>2. CASE v # w
    BY <2>1, <2>2, <1>3 DEF Circle, OneGone
  <2>3. CASE v = w
    <3>1. WritePid(w)
      BY <2>3, <1>6 DEF RunPending, RunOne, Serve, Enter, EnterBusy, Recover, RecoverTo, Pick,
         GateOpen, GateClosed, Start, Spawn, Reap, CheckFlag, Finish, Release
    <3> QED BY <3>1, <2>1, <1>a DEF WritePid, WGo
  <2> QED BY <2>2, <2>3
<1>7. ASSUME NEW v \in Workers, WorkerKilled(v) PROVE Circle(q, w)' \/ OneGone(q, w)'
  BY <1>7, <1>a DEF WorkerKilled, KillWorkers
<1>8. ASSUME NEW k \in Jobs, LeaderExit(k) \/ ChildExit(k)
      PROVE Circle(q, w)' \/ OneGone(q, w)'
  BY <1>8, <1>a DEF LeaderExit, ChildExit
<1>9. ASSUME NEW c \in Cancellers, Cancel(c) PROVE Circle(q, w)' \/ OneGone(q, w)'
  BY <1>9, <1>a DEF Cancel, CancelRead, CancelDrop, CancelPid, CancelFlag, CancelTerm,
     CancelGone, CancelKill, CancelSettle, CancelDies
<1>10. ASSUME NEW p \in Quiescers,
              \/ QuiescePause(p) \/ QuiesceProbe(p) \/ QuiesceQuiet(p)
              \/ QuiesceFails(p) \/ InstallDies(p)
       PROVE Circle(q, w)' \/ OneGone(q, w)'
  <2>1. UNCHANGED <<wpc, wjob, group>> /\ \A r \in Quiescers : r # p => qpc'[r] = qpc[r]
    BY <1>10 DEF QuiescePause, QuiesceProbe, QuiesceQuiet, QuiesceFails, InstallDies, QGo
  <2>2. CASE p # q
    BY <2>1, <2>2, <1>3 DEF Circle
  <2>3. CASE p = q
    <3>1. qpc'[q] \in {"idle", "anyway"}
      BY <1>10, <2>3 DEF QuiescePause, QuiesceProbe, QuiesceQuiet, QuiesceFails, InstallDies, QGo
    <3> QED BY <3>1 DEF OneGone
  <2> QED BY <2>2, <2>3
<1>11. ASSUME NEW p \in Quiescers, Reload(p) \/ ReloadResume(p) PROVE FALSE
  BY <1>11 DEF Reload, ReloadResume, GpuInv
<1>12. ASSUME NEW m \in Machines, Reboot(m) PROVE Circle(q, w)' \/ OneGone(q, w)'
  <2>1. CASE At[q] = m
    BY <1>12, <2>1 DEF Reboot, OneGone
  <2>2. CASE At[q] # m
    BY <1>12, <2>2, <1>3 DEF Reboot, Circle, OneGone
  <2> QED BY <2>1, <2>2
<1> QED BY <1>5, <1>6, <1>7, <1>8, <1>9, <1>10, <1>11, <1>12 DEF Otherwise

\* The circle at any step.
LEMMA CircleStep ==
    ASSUME HoldersApart, TypeOK, LockInv, GpuInv, [DeployNext]_deployVars
    PROVE  NobodyServed
<1> SUFFICES ASSUME NEW q \in Quiescers, NEW w \in Workers, Circle(q, w)
             PROVE  Circle(q, w)' \/ OneGone(q, w)'
  BY DEF NobodyServed
<1>1. gpu = q /\ q # Free
  BY ProcsAssumption DEF Circle, GpuInv, Lockers
<1>2. ASSUME NEW p \in Quiescers, InstallStarts(p) PROVE FALSE
  BY <1>1, <1>2 DEF InstallStarts
<1>3. ASSUME NEW j \in Jobs, JobTakes(j) PROVE FALSE
  BY <1>1, <1>3 DEF JobTakes
<1>4. CASE Otherwise
  BY <1>4, CircleOtherwise
<1>5. CASE UNCHANGED deployVars
  BY <1>5 DEF deployVars, vars, procVars, wVars, qVars, Circle
<1> QED BY <1>2, <1>3, <1>4, <1>5 DEF DeployNext

\* The running job never finishes for an install that holds the lock its command waits
\* for (launchd.sh:234, with install under with-gpu-lock): once the two wait for each
\* other, the command does not get the lock and the quiesce does not return for as long
\* as the install, the worker and the command are all there.
THEOREM NeitherServed ==
    ASSUME HoldersApart
    PROVE  DeploySpec => [][NobodyServed]_deployVars
<1>1. IInv /\ GpuInv /\ [DeployNext]_deployVars => NobodyServed
  BY CircleStep DEF IInv
<1> QED BY <1>1, GpuHeld, PTL DEF DeploySpec
=============================================================================
