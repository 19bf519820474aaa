------------------------------- MODULE Deploy -------------------------------
(***************************************************************************)
(* scripts/launchd.sh install beside the work queue: the work queue of       *)
(* WorkQueue, whose jobs take the machine lock of harness/exclusive.py        *)
(* themselves, and an install that takes the machine lock first and then      *)
(* waits for the running job to finish.                                       *)
(***************************************************************************)
EXTENDS WorkQueue

VARIABLES
    gpu,   \* who holds the machine lock: a job's command, an install, or Free
    used   \* jobs whose command has had the machine lock

deployVars == <<vars, gpu, used>>

DeployInit == Init /\ gpu = Free /\ used = {}

\* install runs under with-gpu-lock, from before its first step to its end.
InstallStarts(q) ==
    /\ gpu = Free
    /\ gpu' = q
    /\ QuiesceRead(q)
    /\ UNCHANGED used

\* A job's command waits for the machine lock and works under it.
JobTakes(j) ==
    /\ "leader" \in group[j] /\ j \notin used
    /\ gpu = Free
    /\ gpu' = j
    /\ used' = used \cup {j}
    /\ UNCHANGED vars

\* The machine lock is its holder's as long as the holder is there: a command gives it
\* back at its end, an install when the services are loaded and the queue is resumed,
\* and the system takes it from a process that is killed.
LockFollows ==
    /\ gpu' = IF \/ gpu \in Jobs /\ "leader" \notin group'[gpu]
                 \/ gpu \in Quiescers /\ qpc'[gpu] = "idle"
              THEN Free ELSE gpu
    /\ UNCHANGED used

\* A command's own end after its work.
JobEnds(j) == j \in used /\ LeaderExit(j) /\ LockFollows

\* Every step of the queue that is not an install's first: among them the end of a
\* command that fails or is stopped while it waits for the lock, an install that is
\* interrupted, and one whose quiesce fails and that goes on without it.
Otherwise ==
    /\ \/ Caller
       \/ \E w \in Workers : RunPending(w) \/ WorkerKilled(w)
       \/ \E j \in Jobs : LeaderExit(j) \/ ChildExit(j)
       \/ \E c \in Cancellers : Cancel(c)
       \/ \E q \in Quiescers : \/ QuiescePause(q) \/ QuiesceProbe(q) \/ QuiesceQuiet(q)
                               \/ Reload(q) \/ ReloadResume(q)
                               \/ QuiesceFails(q) \/ InstallDies(q)
       \/ \E m \in Machines : Reboot(m)
    /\ LockFollows

DeployNext ==
    \/ \E q \in Quiescers : InstallStarts(q)
    \/ \E j \in Jobs : JobTakes(j)
    \/ Otherwise

\* Whatever can go on goes on: the worker, the commands and the install; a command
\* gets the lock when it is free often enough and ends once it has done its work.
\* Nobody has to cancel, and nothing has to fail.
DeployFairness ==
    /\ \A w \in Workers : WF_deployVars(RunPending(w) /\ LockFollows)
    /\ \A j \in Jobs : /\ SF_deployVars(JobTakes(j)) /\ WF_deployVars(JobEnds(j))
                       /\ WF_deployVars(ChildExit(j) /\ LockFollows)
    /\ \A q \in Quiescers :
          WF_deployVars((QuiescePause(q) \/ QuiesceProbe(q) \/ QuiesceQuiet(q) \/ Reload(q)
                         \/ ReloadResume(q)) /\ LockFollows)

DeploySpec == DeployInit /\ [][DeployNext]_deployVars /\ DeployFairness

\* The install has the machine lock and waits for the runner lock; the worker that has
\* it waits for a command that waits for the machine lock.
Circle(q, w) ==
    /\ qpc[q] = "probe"
    /\ wpc[w] \in {"pid", "wait"} /\ At[w] = At[q]
    /\ "leader" \in group[wjob[w]] /\ wjob[w] \notin used

\* One of the three is no longer there.
OneGone(q, w) ==
    \/ qpc[q] \in {"idle", "anyway"}
    \/ wpc[w] = "idle"
    \/ "leader" \notin group[wjob[w]]

\* In the circle nobody is ever served: it stays until the quiesce, the worker or the
\* command is gone, by its own end or by a kill.  No resume, no other worker, job,
\* cancel or install gives the command the machine lock or the quiesce the queue.
NobodyServed ==
    \A q \in Quiescers, w \in Workers : Circle(q, w) => (Circle(q, w) \/ OneGone(q, w))'

\* scripts/launchd.sh:234 "so let that job finish first": the job that runs when an
\* install pauses the queue finishes, and the install goes on, unless somebody resumes
\* the queue meanwhile.
InstallFinishes ==
    \A q \in Quiescers : qpc[q] = "probe" ~> (qpc[q] # "probe" \/ q \notin holding)
=============================================================================
