----------------------------- MODULE JobLedger -----------------------------
(***************************************************************************)
(* What the work queue promises of a job, whichever process deals with it:   *)
(* its row is dropped while it waits or taken once, its command is started   *)
(* at most once and never before its row was taken or dropped, and only a    *)
(* command that has ended is settled, by how it ended or as cancelled; a row *)
(* that was cut off fails.  WorkQueue implements it.                         *)
(***************************************************************************)
EXTENDS Naturals

CONSTANT MaxJobs   \* bound: jobs ever added

Jobs == 1..MaxJobs

VARIABLES
    row,      \* "absent", "pending", "running", or how the job ended
    next,     \* the next job's id
    command   \* "none", "started", or what it exited with: "ok", "err"

ledger == <<row, next, command>>

Init ==
    /\ row = [j \in Jobs |-> "absent"]
    /\ next = 1
    /\ command = [j \in Jobs |-> "none"]

Becomes(j, s) == row' = [row EXCEPT ![j] = s] /\ UNCHANGED command
Ended(j) == command[j] \in {"ok", "err"}

Add == /\ next \in Jobs
       /\ Becomes(next, "pending")
       /\ next' = next + 1

Drop(j) == row[j] = "pending" /\ Becomes(j, "absent") /\ UNCHANGED next
Take(j) == row[j] = "pending" /\ Becomes(j, "running") /\ UNCHANGED next

\* The command starts, or cannot; a row dropped after it was read does not stop it.
Start(j) ==
    /\ j < next /\ row[j] \in {"running", "absent"} /\ command[j] = "none"
    /\ \E c \in {"started", "err"} : command' = [command EXCEPT ![j] = c]
    /\ UNCHANGED <<row, next>>

Exit(j) ==
    /\ command[j] = "started"
    /\ \E c \in {"ok", "err"} : command' = [command EXCEPT ![j] = c]
    /\ UNCHANGED <<row, next>>

\* The worker records the end, maybe over a cancel's ...
Settle(j) ==
    /\ Ended(j) /\ row[j] \in {"running", "cancelled"}
    /\ Becomes(j, IF command[j] = "ok" THEN "done" ELSE "failed")
    /\ UNCHANGED next

\* ... or a cancel does, maybe over the worker's.
Cancel(j) ==
    /\ Ended(j) /\ row[j] \in {"running", "done", "failed", "cancelled"}
    /\ Becomes(j, "cancelled")
    /\ UNCHANGED next

\* Rows still running with no worker on them have failed, whatever their command did.
CutOff(S) ==
    /\ \A j \in S : row[j] = "running"
    /\ row' = [j \in Jobs |-> IF j \in S THEN "failed" ELSE row[j]]
    /\ UNCHANGED <<next, command>>

Next == \/ Add
        \/ \E j \in Jobs : Drop(j) \/ Take(j) \/ Start(j) \/ Exit(j) \/ Settle(j) \/ Cancel(j)
        \/ \E S \in SUBSET Jobs : CutOff(S)

Spec == Init /\ [][Next]_ledger
=============================================================================
