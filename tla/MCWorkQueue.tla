---------------------------- MODULE MCWorkQueue ----------------------------
(* Small instances of WorkQueue: which machine each process is on.           *)
EXTENDS WorkQueue, TLC

CONSTANTS m1, m2

\* Every process on one machine.
AtOne == [p \in Procs |-> m1]

\* Two machines with one worker each on one shared store; the callers are on m1.
CONSTANTS w1, w2
AtTwo == [p \in Procs |-> IF p = w2 THEN m2 ELSE m1]
=============================================================================
