------------------------------ MODULE MCDeploy ------------------------------
(* A small instance of Deploy: one machine, one worker, one install.         *)
EXTENDS Deploy

CONSTANT m1
AtOne == [p \in Procs |-> m1]
=============================================================================
