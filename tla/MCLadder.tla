------------------------------ MODULE MCLadder ------------------------------
(* Small instances of Ladder: s may be put off for ever, b's runner loads k.  *)
EXTENDS Ladder

CONSTANTS s, a, b, k

SFirst == [m \in Models |-> CASE m = s -> 1 [] m = a -> 2 [] m = b -> 3]
BOnK   == [m \in Models |-> IF m = b THEN {k} ELSE {}]
Ones   == [r \in Models \cup Bases |-> 1]
=============================================================================
