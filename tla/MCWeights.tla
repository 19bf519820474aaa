----------------------------- MODULE MCWeights -----------------------------
(* Small instances of Weights: which repo's runner loads which.              *)
EXTENDS Weights, TLC

CONSTANTS a, b

\* A candidate on its own, and one whose runner loads b beside it.
Alone == [r \in Repos |-> {}]
AOnB == [r \in Repos |-> IF r = a THEN {b} ELSE {}]

Symmetric == Permutations(Fetchers)
=============================================================================
