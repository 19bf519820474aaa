--------------------------- MODULE MCTransitions ---------------------------
(* Small instances of Transitions.  Writers are interchangeable.             *)
EXTENDS Transitions, TLC

WriterSymmetry == Permutations(Writers)
=============================================================================
