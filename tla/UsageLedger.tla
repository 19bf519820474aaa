---------------------------- MODULE UsageLedger ----------------------------
(***************************************************************************)
(* What the usage log promises of the rows handed to it: each is held, then *)
(* stored or lost, oldest first, and what became of it never changes.       *)
(* Usage implements it.                                                     *)
(***************************************************************************)
EXTENDS Naturals

CONSTANT MaxRows   \* bound: rows ever handed over

Rows == 1..MaxRows
Fates == {"new", "held", "stored", "lost"}

VARIABLE fate

Held == {r \in Rows : fate[r] = "held"}

TypeOK == fate \in [Rows -> Fates]

Init == fate = [r \in Rows |-> "new"]

\* A row is handed over, after every row before it: it is held, or lost at once.
Offer(r) ==
    /\ fate[r] = "new"
    /\ \A s \in Rows : s < r => fate[s] # "new"
    /\ \E f \in {"held", "lost"} : fate' = [fate EXCEPT ![r] = f]

\* The oldest held rows S are written, or are lost, together.
Settle(S) ==
    /\ \A r \in S, s \in Held \ S : r < s
    /\ \E f \in {"stored", "lost"} :
          fate' = [r \in Rows |-> IF r \in S THEN f ELSE fate[r]]

Next == \/ \E r \in Rows : Offer(r)
        \/ \E S \in SUBSET Held : Settle(S)

Spec == Init /\ [][Next]_fate
=============================================================================
