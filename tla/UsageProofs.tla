---------------------------- MODULE UsageProofs ----------------------------
(***************************************************************************)
(* Proofs about Usage, for any number of rows, queue and batch sizes,        *)
(* adoptions and restarts: its types, where every row is, what close leaves,  *)
(* what the count of dropped rows bounds, how rows are labelled, and that the *)
(* log implements UsageLedger.                                               *)
(***************************************************************************)
EXTENDS Usage, FiniteSetTheorems, TLAPS

\* Rows leave in the order they came: what is queued is newer than the batch in hand.
Order == \A b \in batch, r \in q : b < r

\* Where the thread is between batches it has none in hand, and a batch is in the
\* store already only after a commit whose answer was lost.
BatchInv ==
    /\ pc \in {"top", "ended"} => batch = {}
    /\ pc \notin {"count", "counted"} => batch \cap stored = {}
    /\ doubted \subseteq stored

\* A stop asked for stays asked for while this gateway lives.
StopInv == /\ stopping \/ pc = "ended" => stop
           /\ stop => stopAt <= made
           /\ pc = "ended" => \A r \in q : r > stopAt

\* What is queued was made under this gateway's config, and the labels this
\* connection gives are no older than that config.
LabelInv == /\ \A r \in q \cup batch : servedFor[r] <= served
            /\ specs \in Adoptions => served <= specs

\* The count runs behind the rows given up or doubted, the batch in hand left out.
GivenUp == (lost \cup doubted) \ batch
CountInv == /\ dropped <= Cardinality(GivenUp)
            /\ pc = "counted" => loaded <= Cardinality(GivenUp)

RowInv == Conserved /\ Order /\ BatchInv
IInv == TypeOK /\ RowInv /\ StopInv /\ LabelInv /\ LabelNotOlder /\ CountInv
-----------------------------------------------------------------------------
\* Every set of rows is finite.
LEMMA RowsFinite ==
    ASSUME NEW n \in Nat, NEW S, S \subseteq 1..n
    PROVE  IsFiniteSet(S) /\ Cardinality(S) \in Nat
<1>1. IsFiniteSet(1..n)
    BY FS_Interval
<1>2. IsFiniteSet(S)
    BY <1>1, FS_Subset
<1> QED BY <1>2, FS_CardinalityType

\* One element more makes a set at most one larger, one less makes it no larger.
LEMMA OneMore ==
    ASSUME NEW S, NEW x, IsFiniteSet(S)
    PROVE  /\ IsFiniteSet(S \cup {x}) /\ Cardinality(S \cup {x}) \in Nat
           /\ Cardinality(S \cup {x}) <= Cardinality(S) + 1
<1>1. IsFiniteSet(S \cup {x})
    BY FS_AddElement
<1>2. Cardinality(S) \in Nat /\ Cardinality(S \cup {x}) \in Nat
    BY <1>1, FS_CardinalityType
<1>3. Cardinality(S \cup {x}) = IF x \in S THEN Cardinality(S) ELSE Cardinality(S) + 1
    BY FS_AddElement, Zenon
<1> QED BY <1>1, <1>2, <1>3

LEMMA OneLess ==
    ASSUME NEW S, NEW x, IsFiniteSet(S)
    PROVE  Cardinality(S \ {x}) \in Nat /\ Cardinality(S \ {x}) <= Cardinality(S)
<1>1. IsFiniteSet(S \ {x})
    BY FS_RemoveElement
<1>2. Cardinality(S) \in Nat /\ Cardinality(S \ {x}) \in Nat
    BY <1>1, FS_CardinalityType
<1>3. Cardinality(S \ {x}) <= Cardinality(S)
    BY FS_Subset, Zenon
<1> QED BY <1>2, <1>3

\* Put keeps the types: the row after the last goes on the queue or is lost.
LEMMA PutType == ASSUME TypeOK, Put PROVE TypeOK'
<1>1. made \in Nat /\ MaxRows \in Nat /\ QUEUE_MAX \in Nat
    BY BoundsAssumption DEF TypeOK
<1>2. made' \in 0..MaxRows /\ 1..made \subseteq 1..made' /\ made + 1 \in 1..made'
    BY <1>1 DEF Put, TypeOK
<1>3. IsFiniteSet(q) /\ Cardinality(q) \in Nat
    BY <1>1, RowsFinite DEF TypeOK
<1>4. Cardinality(q \cup {made + 1}) \in Nat /\ Cardinality(q \cup {made + 1}) <= Cardinality(q) + 1
    BY <1>3, OneMore
<1>5. q' = q \/ (q' = q \cup {made + 1} /\ Cardinality(q) < QUEUE_MAX)
    BY DEF Put
<1>6. Cardinality(q') <= QUEUE_MAX
  <2>1. CASE q' = q
      BY <2>1 DEF TypeOK
  <2>2. CASE q' = q \cup {made + 1} /\ Cardinality(q) < QUEUE_MAX
      BY <1>1, <1>3, <1>4, <2>2
  <2> QED BY <1>5, <2>1, <2>2
<1>7. q' \subseteq 1..made'
    BY <1>2, <1>5 DEF TypeOK
<1>8. dropped' \in Nat /\ lost' \subseteq 1..made'
  <2>1. lost' = lost \/ lost' = lost \cup {made + 1}
      BY DEF Put
  <2>2. lost' \subseteq 1..made'
      BY <1>2, <2>1 DEF TypeOK
  <2> QED BY <2>2 DEF Put, TypeOK
<1>9. servedFor' \in [Rows -> Adoptions]
  <2>1. served \in Adoptions
      BY BoundsAssumption DEF TypeOK, Adoptions
  <2> QED BY <2>1 DEF Put, TypeOK
<1> QED BY <1>2, <1>6, <1>7, <1>8, <1>9 DEF Put, TypeOK, threadVars, storeVars, ownerVars, closeVars

\* The drain keeps the types: a batch is never longer than BATCH_MAX.
LEMMA DrainType == ASSUME TypeOK, Drain PROVE TypeOK'
<1>1. PICK r \in q : Cardinality(batch) < BATCH_MAX /\ Take(r)
    BY DEF Drain
<1>2. made \in Nat /\ BATCH_MAX \in Nat /\ QUEUE_MAX \in Nat
    BY BoundsAssumption DEF TypeOK
<1>3. IsFiniteSet(q) /\ Cardinality(q) \in Nat /\ IsFiniteSet(batch) /\ Cardinality(batch) \in Nat
    BY <1>2, RowsFinite DEF TypeOK
<1>4. Cardinality(q \ {r}) <= Cardinality(q)
    BY <1>3, OneLess
<1>5. Cardinality(batch \cup {r}) <= Cardinality(batch) + 1
    BY <1>3, OneMore
<1>6. Cardinality(q \ {r}) \in Nat /\ Cardinality(batch \cup {r}) \in Nat
    BY <1>3, OneMore, OneLess
<1>7. Cardinality(q') <= QUEUE_MAX
    BY <1>1, <1>2, <1>3, <1>4, <1>6 DEF Take, TypeOK
<1>8. Cardinality(batch') <= BATCH_MAX
    BY <1>1, <1>2, <1>3, <1>5, <1>6 DEF Take
<1>9. q' \subseteq 1..made /\ batch' \subseteq 1..made
    BY <1>1 DEF Take, TypeOK
<1> QED BY <1>1, <1>7, <1>8, <1>9 DEF Take, TypeOK, storeVars, ownerVars, closeVars

\* A restart keeps the types.
LEMMA RestartType == ASSUME TypeOK, Restart PROVE TypeOK'
<1>1. Cardinality({}) = 0 /\ 0 <= QUEUE_MAX /\ 0 <= BATCH_MAX
    BY BoundsAssumption, FS_EmptySet
<1>2. restarts' \in 0..MaxRestarts /\ served' \in 0..adopted
    BY BoundsAssumption DEF Restart, TypeOK, Adoptions
<1>3. lost' \subseteq 1..made
    BY DEF Restart, TypeOK
<1> QED BY <1>1, <1>2, <1>3 DEF Restart, FreshWriter, TypeOK, storeVars, PCs

\* A failed batch keeps the types.
LEMMA CountedType == ASSUME TypeOK, Counted PROVE TypeOK'
<1>1. made \in Nat /\ 0 <= BATCH_MAX
    BY BoundsAssumption DEF TypeOK
<1>2. Cardinality(batch) \in Nat
    BY <1>1, RowsFinite DEF TypeOK
<1>3. dropped' \in Nat /\ batch' = {} /\ Cardinality(batch') = 0
    BY <1>2, FS_EmptySet DEF Counted, CountedBy, TypeOK
<1> QED BY <1>1, <1>3 DEF Counted, CountedBy, Go, TypeOK, PCs, queueVars, storeVars, ownerVars, closeVars

\* A commit keeps the types.
LEMMA CommitType == ASSUME TypeOK, Commit PROVE TypeOK'
<1>1. 1..made \subseteq Rows
    BY BoundsAssumption DEF TypeOK, Rows
<1>2. Newest(samples \cup batch) \subseteq Rows
    BY <1>1 DEF Newest, TypeOK
<1>3. stored' \subseteq 1..made /\ samples' \subseteq Rows /\ label' \in [Rows -> Adoptions \cup {None, Typed}]
  <2>1. CASE Write
      BY <1>2, <2>1 DEF Write, TypeOK
  <2>2. CASE UNCHANGED storeVars
      BY <2>2 DEF storeVars, TypeOK
  <2> QED BY <2>1, <2>2 DEF Commit
<1>4. doubted' \subseteq Rows
    BY <1>1 DEF Commit, TypeOK, storeVars
<1>5. Cardinality({}) = 0 /\ 0 <= BATCH_MAX
    BY BoundsAssumption, FS_EmptySet
<1>6. batch' \subseteq 1..made /\ Cardinality(batch') <= BATCH_MAX
    BY <1>5 DEF Commit, TypeOK
<1> QED BY <1>3, <1>4, <1>6 DEF Commit, Go, TypeOK, PCs, queueVars, ownerVars, closeVars

\* Every step keeps the types.
LEMMA TypeNext == ASSUME TypeOK, [Next]_vars PROVE TypeOK'
<1>1. CASE Put BY <1>1, PutType
<1>2. CASE SetText
    BY <1>2 DEF SetText, TypeOK, queueVars, threadVars, storeVars, closeVars
<1>3. CASE Adopt
  <2>1. adopted' \in Adoptions /\ served \in 0..adopted'
      BY <1>3, BoundsAssumption DEF Adopt, TypeOK, Adoptions
  <2> QED BY <1>3, <2>1 DEF Adopt, TypeOK, queueVars, threadVars, storeVars, closeVars
<1>4. CASE Close
    BY <1>4 DEF Close, TypeOK, queueVars, threadVars, storeVars, ownerVars
<1>5. CASE Restart BY <1>5, RestartType
<1>6. CASE Top
    BY <1>6 DEF Top, TopTo, Go, TypeOK, PCs, queueVars, storeVars, closeVars
<1>7. CASE Drain BY <1>7, DrainType
<1>8. CASE Drained
  <2>1. conn' \in BOOLEAN /\ pc' \in PCs
      BY <1>8 DEF Drained, Go, PCs, TypeOK
  <2> QED BY <1>8, <2>1 DEF Drained, TypeOK, queueVars, storeVars, ownerVars, closeVars
<1>9. CASE Open
    BY <1>9 DEF Open, Go, TypeOK, PCs, queueVars, storeVars, ownerVars, closeVars
<1>10. CASE Insert
    BY <1>10 DEF Insert, Go, TypeOK, PCs, queueVars, storeVars, ownerVars, closeVars
<1>11. CASE Commit BY <1>11, CommitType
<1>12. CASE Count
    BY <1>12 DEF Count, Go, TypeOK, PCs, queueVars, storeVars, ownerVars, closeVars
<1>13. CASE Counted BY <1>13, CountedType
<1>14. CASE UNCHANGED vars
    BY <1>14 DEF vars, TypeOK, queueVars, threadVars, storeVars, ownerVars, closeVars
<1> QED BY <1>1, <1>2, <1>3, <1>4, <1>5, <1>6, <1>7, <1>8, <1>9, <1>10, <1>11, <1>12,
           <1>13, <1>14 DEF Next, Owner, Thread

\* The first state has the types.
LEMMA InitType == Init => TypeOK
<1> SUFFICES ASSUME Init PROVE TypeOK
    OBVIOUS
<1>1. Cardinality({}) = 0 /\ 0 <= QUEUE_MAX /\ 0 <= BATCH_MAX
    BY BoundsAssumption, FS_EmptySet
<1>2. 0 \in 0..MaxRows /\ 0 \in Adoptions /\ 0 \in 0..MaxRestarts /\ served \in 0..adopted
    BY BoundsAssumption DEF Adoptions, Init
<1>3. label \in [Rows -> Adoptions \cup {None, Typed}] /\ servedFor \in [Rows -> Adoptions]
    BY <1>2 DEF Init
<1> QED BY <1>1, <1>2, <1>3 DEF Init, TypeOK, PCs

\* What the log keeps is of the right kind, its queue and its batches in bounds.
THEOREM TypeCorrect == Spec => []TypeOK
<1>1. TypeOK /\ [Next]_vars => TypeOK'
    BY TypeNext
<1> QED BY InitType, <1>1, PTL DEF Spec

-----------------------------------------------------------------------------
\* Put adds a row that is newer than all others, in one place.
LEMMA PutRows == ASSUME TypeOK, RowInv, Put PROVE RowInv'
<1>1. made \in Nat /\ made' = made + 1 /\ made + 1 \notin 1..made /\ 1..made' = 1..made \cup {made + 1}
    BY DEF Put, TypeOK
<1>2. batch' = batch /\ stored' = stored /\ doubted' = doubted /\ pc' = pc
    BY DEF Put, threadVars, storeVars
<1>3. \/ q' = q \cup {made + 1} /\ lost' = lost
      \/ q' = q /\ lost' = lost \cup {made + 1}
    BY DEF Put
<1>4. made + 1 \notin q \cup batch \cup stored \cup lost
    BY <1>1 DEF TypeOK
<1>5. Conserved'
    BY <1>1, <1>2, <1>3, <1>4 DEF Conserved, RowInv
<1>6. \A b \in batch : b < made + 1
    BY DEF TypeOK
<1>7. Order'
    BY <1>2, <1>3, <1>6 DEF Order, RowInv
<1>8. BatchInv'
    BY <1>2 DEF BatchInv, RowInv
<1> QED BY <1>5, <1>7, <1>8 DEF RowInv

\* The drain moves the oldest queued row into the batch.
LEMMA DrainRows == ASSUME TypeOK, RowInv, Drain PROVE RowInv'
<1>1. PICK r \in q : (\A s \in q : r <= s) /\ Take(r)
    BY DEF Drain
<1>2. /\ q' = q \ {r} /\ batch' = batch \cup {r} /\ pc' = "drain" /\ pc = "drain"
      /\ made' = made /\ stored' = stored /\ lost' = lost /\ doubted' = doubted
    BY <1>1 DEF Take, storeVars
<1>3. Conserved'
    BY <1>1, <1>2 DEF Conserved, RowInv
<1>4. \A s \in q \ {r} : r < s
    BY <1>1 DEF TypeOK
<1>5. Order'
    BY <1>2, <1>4 DEF Order, RowInv
<1>6. BatchInv'
    BY <1>1, <1>2 DEF BatchInv, Conserved, RowInv
<1> QED BY <1>3, <1>5, <1>6 DEF RowInv

\* A commit stores the batch whole, or not at all.
LEMMA CommitRows == ASSUME TypeOK, RowInv, Commit PROVE RowInv'
<1>1. q' = q /\ made' = made /\ lost' = lost /\ pc = "commit"
    BY DEF Commit, queueVars
<1>2. \/ stored' = stored \cup batch /\ batch' = {} /\ doubted' = doubted /\ pc' = "top"
      \/ stored' = stored \cup batch /\ batch' = batch /\ doubted' = doubted \cup batch /\ pc' = "count"
      \/ stored' = stored /\ batch' = batch /\ doubted' = doubted /\ pc' = "count"
    BY DEF Commit, Write, Go, storeVars
<1>3. batch \cap stored = {}
    BY <1>1 DEF BatchInv, RowInv
<1>4. Conserved'
    BY <1>1, <1>2, <1>3 DEF Conserved, RowInv
<1>5. Order'
    BY <1>1, <1>2 DEF Order, RowInv
<1>6. BatchInv'
    BY <1>1, <1>2, <1>3 DEF BatchInv, RowInv
<1> QED BY <1>4, <1>5, <1>6 DEF RowInv

\* A batch given up, and everything in hand at a restart, is lost unless stored.
LEMMA CountedRows == ASSUME TypeOK, RowInv, Counted PROVE RowInv'
<1>1. /\ q' = q /\ made' = made /\ stored' = stored /\ doubted' = doubted
      /\ lost' = lost \cup (batch \ stored) /\ batch' = {} /\ pc' = "top"
    BY DEF Counted, CountedBy, Go, queueVars, storeVars
<1> QED BY <1>1 DEF RowInv, Conserved, Order, BatchInv

LEMMA RestartRows == ASSUME TypeOK, RowInv, Restart PROVE RowInv'
<1>1. /\ q' = {} /\ made' = made /\ stored' = stored /\ doubted' = doubted
      /\ lost' = lost \cup ((q \cup batch) \ stored) /\ batch' = {} /\ pc' = "top"
    BY DEF Restart, FreshWriter, storeVars
<1> QED BY <1>1 DEF RowInv, Conserved, Order, BatchInv

\* The steps that move no row.
Still == SetText \/ Adopt \/ Close \/ Top \/ Drained \/ Open \/ Insert \/ Count \/ UNCHANGED vars

LEMMA StillRows == ASSUME TypeOK, RowInv, Still PROVE RowInv'
<1>1. /\ q' = q /\ made' = made /\ stored' = stored /\ doubted' = doubted
      /\ lost' = lost /\ batch' = batch
    BY DEF Still, SetText, Adopt, Close, Top, TopTo, Drained, Open, Insert, Count, vars,
           queueVars, threadVars, storeVars
<1>2. \/ pc' = pc
      \/ pc = "top" /\ pc' = "drain"
      \/ pc \notin {"count", "counted"} /\ pc' \notin {"top", "ended"}
      \/ pc = "drain" /\ batch = {}
      \/ pc = "count" /\ pc' = "counted"
  <2>1. CASE SetText \/ Adopt \/ Close \/ UNCHANGED vars
      BY <2>1 DEF SetText, Adopt, Close, vars, threadVars
  <2>2. CASE Top BY <2>2 DEF Top, TopTo, Go
  <2>3. CASE Drained BY <2>3 DEF Drained, Go
  <2>4. CASE Open BY <2>4 DEF Open, Go
  <2>5. CASE Insert BY <2>5 DEF Insert, Go
  <2>6. CASE Count BY <2>6 DEF Count, Go
  <2> QED BY <2>1, <2>2, <2>3, <2>4, <2>5, <2>6 DEF Still
<1>3. BatchInv'
    BY <1>1, <1>2 DEF BatchInv, RowInv
<1> QED BY <1>1, <1>3 DEF RowInv, Conserved, Order

LEMMA RowNext == ASSUME TypeOK, RowInv, [Next]_vars PROVE RowInv'
<1>1. Put \/ Drain \/ Commit \/ Counted \/ Restart \/ Still
    BY DEF Next, Owner, Thread, Still
<1> QED BY <1>1, PutRows, DrainRows, CommitRows, CountedRows, RestartRows, StillRows

LEMMA InitRows == Init => RowInv
BY DEF Init, RowInv, Conserved, Order, BatchInv

\* Every row ever made is queued, in the batch, stored or lost, and in one of those
\* places only, whatever fails and however often the gateway is restarted.
THEOREM RowsConserved == Spec => []Conserved
<1>1. TypeOK /\ RowInv /\ [Next]_vars => (TypeOK /\ RowInv)'
    BY TypeNext, RowNext
<1>2. TypeOK /\ RowInv => Conserved
    BY DEF RowInv
<1> QED BY InitType, InitRows, <1>1, <1>2, PTL DEF Spec

-----------------------------------------------------------------------------
\* close leaves no row of before: the thread ends on an empty queue, and what is
\* put later is newer than the stop.
LEMMA StopNext == ASSUME TypeOK, RowInv, StopInv, [Next]_vars PROVE StopInv'
<1>1. CASE Put
  <2>1. /\ stop' = stop /\ stopAt' = stopAt /\ pc' = pc /\ stopping' = stopping
        /\ made' = made + 1 /\ q' \subseteq q \cup {made + 1}
      BY <1>1 DEF Put, threadVars, closeVars
  <2> QED BY <2>1 DEF StopInv, TypeOK
<1>2. CASE Close
  <2>1. stop' = TRUE /\ stopAt' = made /\ made' = made /\ pc' = pc /\ q' = q /\ stop = FALSE
      BY <1>2 DEF Close, TypeOK, queueVars, threadVars
  <2> QED BY <2>1 DEF StopInv, TypeOK
<1>3. CASE Restart
    BY <1>3 DEF Restart, FreshWriter, StopInv
<1>4. CASE Drained
  <2>1. /\ stop' = stop /\ stopAt' = stopAt /\ stopping' = stopping /\ made' = made /\ q' = q
        /\ pc' = "ended" => stopping /\ batch = {}
        /\ q = {} \/ Cardinality(batch) >= BATCH_MAX
      BY <1>4 DEF Drained, Go, queueVars, closeVars
  <2>2. pc' = "ended" => q = {}
      BY <2>1, BoundsAssumption, FS_EmptySet
  <2> QED BY <2>1, <2>2 DEF StopInv
<1>5. CASE Top
    BY <1>5 DEF Top, TopTo, Go, StopInv, queueVars, closeVars
<1>6. CASE Drain \/ Open \/ Insert \/ Commit \/ Count \/ Counted
  <2>1. /\ stop' = stop /\ stopAt' = stopAt /\ stopping' = stopping /\ made' = made
        /\ pc' # "ended"
      BY <1>6 DEF Drain, Take, Open, Insert, Commit, Count, Counted, CountedBy, Go,
                  queueVars, closeVars
  <2> QED BY <2>1 DEF StopInv
<1>7. CASE SetText \/ Adopt \/ UNCHANGED vars
    BY <1>7 DEF SetText, Adopt, vars, queueVars, threadVars, closeVars, StopInv
<1> QED BY <1>1, <1>2, <1>3, <1>4, <1>5, <1>6, <1>7 DEF Next, Owner, Thread

\* usage.py:275: a thread that ended after close wrote or gave up every row that was
\* put before close was called.
THEOREM CloseWrites == Spec => []WrittenByClose
<1> DEFINE I == TypeOK /\ RowInv /\ StopInv
<1>1. Init => I
    BY InitType, InitRows DEF Init, StopInv
<1>2. I /\ [Next]_vars => I'
    BY TypeNext, RowNext, StopNext
<1>3. I => WrittenByClose
    BY DEF StopInv, RowInv, BatchInv, WrittenByClose
<1> HIDE DEF I
<1> QED BY <1>1, <1>2, <1>3, PTL DEF Spec

-----------------------------------------------------------------------------
\* A label comes from adoptions read after the gateway took its config.
LEMMA LabelNext ==
    ASSUME TypeOK, RowInv, LabelInv, LabelNotOlder, [Next]_vars
    PROVE  LabelInv' /\ LabelNotOlder'
<1> USE BoundsAssumption
<1>t. /\ served \in Nat /\ adopted \in Nat /\ served <= adopted /\ made \in Nat
      /\ None \notin Adoptions /\ Typed \notin Adoptions /\ made <= MaxRows
    BY DEF TypeOK, Adoptions, None, Typed
<1>1. CASE Put
  <2>1. /\ q' \subseteq q \cup {made + 1} /\ batch' = batch /\ stored' = stored /\ label' = label
        /\ served' = served /\ specs' = specs
        /\ servedFor' = [servedFor EXCEPT ![made + 1] = served]
      BY <1>1 DEF Put, threadVars, storeVars, ownerVars
  <2>2. made + 1 \in Rows /\ servedFor'[made + 1] = served
      BY <1>t, <1>1, <2>1 DEF Put, Rows, TypeOK
  <2>3. \A r \in 1..made : servedFor'[r] = servedFor[r]
      BY <1>t, <2>1 DEF Rows, TypeOK
  <2>4. LabelInv'
      BY <1>t, <2>1, <2>2, <2>3 DEF LabelInv, TypeOK
  <2>5. LabelNotOlder'
      BY <2>1, <2>3 DEF LabelNotOlder, TypeOK
  <2> QED BY <2>4, <2>5
<1>2. CASE Restart
  <2>1. /\ q' = {} /\ batch' = {} /\ specs' = None /\ stored' = stored /\ label' = label
        /\ servedFor' = servedFor
      BY <1>2 DEF Restart, FreshWriter, storeVars
  <2> QED BY <1>t, <2>1 DEF LabelInv, LabelNotOlder
<1>3. CASE Open
  <2>1. /\ q' = q /\ batch' = batch /\ served' = served /\ stored' = stored /\ label' = label
        /\ servedFor' = servedFor /\ specs' \in {specs, adopted, Typed, None}
      BY <1>3 DEF Open, queueVars, storeVars, ownerVars
  <2> QED BY <1>t, <2>1 DEF LabelInv, LabelNotOlder
<1>4. CASE Commit
  <2>1. /\ q' = q /\ batch' \subseteq batch /\ served' = served /\ servedFor' = servedFor
        /\ specs' = specs
      BY <1>4 DEF Commit, queueVars, ownerVars
  <2>2. LabelInv'
      BY <2>1 DEF LabelInv
  <2>3. CASE Write
    <3>1. \A r \in Rows : label'[r] = IF r \in batch THEN specs ELSE label[r]
        BY <2>3 DEF Write
    <3>2. stored' = stored \cup batch /\ 1..made \subseteq Rows
        BY <1>t, <2>3 DEF Write, Rows
    <3>3. ASSUME NEW r \in stored', label'[r] \in Adoptions PROVE label'[r] >= servedFor'[r]
      <4>0. r \in Rows /\ servedFor[r] \in Nat
          BY <3>2, <3>3 DEF TypeOK, Adoptions
      <4>1. CASE r \in batch
        <5>1. label'[r] = specs /\ specs \in Adoptions /\ specs \in Nat
            BY <3>1, <3>3, <4>0, <4>1 DEF TypeOK, Adoptions
        <5>2. servedFor[r] <= served /\ served <= specs
            BY <4>1, <5>1 DEF LabelInv
        <5> QED BY <1>t, <2>1, <4>0, <5>1, <5>2
      <4>2. CASE r \notin batch
        <5>1. label'[r] = label[r] /\ r \in stored
            BY <3>1, <3>2, <4>0, <4>2
        <5> QED BY <2>1, <3>3, <5>1 DEF LabelNotOlder
      <4> QED BY <4>1, <4>2
    <3> QED BY <2>2, <3>3 DEF LabelNotOlder
  <2>4. CASE UNCHANGED storeVars
      BY <2>1, <2>2, <2>4 DEF LabelNotOlder, storeVars
  <2> QED BY <1>4, <2>3, <2>4 DEF Commit
<1>5. CASE Drain
  <2>1. /\ q' \cup batch' = q \cup batch /\ served' = served /\ stored' = stored
        /\ label' = label /\ servedFor' = servedFor /\ specs' = specs
      BY <1>5 DEF Drain, Take, storeVars, ownerVars
  <2> QED BY <2>1 DEF LabelInv, LabelNotOlder
<1>6. CASE SetText \/ Adopt \/ Close \/ Top \/ Drained \/ Insert \/ Count \/ Counted \/ UNCHANGED vars
  <2>1. /\ q' = q /\ batch' \subseteq batch /\ served' = served /\ stored' = stored
        /\ label' = label /\ servedFor' = servedFor /\ specs' = specs
      BY <1>6 DEF SetText, Adopt, Close, Top, TopTo, Drained, Insert, Count, Counted, CountedBy,
                  vars, queueVars, threadVars, storeVars, ownerVars
  <2> QED BY <2>1 DEF LabelInv, LabelNotOlder
<1> QED BY <1>1, <1>2, <1>3, <1>4, <1>5, <1>6 DEF Next, Owner, Thread

\* No stored row labelled from the adoptions has an older one than the one that was served
\* when the request was answered, for any adoptions and restarts.
THEOREM LabelsNotOlder == Spec => []LabelNotOlder
<1> DEFINE I == TypeOK /\ RowInv /\ LabelInv /\ LabelNotOlder
<1>1. Init => I
    BY InitType, InitRows DEF Init, LabelInv, LabelNotOlder, None, Adoptions, TypeOK
<1>2. I /\ [Next]_vars => I'
    BY TypeNext, RowNext, LabelNext
<1>3. I => LabelNotOlder
    OBVIOUS
<1> HIDE DEF I
<1> QED BY <1>1, <1>2, <1>3, PTL DEF Spec

-----------------------------------------------------------------------------
\* More rows given up, and none taken back, is at least as large a number.
LEMMA Grows ==
    ASSUME NEW n \in Nat, NEW S, NEW T, S \subseteq T, T \subseteq 1..n
    PROVE  Cardinality(S) \in Nat /\ Cardinality(T) \in Nat /\ Cardinality(S) <= Cardinality(T)
<1>1. IsFiniteSet(T) /\ IsFiniteSet(S)
    BY RowsFinite
<1>2. Cardinality(S) <= Cardinality(T)
    BY <1>1, FS_Subset, Zenon
<1> QED BY <1>1, <1>2, FS_CardinalityType

\* Two parts of a set that share nothing are together no larger than it.
LEMMA Parts ==
    ASSUME NEW n \in Nat, NEW S, NEW T, S \subseteq 1..n, T \subseteq 1..n, S \cap T = {}
    PROVE  /\ Cardinality(S) \in Nat /\ Cardinality(T) \in Nat
           /\ Cardinality(S \cup T) = Cardinality(S) + Cardinality(T)
<1>1. /\ IsFiniteSet(S) /\ IsFiniteSet(T) /\ Cardinality(S) \in Nat /\ Cardinality(T) \in Nat
    BY RowsFinite
<1>2. Cardinality(S \cup T) = Cardinality(S) + Cardinality(T) - Cardinality(S \cap T)
    BY <1>1, FS_Union, Zenon
<1>3. Cardinality(S \cap T) = 0
    BY FS_EmptySet
<1> QED BY <1>1, <1>2, <1>3

\* The count stays behind the rows given up: what the thread writes back is what it
\* read, which was behind, and its own batch, which was not counted in.
LEMMA CountNext == ASSUME TypeOK, RowInv, CountInv, [Next]_vars PROVE CountInv'
<1>a. made \in Nat /\ GivenUp \subseteq 1..made /\ Cardinality(GivenUp) \in Nat
      /\ dropped \in Nat /\ loaded \in Nat
  <2>1. made \in Nat /\ lost \cup doubted \subseteq 1..made
      BY DEF TypeOK, RowInv, BatchInv
  <2> QED BY <2>1, RowsFinite DEF GivenUp, TypeOK
<1>1. CASE Put
  <2>1. /\ made' = made + 1 /\ batch' = batch /\ doubted' = doubted /\ pc' = pc /\ loaded' = loaded
        /\ (lost' = lost /\ dropped' = dropped)
            \/ (lost' = lost \cup {made + 1} /\ dropped' = dropped + 1)
      BY <1>1 DEF Put, threadVars, storeVars
  <2>2. CASE lost' = lost /\ dropped' = dropped
      BY <2>1, <2>2 DEF CountInv, GivenUp
  <2>3. CASE lost' = lost \cup {made + 1} /\ dropped' = dropped + 1
    <3>1. GivenUp' = GivenUp \cup {made + 1} /\ made + 1 \notin GivenUp
        BY <1>a, <2>1, <2>3 DEF GivenUp, TypeOK
    <3>2. IsFiniteSet(GivenUp)
        BY <1>a, RowsFinite
    <3>3. Cardinality(GivenUp') = Cardinality(GivenUp) + 1
        BY <3>1, <3>2, FS_AddElement, Zenon
    <3> QED BY <1>a, <2>1, <2>3, <3>3 DEF CountInv
  <2> QED BY <2>1, <2>2, <2>3
<1>2. CASE Restart
  <2>1. dropped' = 0 /\ pc' = "top" /\ made' = made /\ GivenUp' \subseteq 1..made
      BY <1>a, <1>2 DEF Restart, FreshWriter, GivenUp, storeVars, TypeOK, RowInv, BatchInv
  <2>2. Cardinality(GivenUp') \in Nat
      BY <1>a, <2>1, RowsFinite
  <2> QED BY <2>1, <2>2 DEF CountInv
<1>3. CASE Count
  <2>1. GivenUp' = GivenUp /\ dropped' = dropped /\ loaded' = dropped
      BY <1>3 DEF Count, GivenUp, storeVars
  <2> QED BY <2>1 DEF CountInv
<1>4. CASE Counted
  <2>1. /\ dropped' = loaded + Cardinality(batch) /\ batch' = {} /\ pc = "counted" /\ pc' = "top"
        /\ lost' = lost \cup (batch \ stored) /\ doubted' = doubted
      BY <1>4 DEF Counted, CountedBy, Go, storeVars
  <2>2. batch \subseteq 1..made /\ GivenUp \cap batch = {}
      BY DEF GivenUp, TypeOK
  <2>3. GivenUp \cup batch = GivenUp'
      BY <2>1 DEF GivenUp, RowInv, Conserved
  <2>4. /\ Cardinality(batch) \in Nat
        /\ Cardinality(GivenUp \cup batch) = Cardinality(GivenUp) + Cardinality(batch)
    <3>1. made \in Nat /\ GivenUp \subseteq 1..made
        BY <1>a
    <3> QED BY <2>2, <3>1, Parts
  <2> QED BY <1>a, <2>1, <2>3, <2>4 DEF CountInv
<1>5. CASE Drain
  <2>1. GivenUp' = GivenUp
      BY <1>5 DEF Drain, Take, GivenUp, storeVars, RowInv, Conserved, BatchInv
  <2>2. dropped' = dropped /\ pc' = "drain"
      BY <1>5 DEF Drain, Take
  <2> QED BY <2>1, <2>2 DEF CountInv
<1>6. CASE Commit
  <2>1. dropped' = dropped /\ pc' \in {"top", "count"} /\ lost' = lost /\ pc = "commit"
      BY <1>6 DEF Commit, Go
  <2>2. GivenUp \subseteq GivenUp' /\ GivenUp' \subseteq 1..made
      BY <1>6, <2>1 DEF Commit, GivenUp, TypeOK, RowInv, BatchInv, Conserved, storeVars
  <2>3. Cardinality(GivenUp) <= Cardinality(GivenUp') /\ Cardinality(GivenUp') \in Nat
      BY <1>a, <2>2, Grows
  <2> QED BY <1>a, <2>1, <2>3 DEF CountInv
<1>7. CASE SetText \/ Adopt \/ Close \/ Top \/ Drained \/ Open \/ Insert \/ UNCHANGED vars
  <2>1. GivenUp' = GivenUp /\ dropped' = dropped /\ loaded' = loaded
        /\ (pc' = "counted" => pc = "counted")
      BY <1>7 DEF SetText, Adopt, Close, Top, TopTo, Drained, Open, Insert, Go, GivenUp,
                  vars, queueVars, threadVars, storeVars
  <2> QED BY <2>1 DEF CountInv
<1> QED BY <1>1, <1>2, <1>3, <1>4, <1>5, <1>6, <1>7 DEF Next, Owner, Thread

\* usage.py:252 and :261: the count of dropped rows, which two threads add to without
\* a lock, never exceeds the rows given up and those whose commit was in doubt.
THEOREM DroppedBounded == Spec => []DroppedAtMostLost
<1> DEFINE I == TypeOK /\ RowInv /\ CountInv
<1>1. Init => I
  <2>1. Cardinality({}) = 0
      BY FS_EmptySet
  <2>2. Init => GivenUp = {} /\ dropped = 0 /\ pc = "top"
      BY DEF Init, GivenUp
  <2> QED BY <2>1, <2>2, InitType, InitRows DEF CountInv
<1>2. I /\ [Next]_vars => I'
    BY TypeNext, RowNext, CountNext
<1>3. I => DroppedAtMostLost
  <2> SUFFICES ASSUME I PROVE DroppedAtMostLost
      OBVIOUS
  <2>1. made \in Nat /\ lost \cup doubted \subseteq 1..made /\ GivenUp \subseteq lost \cup doubted
      BY DEF TypeOK, RowInv, BatchInv, GivenUp
  <2>2. Cardinality(GivenUp) \in Nat /\ Cardinality(lost \cup doubted) \in Nat
        /\ Cardinality(GivenUp) <= Cardinality(lost \cup doubted)
      BY <2>1, Grows
  <2> QED BY <2>2 DEF CountInv, DroppedAtMostLost, TypeOK
<1> HIDE DEF I
<1> QED BY <1>1, <1>2, <1>3, PTL DEF Spec

-----------------------------------------------------------------------------
(* Prompt text.                                                              *)

\* While text has been off since the thread was last at the top, no batch it is about to
\* commit keeps any.
TextInv == off => ~text /\ (pc = "commit" => ~keep)

LEMMA TextNext == ASSUME TypeOK, TextInv, [Next]_vars PROVE TextInv'
<1>1. CASE SetText
    BY <1>1 DEF SetText, TextInv, threadVars
<1>2. CASE Insert
    BY <1>2 DEF Insert, TextInv, Go, ownerVars
<1>3. ASSUME ~SetText, ~Insert
      PROVE  /\ text' = text /\ (off' = off \/ off' = ~text)
             /\ pc' = "commit" => pc = "commit" /\ keep' = keep /\ off' = off
    BY <1>3 DEF Next, Owner, Thread, vars, Put, Adopt, Close, Restart, FreshWriter, Top, TopTo, Drain,
                Take, Drained, Open, Commit, Write, Count, Counted, CountedBy, Go, threadVars, ownerVars
<1>4. CASE ~SetText /\ ~Insert
    BY <1>3, <1>4 DEF TextInv
<1> QED BY <1>1, <1>2, <1>4

\* No batch begun after text was turned off keeps prompt text (insert).
THEOREM TextStaysOff == Spec => NoTextWhenOff
<1> DEFINE I == TypeOK /\ TextInv
<1>1. Init => I
    BY InitType DEF Init, TextInv
<1>2. I /\ [Next]_vars => I'
    BY TypeNext, TextNext
<1>3. ASSUME I, [Next]_vars PROVE [off => samples' \subseteq samples]_vars
  <2>1. CASE Commit
      BY <1>3, <2>1 DEF Commit, Write, TextInv, storeVars
  <2>2. CASE ~Commit
    <3>1. samples' = samples
        BY <1>3, <2>2 DEF Next, Owner, Thread, vars, Put, SetText, Adopt, Close, Restart, Top, TopTo, Drain,
                    Take, Drained, Open, Insert, Count, Counted, CountedBy, storeVars
    <3> QED BY <3>1
  <2> QED BY <2>1, <2>2
<1> HIDE DEF I
<1> QED BY <1>1, <1>2, <1>3, PTL DEF Spec, NoTextWhenOff

-----------------------------------------------------------------------------
(* The refinement: Fate maps this log to UsageLedger.                         *)

Fates == [r \in Rows |-> Fate(r)]

\* What the ledger holds is what is queued or in hand and not yet stored.
LEMMA HeldIs == ASSUME TypeOK, RowInv PROVE Ledger!Held = (q \cup batch) \ stored
<1>1. made \in Nat /\ 1..made \subseteq Rows
    BY BoundsAssumption DEF TypeOK, Rows
<1>2. ASSUME NEW r \in Rows PROVE Fate(r) = "held" <=> r \in (q \cup batch) \ stored
    BY <1>1, <1>2 DEF Fate, RowInv, Conserved, TypeOK, Rows
<1>3. q \cup batch \subseteq Rows
    BY <1>1 DEF TypeOK
<1> QED BY <1>2, <1>3 DEF Ledger!Held, Ledger!Rows, Rows

LEMMA InitLedger == Init => Ledger!Init
BY DEF Init, Ledger!Init, Ledger!Rows, Rows, Fate

\* Rows S of the held ones that are older than the rest settle together.
LEMMA Settles ==
    ASSUME TypeOK, RowInv, NEW S, S \subseteq (q \cup batch) \ stored,
           \A r \in S, s \in ((q \cup batch) \ stored) \ S : r < s,
           NEW f \in {"stored", "lost"},
           \A r \in Rows : Fate(r)' = IF r \in S THEN f ELSE Fate(r)
    PROVE  Ledger!Next
<1>1. Ledger!Held = (q \cup batch) \ stored
    BY HeldIs
<1>2. S \in SUBSET Ledger!Held
    BY <1>1
<1>3. [r \in Rows |-> Fate(r)]' = [r \in Rows |-> IF r \in S THEN f ELSE [s \in Rows |-> Fate(s)][r]]
    OBVIOUS
<1>4. Ledger!Settle(S)
    BY <1>1, <1>2, <1>3 DEF Ledger!Settle, Ledger!Rows, Rows
<1> QED BY <1>2, <1>4 DEF Ledger!Next

LEMMA PutLedger == ASSUME TypeOK, RowInv, Put PROVE Ledger!Next
<1>1. made \in Nat /\ made + 1 \in Rows /\ made' = made + 1 /\ stored' = stored
    BY BoundsAssumption DEF Put, TypeOK, Rows, storeVars
<1>2. \E f \in {"held", "lost"} : \A r \in Rows : Fate(r)' = IF r = made + 1 THEN f ELSE Fate(r)
  <2>1. made + 1 \notin stored \cup lost
      BY <1>1 DEF TypeOK
  <2>2. CASE lost' = lost
      BY <1>1, <2>1, <2>2 DEF Fate, Rows
  <2>3. CASE lost' = lost \cup {made + 1}
      BY <1>1, <2>1, <2>3 DEF Fate, Rows
  <2> QED BY <2>2, <2>3 DEF Put
<1>3. PICK f \in {"held", "lost"} : \A r \in Rows : Fate(r)' = IF r = made + 1 THEN f ELSE Fate(r)
    BY <1>2
<1>4. Fate(made + 1) = "new" /\ \A s \in Rows : s < made + 1 => Fate(s) # "new"
    BY <1>1 DEF Fate, TypeOK, Rows
<1>5. [r \in Rows |-> Fate(r)]' = [[r \in Rows |-> Fate(r)] EXCEPT ![made + 1] = f]
    BY <1>3
<1>6. Ledger!Offer(made + 1)
    BY <1>1, <1>4, <1>5 DEF Ledger!Offer, Ledger!Rows, Rows
<1> QED BY <1>1, <1>6 DEF Ledger!Next, Ledger!Rows, Rows

LEMMA CommitLedger == ASSUME TypeOK, RowInv, Commit PROVE [Ledger!Next]_Fates
<1>1. batch \cap stored = {} /\ made' = made /\ lost' = lost
    BY DEF Commit, RowInv, BatchInv, queueVars
<1>2. CASE stored' = stored \cup batch
  <2>1. \A r \in Rows : Fate(r)' = IF r \in batch THEN "stored" ELSE Fate(r)
      BY <1>1, <1>2 DEF Fate
  <2>2. \A r \in batch, s \in ((q \cup batch) \ stored) \ batch : r < s
      BY DEF RowInv, Order
  <2>3. batch \subseteq (q \cup batch) \ stored
      BY <1>1
  <2> QED BY <2>1, <2>2, <2>3, Settles
<1>3. CASE stored' = stored
    BY <1>1, <1>3 DEF Fates, Fate
<1> QED BY <1>2, <1>3 DEF Commit, Write, storeVars

LEMMA CountedLedger == ASSUME TypeOK, RowInv, Counted PROVE Ledger!Next
<1>1. made' = made /\ stored' = stored /\ lost' = lost \cup (batch \ stored)
    BY DEF Counted, CountedBy, queueVars, storeVars
<1>2. \A r \in Rows : Fate(r)' = IF r \in batch \ stored THEN "lost" ELSE Fate(r)
    BY <1>1 DEF Fate
<1>3. \A r \in batch \ stored, s \in ((q \cup batch) \ stored) \ (batch \ stored) : r < s
    BY DEF RowInv, Order
<1> QED BY <1>2, <1>3, Settles

LEMMA RestartLedger == ASSUME TypeOK, RowInv, Restart PROVE Ledger!Next
<1> DEFINE S == (q \cup batch) \ stored
<1>1. made' = made /\ stored' = stored /\ lost' = lost \cup S
    BY DEF Restart, storeVars
<1>2. \A r \in Rows : Fate(r)' = IF r \in S THEN "lost" ELSE Fate(r)
    BY <1>1 DEF Fate
<1> QED BY <1>2, Settles

\* The log implements the ledger: rows are held, then stored or lost, oldest first,
\* and what became of a row never changes.
THEOREM ImplementsUsageLedger == Spec => ImplementsLedger
<1>1. TypeOK /\ RowInv /\ [Next]_vars => (TypeOK /\ RowInv)'
    BY TypeNext, RowNext
<1>2. ASSUME TypeOK, RowInv, [Next]_vars PROVE [Ledger!Next]_Fates
  <2>1. CASE Drain \/ Still
    <3>1. made' = made /\ stored' = stored /\ lost' = lost
        BY <2>1 DEF Drain, Take, Still, SetText, Adopt, Close, Top, TopTo, Drained, Open, Insert,
                    Count, vars, queueVars, storeVars
    <3> QED BY <3>1 DEF Fates, Fate
  <2> QED BY <1>2, <2>1, PutLedger, CommitLedger, CountedLedger, RestartLedger
          DEF Next, Owner, Thread, Still
<1> QED BY InitType, InitRows, InitLedger, <1>1, <1>2, PTL DEF Spec, Ledger!Spec, ImplementsLedger, Fates
=============================================================================
