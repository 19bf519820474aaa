------------------------- MODULE TransitionsProofs -------------------------
(***************************************************************************)
(* Proofs about Transitions, for any writers, tiers and bounds: the test of  *)
(* state_verdict_id makes the verdicts in id order a legal history of the    *)
(* state, although ids are taken before the state is moved.                  *)
(***************************************************************************)
EXTENDS Transitions, FiniteSetTheorems, WellFoundedInduction, TLAPS

\* The verdict holding the state is the newest on record, and ids not handed out
\* have no row.
RowInv ==
    /\ \A i \in Ids : i >= nextVid => verdict[i] = NoRow
    /\ svid # 0 => svid \in Applied
    /\ \A i \in Applied : i <= svid
    /\ state = OutcomeOf(svid)

\* A writer past its check has read a verdict still on record, and its move is
\* legal from that verdict.
CheckedInv ==
    \A w \in Writers : pc[w] \in {"insert", "move"} =>
        /\ held[w] \in Applied \cup {0}
        /\ ~Refused(OutcomeOf(held[w]), TierOf(held[w]), req[w])

\* A writer about to move the state has an id of its own, newer than what it read.
OwnIdInv ==
    \A w \in Writers : pc[w] = "move" =>
        /\ vid[w] \in Ids /\ held[w] < vid[w] /\ vid[w] < nextVid
        /\ verdict[vid[w]] = NoRow
        /\ \A v \in Writers : v # w /\ pc[v] = "move" => vid[v] # vid[w]

\* A reopen goes back to the queue.
ReopenInv == \A w \in Writers : req[w].reopen # "" => req[w].outcome = "queued"

IInv == TypeOK /\ RowInv /\ CheckedInv /\ OwnIdInv /\ ReopenInv /\ HistoryLegal /\ RetestsInStep

-----------------------------------------------------------------------------
\* The step that begins a call.
LEMMA CallEffect ==
    ASSUME NEW w \in Writers, Decide(w) \/ ListDue(w) \/ ListRevisitable(w)
    PROVE  \E r \in Requests : Call(w, r) /\ (r.reopen # "" => r.outcome = "queued")
<1>1. ASSUME Decide(w) PROVE \E r \in Requests : Call(w, r) /\ (r.reopen # "" => r.outcome = "queued")
  BY <1>1 DEF Decide, TierRequests
<1>2. /\ Reopening("retest") \in Requests /\ Reopening("retraction") \in Requests
      /\ Reopening("retest").outcome = "queued" /\ Reopening("retraction").outcome = "queued"
  BY DEF Reopening, Requests, VERDICTS, WAYPOINTS, TierNames, Kinds, INSPECT
<1> QED BY <1>1, <1>2 DEF ListDue, ListRevisitable

\* A committed row is a row.
LEMMA RowOfType ==
    ASSUME TypeOK, NEW w \in Writers
    PROVE  /\ RowOf(w) \in Rows /\ RowOf(w) # NoRow
           /\ RowOf(w).outcome = req[w].outcome /\ RowOf(w).tier = req[w].tier
           /\ RowOf(w).until = req[w].until /\ RowOf(w).reopen = req[w].reopen
           /\ RowOf(w).reopen # "" => RowOf(w).reopens = held[w]
<1> DEFINE rs == IF req[w].reopen = "" THEN 0 ELSE held[w]
<1>1. req[w] \in Requests /\ held[w] \in 0..MaxVid
  BY DEF TypeOK
<1>2. rs \in 0..MaxVid
  <2>1. 0 \in 0..MaxVid
    BY TransitionsAssumption
  <2>2. rs = 0 \/ rs = held[w]
    BY Zenon
  <2> QED BY <1>1, <2>1, <2>2
<1>3. RowOf(w) = [outcome |-> req[w].outcome, tier |-> req[w].tier, until |-> req[w].until,
                  reopen |-> req[w].reopen, reopens |-> rs]
  BY DEF RowOf
<1>4. req[w].outcome # "" /\ req[w].outcome \in VERDICTS /\ req[w].tier \in TierNames
      /\ req[w].until \in BOOLEAN /\ req[w].reopen \in Kinds
  BY <1>1 DEF Requests, VERDICTS, TERMINAL, WAYPOINTS
<1> HIDE DEF rs
<1>5. RowOf(w) \in Rows
  <2>1. \A o \in VERDICTS, t \in TierNames, u \in BOOLEAN, k \in Kinds, n \in 0..MaxVid :
           [outcome |-> o, tier |-> t, until |-> u, reopen |-> k, reopens |-> n] \in Rows
    BY DEF Rows
  <2> QED BY <1>2, <1>3, <1>4, <2>1, Zenon
<1>6. RowOf(w).outcome = req[w].outcome
  BY <1>3
<1>7. RowOf(w) # NoRow
  <2>1. NoRow.outcome = ""
    BY DEF NoRow
  <2> QED BY <1>4, <1>6, <2>1
<1>8. RowOf(w).reopens = rs
  BY <1>3
<1>9. RowOf(w).tier = req[w].tier /\ RowOf(w).reopen = req[w].reopen
  BY <1>3
<1>10. RowOf(w).until = req[w].until
  BY <1>3
<1>11. req[w].reopen # "" => rs = held[w]
  BY DEF rs
<1> QED BY <1>5, <1>6, <1>7, <1>8, <1>9, <1>10, <1>11

\* A writer between calls holds an empty request.
LEMMA NothingType == Nothing \in Requests
  BY DEF Nothing, Requests, VERDICTS, WAYPOINTS, TierNames, Kinds, INSPECT

\* Types of the writers' variables, and of the store's.
WriterTypes ==
    /\ pc \in [Writers -> PCs] /\ req \in [Writers -> Requests]
    /\ held \in [Writers -> 0..MaxVid] /\ vid \in [Writers -> 0..MaxVid]
    /\ tries \in [Writers -> 0..(Tries - 1)]
RowTypes ==
    /\ verdict \in [Ids -> Rows \cup {NoRow}] /\ svid \in 0..MaxVid
    /\ state \in VERDICTS \cup {""} /\ retests \in Nat /\ due \in BOOLEAN

\* A call that ends leaves the writer's locals in type.
LEMMA IdleType == ASSUME WriterTypes, NEW w \in Writers, Idle(w) PROVE WriterTypes'
<1>1. 0 \in 0..MaxVid /\ 0 \in 0..(Tries - 1)
  BY TransitionsAssumption
<1>2. pc' \in [Writers -> PCs]
  BY DEF WriterTypes, Idle, PCs
<1>3. req' \in [Writers -> Requests]
  BY NothingType DEF WriterTypes, Idle
<1>4. held' \in [Writers -> 0..MaxVid] /\ vid' \in [Writers -> 0..MaxVid]
  BY <1>1 DEF WriterTypes, Idle
<1>5. tries' \in [Writers -> 0..(Tries - 1)]
  BY <1>1 DEF WriterTypes, Idle
<1> QED BY <1>2, <1>3, <1>4, <1>5 DEF WriterTypes

\* Every step keeps the types, once ids about to be written are ids.
LEMMA TypeStep == TypeOK /\ OwnIdInv /\ [Next]_vars => TypeOK'
<1> SUFFICES ASSUME TypeOK, OwnIdInv, [Next]_vars PROVE TypeOK'
  OBVIOUS
<1> USE DEF rowVars, wVars
<1>t. WriterTypes /\ RowTypes /\ nextVid \in 1..(MaxVid + 1)
  BY DEF TypeOK, WriterTypes, RowTypes
<1>r. UNCHANGED rowVars => RowTypes'
  BY <1>t, Zenon DEF RowTypes
<1>q. WriterTypes' /\ RowTypes' /\ nextVid' \in 1..(MaxVid + 1) => TypeOK'
  BY DEF TypeOK, WriterTypes, RowTypes
<1>1. ASSUME NEW w \in Writers, NEW r \in Requests, Call(w, r) PROVE TypeOK'
  <2>1. WriterTypes'
    BY <1>1, <1>t DEF WriterTypes, Call, PCs
  <2> QED BY <1>1, <2>1, <1>t, <1>r, <1>q DEF Call
<1>2. ASSUME NEW w \in Writers, Idle(w), UNCHANGED <<rowVars, nextVid>> PROVE TypeOK'
  BY <1>2, <1>t, <1>r, <1>q, IdleType
<1>3. ASSUME NEW w \in Writers, Read(w) PROVE TypeOK'
  <2>1. CASE UNCHANGED <<req, vid, tries>> /\ held' = [held EXCEPT ![w] = svid]
             /\ pc' = [pc EXCEPT ![w] = "insert"]
    <3>1. WriterTypes'
      BY <2>1, <1>t DEF WriterTypes, RowTypes, PCs
    <3> QED BY <1>3, <3>1, <1>t, <1>r, <1>q DEF Read
  <2> QED BY <1>2, <1>3, <2>1 DEF Read
<1>4. ASSUME NEW w \in Writers, Insert(w) PROVE TypeOK'
  <2>1. nextVid \in 0..MaxVid /\ nextVid + 1 \in 1..(MaxVid + 1)
    BY <1>4, TransitionsAssumption DEF Insert, Ids
  <2>2. WriterTypes'
    BY <1>4, <2>1, <1>t DEF Insert, WriterTypes, PCs
  <2> QED BY <1>4, <2>1, <2>2, <1>t, <1>r, <1>q DEF Insert
<1>5. ASSUME NEW w \in Writers, Move(w) PROVE TypeOK'
  <2>1. vid[w] \in Ids /\ req[w] \in Requests
    BY <1>5, <1>t DEF OwnIdInv, Move, WriterTypes
  <2>2. verdict' \in [Ids -> Rows \cup {NoRow}]
    BY <1>5, <1>t, RowOfType DEF RowTypes, Move, Land
  <2>3. svid' \in 0..MaxVid
    BY <1>5, <2>1, TransitionsAssumption DEF Move, Land, Ids
  <2>4. state' \in VERDICTS \cup {""}
    BY <1>5, <2>1 DEF Move, Land, Requests
  <2>5. retests' \in Nat
    <3>1. retests' = retests \/ retests' = retests + 1
      BY <1>5, Zenon DEF Move, Land, Schedule
    <3>2. retests \in Nat
      BY <1>t DEF RowTypes
    <3> QED BY <3>1, <3>2
  <2>6. due' \in BOOLEAN
    BY <1>5, Zenon DEF Move, Land, Schedule
  <2>7. WriterTypes'
    BY <1>5, <1>t, IdleType DEF Move, Land
  <2>8. RowTypes'
    BY <2>2, <2>3, <2>4, <2>5, <2>6 DEF RowTypes
  <2> QED BY <1>5, <1>t, <1>q, <2>7, <2>8 DEF Move, Land
<1>6. ASSUME NEW w \in Writers, Beaten(w) PROVE TypeOK'
  <2>1. CASE /\ tries[w] + 1 < Tries
             /\ tries' = [tries EXCEPT ![w] = @ + 1]
             /\ pc' = [pc EXCEPT ![w] = "read"]
             /\ held' = [held EXCEPT ![w] = 0]
             /\ vid' = [vid EXCEPT ![w] = 0]
             /\ UNCHANGED req
    <3>1. tries[w] + 1 \in 0..(Tries - 1) /\ 0 \in 0..MaxVid
      BY <1>t, <2>1, TransitionsAssumption DEF WriterTypes
    <3>2. tries' \in [Writers -> 0..(Tries - 1)]
      BY <1>t, <2>1, <3>1 DEF WriterTypes
    <3>3. WriterTypes'
      BY <1>t, <2>1, <3>1, <3>2 DEF WriterTypes, PCs
    <3> QED BY <1>6, <3>3, <1>t, <1>r, <1>q DEF Beaten
  <2> QED BY <1>2, <1>6, <2>1 DEF Beaten
<1>7. ASSUME UNCHANGED vars PROVE TypeOK'
  <2>1. WriterTypes'
    BY <1>7, <1>t DEF vars, WriterTypes
  <2> QED BY <1>7, <2>1, <1>t, <1>r, <1>q DEF vars
<1> QED
  <2>1. ASSUME NEW w \in Writers, Dies(w) PROVE TypeOK'
    BY <2>1, <1>2 DEF Dies
  <2> QED BY <1>1, <1>3, <1>4, <1>5, <1>6, <1>7, <2>1, CallEffect DEF Next

-----------------------------------------------------------------------------
\* What a move does to the store.
MoveOf(w) ==
    /\ svid = held[w] /\ svid' = vid[w] /\ vid[w] \in Ids /\ svid < vid[w]
    /\ verdict[vid[w]] = NoRow /\ verdict'[vid[w]] = RowOf(w)
    /\ \A i \in Ids : i # vid[w] => verdict'[i] = verdict[i]
    /\ Applied' = Applied \cup {vid[w]}
    /\ state' = req[w].outcome
    /\ ~Refused(state, TierOf(svid), req[w])

\* Given the invariant, a move replaces the verdict its writer checked against.
LEMMA MoveEffect ==
    ASSUME TypeOK, RowInv, CheckedInv, OwnIdInv, NEW w \in Writers, Move(w)
    PROVE  MoveOf(w)
<1>1. svid = held[w] /\ svid' = vid[w] /\ state' = req[w].outcome /\ pc[w] = "move"
      /\ verdict' = [verdict EXCEPT ![vid[w]] = RowOf(w)]
  BY DEF Move, Land
<1>2. vid[w] \in Ids /\ held[w] < vid[w] /\ verdict[vid[w]] = NoRow
  BY <1>1 DEF OwnIdInv
<1>3. DOMAIN verdict = Ids
  BY DEF TypeOK
<1>4. verdict'[vid[w]] = RowOf(w) /\ \A i \in Ids : i # vid[w] => verdict'[i] = verdict[i]
  BY <1>1, <1>2, <1>3
<1>5. RowOf(w) # NoRow
  BY RowOfType
<1>6. Applied' = Applied \cup {vid[w]}
  BY <1>2, <1>4, <1>5 DEF Applied
<1>7. ~Refused(state, TierOf(svid), req[w])
  BY <1>1 DEF CheckedInv, RowInv
<1> QED BY <1>1, <1>2, <1>4, <1>6, <1>7 DEF MoveOf

\* A refusal depends on a row's outcome, tier and kind of reopen only.
LEMMA RefusedSame ==
    ASSUME NEW s, NEW t, NEW r, NEW q, r.outcome = q.outcome, r.tier = q.tier, r.reopen = q.reopen
    PROVE  Refused(s, t, r) <=> Refused(s, t, q)
  BY DEF Refused

\* The verdicts on record are read through their ids alone.
LEMMA AppliedIds == ASSUME TypeOK PROVE Applied \subseteq Ids /\ Ids \subseteq Nat /\ 0 \notin Ids
  BY TransitionsAssumption DEF Applied, Ids

\* Ids are numbers.
LEMMA Numbers == ASSUME TypeOK PROVE svid \in Nat /\ nextVid \in Nat
<1>1. svid \in 0..MaxVid /\ nextVid \in 1..(MaxVid + 1)
  BY DEF TypeOK
<1> QED BY <1>1, TransitionsAssumption

\* After a move the row it committed is the newest and holds the state.
LEMMA RowStepMove ==
    ASSUME IInv, NEW w \in Writers, Move(w)
    PROVE  RowInv'
<1> USE DEF IInv
<1>1. MoveOf(w)
  BY MoveEffect
<1>2. vid[w] < nextVid /\ nextVid' = nextVid /\ nextVid \in Nat
  <2>1. vid[w] < nextVid
    BY DEF OwnIdInv, Move
  <2> QED BY <2>1, Numbers DEF Move, Land
<1>3. \A i \in Ids : i >= nextVid' => verdict'[i] = NoRow
  BY <1>1, <1>2, TransitionsAssumption DEF MoveOf, RowInv, Ids
<1>4. svid' \in Applied' /\ svid' # 0
  BY <1>1, TransitionsAssumption DEF MoveOf, Ids
<1>5. \A i \in Applied' : i <= svid'
  <2>1. svid \in Nat /\ vid[w] \in Nat
    BY <1>1, Numbers, AppliedIds DEF MoveOf
  <2>2. \A i \in Applied : i \in Nat /\ i <= svid
    BY AppliedIds DEF RowInv
  <2> QED BY <1>1, <2>1, <2>2 DEF MoveOf
<1>6. state' = OutcomeOf(svid)'
  BY <1>1, <1>4, RowOfType DEF MoveOf, OutcomeOf
<1> QED BY <1>3, <1>4, <1>5, <1>6 DEF RowInv

\* The verdict before the one just committed is the one that held the state, and
\* every older pair is as it was.
LEMMA LegalStepMove ==
    ASSUME IInv, NEW w \in Writers, Move(w)
    PROVE  HistoryLegal'
<1> USE DEF IInv
<1>1. MoveOf(w)
  BY MoveEffect
<1>2. RowInv'
  BY RowStepMove
<1>3. svid \in Nat /\ vid[w] \in Nat /\ svid < vid[w] /\ \A i \in Applied : i \in Nat /\ i <= svid
  BY <1>1, Numbers, AppliedIds DEF MoveOf, RowInv
<1>4. ASSUME NEW i \in Applied', NEW k \in 0..MaxVid, Previous(k, i)'
      PROVE  /\ ~Refused(OutcomeOf(k)', TierOf(k)', verdict'[i])
             /\ verdict'[i].reopen # "" => verdict'[i].reopens = k
  <2>0. /\ k \in Applied' \cup {0} /\ k < i
        /\ \A l \in Applied' : l <= k \/ l >= i
    BY <1>4 DEF Previous
  <2>1. CASE i = vid[w]
    <3>1. k = svid
      <4>1. k # vid[w] /\ k \in Nat
        BY <2>0, <2>1, <1>3
      <4>2. k \in Applied \cup {0}
        BY <2>0, <4>1, <1>1 DEF MoveOf
      <4>3. k <= svid
        BY <4>2, <1>3
      <4>4. svid = 0 \/ svid \in Applied'
        BY <1>1 DEF RowInv, MoveOf
      <4>5. svid <= k
        BY <4>4, <4>1, <2>0, <2>1, <1>3
      <4> QED BY <4>1, <4>3, <4>5, <1>3
    <3>2. OutcomeOf(k)' = OutcomeOf(k) /\ TierOf(k)' = TierOf(k)
      <4>1. k # vid[w] /\ (k = 0 \/ k \in Ids)
        BY <3>1, <1>3, AppliedIds DEF RowInv
      <4> QED BY <4>1, <1>1 DEF OutcomeOf, TierOf, MoveOf
    <3>3. verdict'[i] = RowOf(w) /\ held[w] = k
      BY <1>1, <2>1, <3>1 DEF MoveOf
    <3>4. ~Refused(OutcomeOf(k), TierOf(k), req[w])
      BY <1>1, <3>1 DEF MoveOf, RowInv
    <3>5. ~Refused(OutcomeOf(k), TierOf(k), RowOf(w))
      BY <3>4, RowOfType, RefusedSame
    <3> QED BY <3>2, <3>3, <3>5, RowOfType
  <2>2. CASE i # vid[w]
    <3>1. i \in Applied /\ i \in Ids /\ verdict'[i] = verdict[i]
      BY <2>2, <1>1, AppliedIds DEF MoveOf
    <3>2. k # vid[w] /\ k \in Nat
      BY <2>0, <3>1, <1>3
    <3>3. k \in Applied \cup {0}
      BY <2>0, <3>2, <1>1 DEF MoveOf
    <3>4. Previous(k, i)
      BY <2>0, <3>3, <1>1 DEF Previous, MoveOf
    <3>5. OutcomeOf(k)' = OutcomeOf(k) /\ TierOf(k)' = TierOf(k)
      BY <3>2, <3>3, <1>1, AppliedIds DEF OutcomeOf, TierOf, MoveOf
    <3> QED BY <3>1, <3>4, <3>5 DEF HistoryLegal
  <2> QED BY <2>1, <2>2
<1> QED BY <1>2, <1>4 DEF HistoryLegal, RowInv

\* The retests on record.
Retests == {i \in Applied : verdict[i].reopen = "retest"}

\* _schedule_retest in the same step keeps the count and the due date right.
LEMMA RetestStepMove ==
    ASSUME IInv, NEW w \in Writers, Move(w)
    PROVE  RetestsInStep'
<1> USE DEF IInv
<1>1. MoveOf(w)
  BY MoveEffect
<1>2. vid[w] \notin Applied /\ vid[w] # 0 /\ svid' = vid[w] /\ verdict'[svid'] = RowOf(w)
  BY <1>1, AppliedIds DEF MoveOf, Applied
<1>3. state' = req[w].outcome /\ TierOf(svid)' = req[w].tier
      /\ ((svid' # 0 /\ verdict'[svid'].until) <=> req[w].until)
  <2>1. state' = req[w].outcome
    BY <1>1 DEF MoveOf
  <2>2. TierOf(svid)' = RowOf(w).tier
    BY <1>2 DEF TierOf
  <2>3. RowOf(w).tier = req[w].tier /\ RowOf(w).until = req[w].until
    BY RowOfType
  <2>4. (svid' # 0 /\ verdict'[svid'].until) <=> req[w].until
    BY <1>2, <2>3
  <2> QED BY <2>1, <2>2, <2>3, <2>4
<1>4. IsFiniteSet(Retests)
  <2>1. IsFiniteSet(Ids)
    BY FS_Interval, TransitionsAssumption DEF Ids
  <2>2. Retests \subseteq Ids
    BY AppliedIds DEF Retests
  <2> QED BY <2>1, <2>2, FS_Subset
<1>5. retests = Cardinality(Retests) /\ vid[w] \notin Retests /\ RowOf(w).reopen = req[w].reopen
  BY <1>2, RowOfType DEF RetestsInStep, Retests
<1>6. \A i \in Applied : verdict'[i] = verdict[i]
  BY <1>1, <1>2, AppliedIds DEF MoveOf
<1>7. CASE req[w].reopen = "retest"
  <2>1. retests' = retests + 1 /\ due' = FALSE
    BY <1>7 DEF Move, Land, Schedule
  <2>2. Retests' = Retests \cup {vid[w]}
    BY <1>1, <1>2, <1>5, <1>6, <1>7 DEF MoveOf, Retests
  <2>3. Cardinality(Retests') = Cardinality(Retests) + 1
    BY <2>2, <1>4, <1>5, FS_AddElement
  <2>4. state' \notin RETESTED
    BY <1>3, <1>7 DEF ReopenInv, RETESTED
  <2>5. retests' = Cardinality(Retests')
    BY <2>1, <2>3, <1>5
  <2> QED BY <2>1, <2>4, <2>5, Zenon DEF RetestsInStep, Eligible, Retests
<1>8. CASE req[w].reopen # "retest"
  <2>1. retests' = retests
        /\ due' = (Eligible(req[w].outcome, req[w].tier, req[w].until) /\ retests < RETESTS)
    BY <1>8, Zenon DEF Move, Land, Schedule
  <2>2. Retests' = Retests
    BY <1>1, <1>2, <1>5, <1>6, <1>8 DEF MoveOf, Retests
  <2>3. Eligible(req[w].outcome, req[w].tier, req[w].until)
        <=> Eligible(state', TierOf(svid)', svid' # 0 /\ verdict'[svid'].until)
    BY <1>3, Zenon DEF Eligible
  <2>4. retests' = Cardinality(Retests')
    BY <2>1, <2>2, <1>5
  <2> QED BY <2>1, <2>3, <2>4, Zenon DEF RetestsInStep, Retests
<1> QED BY <1>7, <1>8

-----------------------------------------------------------------------------
\* The steps that leave the proposal's row alone keep what is said of it.
LEMMA RowSame ==
    ASSUME IInv, UNCHANGED rowVars, nextVid' \in Nat, nextVid' >= nextVid
    PROVE  RowInv' /\ HistoryLegal' /\ RetestsInStep'
<1> USE DEF IInv, rowVars
<1>1. Applied' = Applied
  BY DEF Applied
<1>2. \A i : OutcomeOf(i)' = OutcomeOf(i) /\ TierOf(i)' = TierOf(i)
  BY DEF OutcomeOf, TierOf
<1>3. OutcomeOf(svid)' = OutcomeOf(svid) /\ TierOf(svid)' = TierOf(svid)
  BY DEF OutcomeOf, TierOf
<1>4. \A i \in Ids : i >= nextVid' => verdict'[i] = NoRow
  BY Numbers, AppliedIds DEF RowInv
<1>5. RowInv'
  BY <1>1, <1>3, <1>4 DEF RowInv
<1>6. \A i, k : Previous(k, i)' <=> Previous(k, i)
  BY <1>1 DEF Previous
<1>7. HistoryLegal'
  BY <1>1, <1>2, <1>3, <1>6 DEF HistoryLegal
<1>8. Retests' = Retests
  BY <1>1 DEF Retests
<1>9. RetestsInStep'
  BY <1>3, <1>8, Zenon DEF RetestsInStep, Retests
<1> QED BY <1>5, <1>7, <1>9

\* Only w's locals change.
OthersKept(w) ==
    \A v \in Writers : v # w =>
        pc'[v] = pc[v] /\ req'[v] = req[v] /\ held'[v] = held[v] /\ vid'[v] = vid[v]

\* An id once handed out stays below the next one.
LEMMA StillBelow == \A a, b, c \in Nat : a < b /\ c >= b => a < c
  OBVIOUS

\* What the writers know stays true when only w's place changes, if it is true of w.
LEMMA WriterStep ==
    ASSUME IInv, NEW w \in Writers, OthersKept(w), UNCHANGED rowVars,
           nextVid' \in Nat, nextVid' >= nextVid,
           pc'[w] \in {"insert", "move"} =>
               /\ held'[w] \in Applied \cup {0}
               /\ ~Refused(OutcomeOf(held'[w]), TierOf(held'[w]), req'[w]),
           pc'[w] = "move" =>
               /\ vid'[w] \in Ids /\ held'[w] < vid'[w] /\ vid'[w] < nextVid'
               /\ verdict[vid'[w]] = NoRow
               /\ \A v \in Writers : v # w /\ pc[v] = "move" => vid[v] # vid'[w],
           req'[w].reopen # "" => req'[w].outcome = "queued"
    PROVE  CheckedInv' /\ OwnIdInv' /\ ReopenInv'
<1> USE DEF IInv, rowVars
<1>1. Applied' = Applied
  BY DEF Applied
<1>2. \A v \in Writers : /\ OutcomeOf(held[v])' = OutcomeOf(held'[v])
                         /\ TierOf(held[v])' = TierOf(held'[v])
  BY DEF OutcomeOf, TierOf
<1>3. CheckedInv'
  <2> SUFFICES ASSUME NEW v \in Writers, pc'[v] \in {"insert", "move"}
               PROVE  /\ held'[v] \in Applied \cup {0}
                      /\ ~Refused(OutcomeOf(held'[v]), TierOf(held'[v]), req'[v])
    BY <1>1, <1>2 DEF CheckedInv
  <2>1. CASE v = w
    BY <2>1
  <2>2. CASE v # w
    <3>1. pc'[v] = pc[v] /\ req'[v] = req[v] /\ held'[v] = held[v]
      BY <2>2 DEF OthersKept
    <3> QED BY <3>1 DEF CheckedInv
  <2> QED BY <2>1, <2>2
<1>4. OwnIdInv'
  <2> SUFFICES ASSUME NEW v \in Writers, pc'[v] = "move"
               PROVE  /\ vid'[v] \in Ids /\ held'[v] < vid'[v] /\ vid'[v] < nextVid'
                      /\ verdict[vid'[v]] = NoRow
                      /\ \A u \in Writers : u # v /\ pc'[u] = "move" => vid'[u] # vid'[v]
    BY DEF OwnIdInv
  <2>1. CASE v = w
    BY <2>1 DEF OthersKept
  <2>2. CASE v # w
    <3>1. pc[v] = "move" /\ vid'[v] = vid[v] /\ held'[v] = held[v]
      BY <2>2 DEF OthersKept
    <3>2. vid[v] \in Ids /\ held[v] < vid[v] /\ vid[v] < nextVid /\ verdict[vid[v]] = NoRow
      BY <3>1 DEF OwnIdInv
    <3>3. vid[v] < nextVid'
      <4>1. vid[v] \in Nat /\ nextVid \in Nat
        BY <3>2, Numbers, AppliedIds
      <4> QED BY <3>2, <4>1, StillBelow, Zenon
    <3>4. \A u \in Writers : u # v /\ pc'[u] = "move" => vid'[u] # vid[v]
      BY <2>2, <3>1 DEF OwnIdInv, OthersKept
    <3> QED BY <3>1, <3>2, <3>3, <3>4
  <2> QED BY <2>1, <2>2
<1>5. ReopenInv'
  BY DEF ReopenInv, OthersKept
<1> QED BY <1>3, <1>4, <1>5

\* The writers after a move: the others hold ids and legal checks of their own.
LEMMA WriterStepMove ==
    ASSUME IInv, NEW w \in Writers, Move(w)
    PROVE  CheckedInv' /\ OwnIdInv' /\ ReopenInv'
<1> USE DEF IInv
<1>1. MoveOf(w)
  BY MoveEffect
<1>2. /\ pc' = [pc EXCEPT ![w] = "idle"] /\ req' = [req EXCEPT ![w] = Nothing]
      /\ held' = [held EXCEPT ![w] = 0] /\ vid' = [vid EXCEPT ![w] = 0]
      /\ nextVid' = nextVid
  BY DEF Move, Land, Idle
<1>3. pc'[w] = "idle" /\ req'[w] = Nothing /\ OthersKept(w)
  BY <1>2 DEF TypeOK, OthersKept
<1>4. \A v \in Writers : v # w /\ pc[v] \in {"insert", "move"} =>
         /\ held[v] \in Applied' \cup {0}
         /\ ~Refused(OutcomeOf(held[v])', TierOf(held[v])', req[v])
  <2> SUFFICES ASSUME NEW v \in Writers, v # w, pc[v] \in {"insert", "move"}
               PROVE  /\ held[v] \in Applied' \cup {0}
                      /\ ~Refused(OutcomeOf(held[v])', TierOf(held[v])', req[v])
    BY DEF OthersKept
  <2>1. held[v] \in Applied \cup {0} /\ ~Refused(OutcomeOf(held[v]), TierOf(held[v]), req[v])
    BY DEF CheckedInv
  <2>2. held'[v] = held[v]
    BY <1>3 DEF OthersKept
  <2>3. held[v] # vid[w] /\ (held[v] = 0 \/ held[v] \in Ids)
    BY <2>1, <1>1, AppliedIds DEF MoveOf, Applied
  <2>4. OutcomeOf(held[v])' = OutcomeOf(held[v]) /\ TierOf(held[v])' = TierOf(held[v])
    BY <2>2, <2>3, <1>1 DEF OutcomeOf, TierOf, MoveOf
  <2> QED BY <2>1, <2>4, <1>1 DEF MoveOf
<1>5. CheckedInv'
  BY <1>3, <1>4 DEF CheckedInv, OthersKept
<1>6. OwnIdInv'
  <2> SUFFICES ASSUME NEW v \in Writers, pc'[v] = "move"
               PROVE  /\ vid'[v] \in Ids /\ held'[v] < vid'[v] /\ vid'[v] < nextVid'
                      /\ verdict'[vid'[v]] = NoRow
                      /\ \A u \in Writers : u # v /\ pc'[u] = "move" => vid'[u] # vid'[v]
    BY DEF OwnIdInv
  <2>1. v # w /\ pc[v] = "move" /\ vid'[v] = vid[v] /\ held'[v] = held[v] /\ pc[w] = "move"
    BY <1>3 DEF OthersKept, Move
  <2>2. /\ vid[v] \in Ids /\ held[v] < vid[v] /\ vid[v] < nextVid /\ verdict[vid[v]] = NoRow
        /\ vid[v] # vid[w]
    BY <2>1 DEF OwnIdInv
  <2>3. verdict'[vid[v]] = NoRow
    BY <2>2, <1>1 DEF MoveOf
  <2>4. \A u \in Writers : u # v /\ pc'[u] = "move" => vid'[u] # vid[v]
    BY <1>3, <2>1 DEF OwnIdInv, OthersKept
  <2> QED BY <1>2, <2>1, <2>2, <2>3, <2>4
<1>7. ReopenInv'
  <2>1. Nothing.reopen = ""
    BY DEF Nothing
  <2> QED BY <1>3, <2>1 DEF ReopenInv, OthersKept
<1> QED BY <1>5, <1>6, <1>7

-----------------------------------------------------------------------------
\* The invariant holds at the start, before any verdict.
LEMMA InitInv == Init => IInv
<1> SUFFICES ASSUME Init PROVE IInv
  OBVIOUS
<1>1. TypeOK
  <2>1. 0 \in 0..MaxVid /\ 1 \in 1..(MaxVid + 1) /\ 0 \in 0..(Tries - 1) /\ 0 \in Nat
    BY TransitionsAssumption
  <2> QED BY <2>1, NothingType DEF Init, TypeOK, PCs
<1>2. Applied = {} /\ Retests = {}
  BY DEF Init, Applied, Retests
<1>3. RowInv
  BY <1>2 DEF Init, RowInv, OutcomeOf
<1>4. CheckedInv /\ OwnIdInv
  BY DEF Init, CheckedInv, OwnIdInv
<1>5. ReopenInv
  <2>1. Nothing.reopen = ""
    BY DEF Nothing
  <2> QED BY <2>1 DEF Init, ReopenInv
<1>6. HistoryLegal
  BY <1>2 DEF Init, HistoryLegal, OutcomeOf
<1>7. RetestsInStep
  <2>1. retests = Cardinality(Retests)
    BY <1>2, FS_EmptySet DEF Init
  <2>2. state \notin RETESTED /\ due = FALSE
    BY DEF Init, RETESTED
  <2> QED BY <2>1, <2>2, Zenon DEF RetestsInStep, Eligible, Retests
<1> QED BY <1>1, <1>3, <1>4, <1>5, <1>6, <1>7 DEF IInv

\* Every step keeps it: one that moves the state by the lemmas above, any other
\* because the row stays as it is.
LEMMA StepInv == IInv /\ [Next]_vars => IInv'
<1> SUFFICES ASSUME IInv, [Next]_vars PROVE IInv'
  OBVIOUS
<1> USE DEF IInv
<1>0. TypeOK'
  BY TypeStep
<1>n. nextVid \in Nat /\ nextVid' \in Nat
  <2>1. nextVid' \in 1..(MaxVid + 1)
    BY <1>0 DEF TypeOK
  <2> QED BY <2>1, Numbers, TransitionsAssumption
<1>s. ASSUME UNCHANGED rowVars, nextVid' >= nextVid, CheckedInv' /\ OwnIdInv' /\ ReopenInv'
      PROVE  IInv'
  BY <1>s, <1>0, <1>n, RowSame
<1>i. ASSUME NEW w \in Writers, Idle(w), UNCHANGED <<rowVars, nextVid>> PROVE IInv'
  <2>1. pc'[w] = "idle" /\ req'[w] = Nothing /\ OthersKept(w)
    BY <1>i DEF Idle, TypeOK, OthersKept
  <2>2. Nothing.reopen = "" /\ nextVid' >= nextVid
    BY <1>i, <1>n DEF Nothing
  <2>3. CheckedInv' /\ OwnIdInv' /\ ReopenInv'
    BY <1>i, <1>n, <2>1, <2>2, WriterStep
  <2> QED BY <1>i, <1>s, <2>2, <2>3
<1>1. ASSUME NEW w \in Writers, NEW r \in Requests, Call(w, r), r.reopen # "" => r.outcome = "queued"
      PROVE  IInv'
  <2>1. pc'[w] = "read" /\ req'[w] = r /\ OthersKept(w)
    BY <1>1 DEF Call, TypeOK, OthersKept
  <2>2. UNCHANGED rowVars /\ nextVid' >= nextVid
    <3>1. UNCHANGED rowVars /\ nextVid' = nextVid
      BY <1>1 DEF Call
    <3> QED BY <3>1, <1>n
  <2>3. CheckedInv' /\ OwnIdInv' /\ ReopenInv'
    BY <1>1, <1>n, <2>1, <2>2, WriterStep
  <2> QED BY <1>s, <2>2, <2>3
<1>2. ASSUME NEW w \in Writers, Read(w) PROVE IInv'
  <2>1. CASE /\ ~Refused(state, TierOf(svid), req[w])
             /\ pc' = [pc EXCEPT ![w] = "insert"]
             /\ held' = [held EXCEPT ![w] = svid]
             /\ UNCHANGED <<req, vid, tries>>
    <3>1. pc'[w] = "insert" /\ held'[w] = svid /\ req'[w] = req[w] /\ OthersKept(w)
      BY <2>1 DEF TypeOK, OthersKept
    <3>2. UNCHANGED rowVars /\ nextVid' >= nextVid
      <4>1. UNCHANGED rowVars /\ nextVid' = nextVid
        BY <1>2 DEF Read
      <4> QED BY <4>1, <1>n
    <3>3. svid \in Applied \cup {0} /\ ~Refused(OutcomeOf(svid), TierOf(svid), req[w])
      BY <2>1 DEF RowInv
    <3>4. CheckedInv' /\ OwnIdInv' /\ ReopenInv'
      BY <1>n, <3>1, <3>2, <3>3, WriterStep DEF ReopenInv
    <3> QED BY <1>s, <3>2, <3>4
  <2> QED BY <1>2, <1>i, <2>1 DEF Read
<1>3. ASSUME NEW w \in Writers, Insert(w) PROVE IInv'
  <2>1. pc[w] = "insert" /\ nextVid \in Ids /\ nextVid' = nextVid + 1 /\ UNCHANGED rowVars
    BY <1>3 DEF Insert
  <2>2. /\ pc'[w] = "move" /\ vid'[w] = nextVid /\ held'[w] = held[w] /\ req'[w] = req[w]
        /\ OthersKept(w)
    BY <1>3 DEF Insert, TypeOK, OthersKept
  <2>3. nextVid' >= nextVid /\ nextVid < nextVid'
    BY <2>1, <1>n
  <2>4. held[w] \in Applied \cup {0} /\ ~Refused(OutcomeOf(held[w]), TierOf(held[w]), req[w])
    BY <2>1 DEF CheckedInv
  <2>5. verdict[nextVid] = NoRow
    BY <2>1, <1>n DEF RowInv
  <2>6. held[w] < nextVid
    <3>1. \A i \in Applied : i < nextVid
      BY <1>n, AppliedIds DEF RowInv, Applied
    <3>2. 0 < nextVid
      BY <2>1, <1>n, AppliedIds
    <3> QED BY <2>4, <3>1, <3>2
  <2>7. \A v \in Writers : v # w /\ pc[v] = "move" => vid[v] # nextVid
    BY <1>n DEF OwnIdInv
  <2>8. CheckedInv' /\ OwnIdInv' /\ ReopenInv'
    BY <1>n, <2>1, <2>2, <2>3, <2>4, <2>5, <2>6, <2>7, WriterStep DEF ReopenInv
  <2> QED BY <1>s, <2>1, <2>3, <2>8
<1>4. ASSUME NEW w \in Writers, Move(w) PROVE IInv'
  BY <1>0, <1>4, RowStepMove, LegalStepMove, RetestStepMove, WriterStepMove
<1>5. ASSUME NEW w \in Writers, Beaten(w) PROVE IInv'
  <2>1. CASE pc' = [pc EXCEPT ![w] = "read"] /\ held' = [held EXCEPT ![w] = 0]
             /\ vid' = [vid EXCEPT ![w] = 0] /\ UNCHANGED req
    <3>1. pc'[w] = "read" /\ req'[w] = req[w] /\ OthersKept(w)
      BY <2>1 DEF TypeOK, OthersKept
    <3>2. UNCHANGED rowVars /\ nextVid' >= nextVid
      BY <1>5, <1>n DEF Beaten
    <3>3. CheckedInv' /\ OwnIdInv' /\ ReopenInv'
      BY <1>n, <3>1, <3>2, WriterStep DEF ReopenInv
    <3> QED BY <1>s, <3>2, <3>3
  <2> QED BY <1>5, <1>i, <2>1 DEF Beaten
<1>6. ASSUME UNCHANGED vars PROVE IInv'
  <2>1. UNCHANGED rowVars /\ nextVid' >= nextVid
    BY <1>6, <1>n DEF vars
  <2>2. UNCHANGED <<rowVars, pc, req, held, vid, nextVid>>
    BY <1>6 DEF vars, wVars
  <2>3. CheckedInv' /\ OwnIdInv' /\ ReopenInv'
    BY <2>2 DEF rowVars, CheckedInv, OwnIdInv, ReopenInv, Applied, OutcomeOf, TierOf
  <2> QED BY <1>s, <2>1, <2>3
<1> QED
  <2>1. ASSUME NEW w \in Writers, Dies(w) PROVE IInv'
    BY <2>1, <1>i DEF Dies
  <2> QED BY <1>1, <1>2, <1>3, <1>4, <1>5, <1>6, <2>1, CallEffect DEF Next

\* The inductive invariant holds in every reachable state, for any number of
\* writers racing through decide.
THEOREM Invariant == Spec => []IInv
  BY InitInv, StepInv, PTL DEF Spec

\* The store and the writers keep their types: among others, a writer gives up
\* after its last try.
THEOREM TypeCorrect == Spec => []TypeOK
<1>1. IInv => TypeOK
  BY DEF IInv
<1> QED BY Invariant, <1>1, PTL

\* The verdicts on record are a legal history of the state, in the order of ids
\* taken before the moves they record.
THEOREM Legal == Spec => []HistoryLegal
<1>1. IInv => HistoryLegal
  BY DEF IInv
<1> QED BY Invariant, <1>1, PTL

\* _schedule_retest keeps retest_count and next_retest_at in step with the state.
THEOREM InStep == Spec => []RetestsInStep
<1>1. IInv => RetestsInStep
  BY DEF IInv
<1> QED BY Invariant, <1>1, PTL

\* An answer is reopened only by a verdict that says so (#409).
THEOREM Reopened == Spec => NoSilentReopen
<1>1. IInv /\ [Next]_vars => [Moved]_vars
  <2> SUFFICES ASSUME IInv, Next, svid' # svid PROVE Moved
    BY DEF Moved, vars, rowVars
  <2>1. PICK w \in Writers : Move(w)
    BY CallEffect DEF Next, Call, Read, Insert, Beaten, Dies, rowVars
  <2>2. MoveOf(w)
    BY <2>1, MoveEffect DEF IInv
  <2>3. /\ verdict'[svid'].outcome = state' /\ verdict'[svid'].tier = req[w].tier
        /\ verdict'[svid'].reopen = req[w].reopen
        /\ verdict'[svid'].reopen # "" => verdict'[svid'].reopens = svid
        /\ state' = req[w].outcome
    BY <2>2, RowOfType DEF MoveOf, IInv
  <2>4. ~Refused(state, TierOf(svid), req[w])
    BY <2>2 DEF MoveOf
  <2>5. state \in TERMINAL => state \notin {"", "queued"}
    BY DEF TERMINAL
  <2>6. state \in TERMINAL /\ state' \in WAYPOINTS => req[w].reopen # ""
    BY <2>3, <2>4, <2>5 DEF Refused
  <2>7. req[w].reopen = "retest" => state \in RETESTED
    BY <2>4 DEF Refused
  <2>8. req[w].reopen = "" /\ state \notin {"", "queued"} =>
           Rung(req[w].tier) >= Rung(TierOf(svid))
    <3>1. \A t : Rung(t) \in Nat
      BY DEF Rung, LADDER, TierNames
    <3>2. req[w].reopen = "" /\ state \notin {"", "queued"} =>
             ~(Rung(req[w].tier) < Rung(TierOf(svid)))
      BY <2>4 DEF Refused
    <3>3. Rung(req[w].tier) \in Nat /\ Rung(TierOf(svid)) \in Nat
      BY <3>1
    <3>4. \A a, b \in Nat : ~(a < b) => a >= b
      OBVIOUS
    <3> QED BY <3>2, <3>3, <3>4, Zenon
  <2> QED BY <2>3, <2>6, <2>7, <2>8 DEF Moved
<1> QED BY Invariant, <1>1, PTL DEF Spec, NoSilentReopen
-----------------------------------------------------------------------------
(* The history, folded.                                                      *)

\* Verdict k is the newest on record up to id n; 0: there is none.
NewestUpTo(n, k) == k \in Applied \cup {0} /\ k <= n /\ \A l \in Applied : l <= k \/ l > n

\* A set of naturals has a smallest member.
LEMMA Smallest ==
    ASSUME NEW T \in SUBSET Nat, T # {}
    PROVE  \E x \in T : \A y \in T : x <= y
<1> DEFINE Less == {ss \in Nat \X Nat : ss[1] < ss[2]}
<1>1. IsWellFoundedOn(Less, Nat)
  BY NatLessThanWellFounded DEF OpToRel
<1>2. PICK x \in T : \A y \in T : ~(<<y, x>> \in Less)
  <2> HIDE DEF Less
  <2> QED BY <1>1, WFMin
<1>3. \A y \in T : ~(y < x)
  BY <1>2
<1> QED BY <1>3

\* There is one such verdict for every id.
LEMMA NewestExists ==
    ASSUME TypeOK, NEW n \in 0..MaxVid
    PROVE  \E k : NewestUpTo(n, k)
<1> DEFINE K == {k \in Applied \cup {0} : k <= n}
           T == {m \in Nat : \E k \in K : m = n - k}
<1>0. n \in Nat /\ Applied \cup {0} \subseteq Nat
  BY AppliedIds, TransitionsAssumption
<1>1. \A k \in K : k \in Nat /\ n - k \in T
  BY <1>0
<1>2. T # {} /\ T \subseteq Nat
  <2>1. 0 \in K
    BY <1>0
  <2>2. n - 0 \in T
    BY <1>1, <2>1
  <2> QED BY <2>2
<1>3. PICK m \in T : \A y \in T : m <= y
  <2> HIDE DEF T
  <2> QED BY <1>2, Smallest
<1>4. PICK k \in K : m = n - k
  OBVIOUS
<1>5. \A l \in K : l <= k
  BY <1>0, <1>1, <1>3, <1>4
<1>6. \A l \in Applied : l <= k \/ l > n
  BY <1>0, <1>5
<1> QED BY <1>4, <1>6 DEF NewestUpTo

LEMMA NewestUnique ==
    ASSUME TypeOK, NEW n \in 0..MaxVid, NEW k, NEW j, NewestUpTo(n, k), NewestUpTo(n, j)
    PROVE  k = j
<1>1. n \in Nat /\ k \in Nat /\ j \in Nat /\ \A l \in Applied : l > 0
  BY AppliedIds, TransitionsAssumption DEF NewestUpTo, Ids
<1> QED BY <1>1 DEF NewestUpTo

\* What the fold comes to at id n: the verdict that is newest by then.
ClosedFold ==
    [n \in 0..MaxVid |->
       LET k == CHOOSE j : NewestUpTo(n, j) IN [state |-> OutcomeOf(k), tier |-> TierOf(k)]]

LEMMA ClosedFoldAt ==
    ASSUME TypeOK, NEW n \in 0..MaxVid, NEW k, NewestUpTo(n, k)
    PROVE  ClosedFold[n] = [state |-> OutcomeOf(k), tier |-> TierOf(k)]
<1> DEFINE j == CHOOSE i : NewestUpTo(n, i)
<1>1. NewestUpTo(n, j)
  BY Zenon
<1>2. j = k
  <2> HIDE DEF j
  <2> QED BY <1>1, NewestUnique
<1> QED BY <1>2, Zenon DEF ClosedFold

\* One step of Fold, from the fold f of the ids below n.
FoldStep(f, n) ==
    IF n = 0 THEN [state |-> "", tier |-> ""]
    ELSE LET before == f[n - 1] IN
         IF verdict[n] = NoRow \/ Refused(before.state, before.tier, verdict[n])
         THEN before
         ELSE [state |-> verdict[n].outcome, tier |-> verdict[n].tier]

\* In a legal history no verdict is skipped, so the newest one by id n is what the
\* transition table makes of the verdicts up to n.
LEMMA ClosedFoldSteps ==
    ASSUME TypeOK, HistoryLegal, NEW n \in 0..MaxVid
    PROVE  ClosedFold[n] = FoldStep(ClosedFold, n)
<1>0. n \in Nat /\ MaxVid \in Nat /\ \A l \in Applied : l \in Nat /\ l > 0
  BY AppliedIds, TransitionsAssumption DEF Ids
<1>1. CASE n = 0
  <2>1. NewestUpTo(0, 0)
    BY <1>0 DEF NewestUpTo
  <2>2. ClosedFold[0] = [state |-> OutcomeOf(0), tier |-> TierOf(0)]
    BY <1>1, <2>1, ClosedFoldAt
  <2> QED BY <1>1, <2>2 DEF FoldStep, OutcomeOf, TierOf
<1>2. CASE n # 0
  <2>1. n \in Ids /\ n - 1 \in 0..MaxVid
    BY <1>0, <1>2 DEF Ids
  <2>2. PICK k : NewestUpTo(n - 1, k)
    BY <2>1, NewestExists
  <2>3. k \in 0..MaxVid /\ k \in Applied \cup {0} /\ k <= n - 1 /\ \A l \in Applied : l <= k \/ l >= n
    BY <1>0, <2>1, <2>2 DEF NewestUpTo
  <2>4. ClosedFold[n - 1] = [state |-> OutcomeOf(k), tier |-> TierOf(k)]
    BY <2>1, <2>2, ClosedFoldAt
  <2>5. ClosedFold[n - 1].state = OutcomeOf(k) /\ ClosedFold[n - 1].tier = TierOf(k)
    BY <2>4
  <2>6. CASE verdict[n] = NoRow
    <3>1. n \notin Applied
      BY <2>6 DEF Applied
    <3>2. NewestUpTo(n, k)
      BY <1>0, <2>3, <3>1 DEF NewestUpTo
    <3>3. ClosedFold[n] = ClosedFold[n - 1]
      BY <2>4, <3>2, ClosedFoldAt
    <3> QED BY <1>2, <2>6, <3>3, Zenon DEF FoldStep
  <2>7. CASE verdict[n] # NoRow
    <3>1. n \in Applied
      BY <2>1, <2>7 DEF Applied
    <3>2. Previous(k, n)
      BY <1>0, <2>3 DEF Previous
    <3>3. ~Refused(OutcomeOf(k), TierOf(k), verdict[n])
      BY <2>3, <3>1, <3>2 DEF HistoryLegal
    <3>4. NewestUpTo(n, n)
      BY <1>0, <3>1, <2>3 DEF NewestUpTo
    <3>5. ClosedFold[n] = [state |-> OutcomeOf(n), tier |-> TierOf(n)]
      BY <3>4, ClosedFoldAt
    <3>6. OutcomeOf(n) = verdict[n].outcome /\ TierOf(n) = verdict[n].tier
      BY <1>2 DEF OutcomeOf, TierOf
    <3> QED BY <1>2, <2>5, <2>7, <3>3, <3>5, <3>6, Zenon DEF FoldStep
  <2> QED BY <2>6, <2>7
<1> QED BY <1>1, <1>2

\* Fold, a recursive function, does satisfy its equation: the closed form is a
\* solution of it.
LEMMA FoldUnfolds ==
    ASSUME TypeOK, HistoryLegal
    PROVE  Fold = [n \in 0..MaxVid |-> FoldStep(Fold, n)]
<1>1. ClosedFold = [n \in 0..MaxVid |-> FoldStep(ClosedFold, n)]
  <2>1. ClosedFold = [n \in 0..MaxVid |-> ClosedFold[n]]
    BY DEF ClosedFold
  <2>2. \A n \in 0..MaxVid : ClosedFold[n] = FoldStep(ClosedFold, n)
    BY ClosedFoldSteps
  <2> QED BY <2>1, <2>2
<1>2. Fold = CHOOSE f : f = [n \in 0..MaxVid |-> FoldStep(f, n)]
  BY Zenon DEF Fold, FoldStep
<1> QED BY <1>1, <1>2, Zenon

\* It has no other: a smallest id where they differ has the same fold below it.
LEMMA FoldIsClosed ==
    ASSUME TypeOK, HistoryLegal, NEW n \in 0..MaxVid
    PROVE  Fold[n] = ClosedFold[n]
<1> DEFINE T == {m \in 0..MaxVid : Fold[m] # ClosedFold[m]}
<1>1. ASSUME T # {} PROVE FALSE
  <2>1. T \subseteq Nat
    BY TransitionsAssumption
  <2>2. PICK m \in T : \A y \in T : m <= y
    <3> HIDE DEF T
    <3> QED BY <1>1, <2>1, Smallest
  <2>3. m \in 0..MaxVid /\ Fold[m] # ClosedFold[m]
    OBVIOUS
  <2>4. Fold[m] = FoldStep(Fold, m) /\ ClosedFold[m] = FoldStep(ClosedFold, m)
    BY <2>3, FoldUnfolds, ClosedFoldSteps
  <2>5. m # 0
    BY <2>3, <2>4, Zenon DEF FoldStep
  <2>6. m - 1 \in 0..MaxVid /\ m - 1 \notin T
    BY <2>2, <2>3, <2>5, TransitionsAssumption
  <2>7. Fold[m - 1] = ClosedFold[m - 1]
    BY <2>6
  <2>8. FoldStep(Fold, m) = FoldStep(ClosedFold, m)
    BY <2>7, Zenon DEF FoldStep
  <2> QED BY <2>3, <2>4, <2>8
<1> QED BY <1>1

\* state_audit's re-read of the verdicts in id order through the transition table
\* gives the stored state and tier, for any number of verdicts and racing writers.
THEOREM Folds == Spec => []HistoryFolds
<1>1. IInv => HistoryFolds
  <2> SUFFICES ASSUME IInv PROVE HistoryFolds
    OBVIOUS
  <2>1. TypeOK /\ HistoryLegal /\ RowInv
    BY DEF IInv
  <2>2. svid \in 0..MaxVid /\ MaxVid \in 0..MaxVid
    <3>1. svid \in 0..MaxVid
      BY <2>1 DEF TypeOK
    <3>2. MaxVid \in 0..MaxVid
      BY TransitionsAssumption
    <3> QED BY <3>1, <3>2
  <2>3. NewestUpTo(MaxVid, svid)
    BY <2>1, <2>2, TransitionsAssumption DEF NewestUpTo, RowInv
  <2>4. ClosedFold[MaxVid] = [state |-> OutcomeOf(svid), tier |-> TierOf(svid)]
    BY <2>1, <2>2, <2>3, ClosedFoldAt
  <2>5. Fold[MaxVid] = ClosedFold[MaxVid]
    BY <2>1, <2>2, FoldIsClosed
  <2> QED BY <2>1, <2>4, <2>5 DEF HistoryFolds, RowInv
<1> QED BY Invariant, <1>1, PTL
=============================================================================
