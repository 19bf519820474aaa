---------------------------- MODULE LadderProofs ----------------------------
(***************************************************************************)
(* Proofs about Ladder, for any candidates, weights, sizes, budget and top:   *)
(* its types, that a fetch keeps to its budget, that a loop does not fetch     *)
(* back what it swept, and that candidates put off for ever, when they are     *)
(* fewer than top, leave every plan a candidate that is not.                   *)
(***************************************************************************)
EXTENDS Ladder, FiniteSetTheorems, WellFoundedInduction, TLAPS

\* What a stage works on is what it read: candidates that wait, or survivors.
WorkInv == \A m \in todo : IF pc = "measuring" THEN place[m] = "screened" ELSE Queued(m)

\* What was swept stays rejected until the loop is over.
SweptInv ==
    /\ pc \in {"idle", "inspect", "retests", "disk"} => swept = {}
    /\ \A m \in swept : place[m] \in {"cold", "due"}
    /\ NotFetchedBack

\* The fetch counts all it downloads.
BudgetInv == spent = got /\ WithinBudget

\* Only a rejection with a retest left is due.
DueInv == \A m \in Models : place[m] = "due" => retests[m] < RETESTS

IInv == TypeOK /\ WorkInv /\ SweptInv /\ BudgetInv /\ DueInv
-----------------------------------------------------------------------------
(* The survivors.                                                            *)

\* A place that is not "screened", before and after, leaves the survivors alone.
LEMMA PlacedType ==
    ASSUME TypeOK, NEW m \in Models, NEW p \in Places, Placed(m, p), UNCHANGED surv,
           place[m] # "screened", p # "screened"
    PROVE  /\ place' \in [Models -> Places] /\ place'[m] = p
           /\ \A n \in Models : n # m => place'[n] = place[n]
           /\ \A n \in Models : place'[n] = "screened" <=> \E i \in DOMAIN surv' : surv'[i] = n
BY DEF TypeOK, Placed

LEMMA WithoutType ==
    ASSUME TypeOK, NEW m \in Models, place[m] = "screened", NEW p \in Places, p # "screened",
           Placed(m, p), surv' = Without(m)
    PROVE  /\ surv' \in Seq(Models)
           /\ \A i, j \in DOMAIN surv' : surv'[i] = surv'[j] => i = j
           /\ \A n \in Models : place'[n] = "screened" <=> \E i \in DOMAIN surv' : surv'[i] = n
<1> DEFINE at == CHOOSE i \in DOMAIN surv : surv[i] = m
           new == [i \in 1..(Len(surv) - 1) |-> IF i < at THEN surv[i] ELSE surv[i + 1]]
<1>1. surv' = new
  BY DEF Without
<1>2. at \in DOMAIN surv /\ surv[at] = m
  BY DEF TypeOK
<1>3. DOMAIN surv = 1..Len(surv) /\ Len(surv) \in Nat /\ \A i \in DOMAIN surv : surv[i] \in Models
  BY DEF TypeOK
<1>4. Len(surv) - 1 \in Nat
  BY <1>2, <1>3
<1> HIDE DEF at
<1>5. new \in Seq(Models) /\ DOMAIN new = 1..(Len(surv) - 1)
  <2>1. new \in [1..(Len(surv) - 1) -> Models]
    BY <1>2, <1>3
  <2> QED BY <2>1, <1>4
<1>6. \A i \in DOMAIN new : \E k \in DOMAIN surv : /\ new[i] = surv[k] /\ k # at
                                                  /\ k = IF i < at THEN i ELSE i + 1
  <2> TAKE i \in DOMAIN new
  <2>1. i \in 1..(Len(surv) - 1)
    BY <1>5
  <2>2. (IF i < at THEN i ELSE i + 1) \in DOMAIN surv
    BY <2>1, <1>2, <1>3
  <2>3. new[i] = surv[IF i < at THEN i ELSE i + 1]
    BY <2>1
  <2>4. (IF i < at THEN i ELSE i + 1) # at
    BY <2>1, <1>2, <1>3
  <2> QED BY <2>2, <2>3, <2>4
<1>7. /\ \A i, j \in DOMAIN new : new[i] = new[j] => i = j
      /\ \A i \in DOMAIN new : new[i] # m /\ \E j \in DOMAIN surv : new[i] = surv[j]
  <2> DEFINE k(i) == IF i < at THEN i ELSE i + 1
  <2>1. \A i \in DOMAIN new : k(i) \in DOMAIN surv /\ new[i] = surv[k(i)] /\ k(i) # at
    BY <1>6
  <2>2. \A i, j \in DOMAIN new : k(i) = k(j) => i = j
    BY <1>2, <1>3, <1>5
  <2>3. \A i, j \in DOMAIN surv : surv[i] = surv[j] => i = j
    BY DEF TypeOK
  <2> HIDE DEF k, new
  <2> QED BY <2>1, <2>2, <2>3, <1>2
<1>8. ASSUME NEW j \in DOMAIN surv, surv[j] # m PROVE \E i \in DOMAIN new : new[i] = surv[j]
  <2>1. CASE j < at
    <3>1. j \in DOMAIN new /\ new[j] = surv[j]
      BY <2>1, <1>2, <1>3, <1>5
    <3> QED BY <3>1
  <2>2. CASE j > at
    <3>1. j - 1 \in DOMAIN new /\ new[j - 1] = surv[j]
      BY <2>2, <1>2, <1>3, <1>5
    <3> QED BY <3>1
  <2> QED BY <2>1, <2>2, <1>2, <1>3, <1>8
<1>9. \A n \in Models : place'[n] = "screened" <=> place[n] = "screened" /\ n # m
  BY DEF Placed, TypeOK
<1> HIDE DEF new
<1>10. \A n \in Models : place'[n] = "screened" <=> \E i \in DOMAIN new : new[i] = n
  <2> TAKE n \in Models
  <2>1. CASE n = m
    BY <2>1, <1>7, <1>9
  <2>2. CASE n # m
    BY <2>2, <1>7, <1>8, <1>9 DEF TypeOK
  <2> QED BY <2>1, <2>2
<1> QED BY <1>1, <1>5, <1>7, <1>10

LEMMA AddedType ==
    ASSUME TypeOK, NEW m \in Models, place[m] # "screened",
           Placed(m, "screened"), surv' = <<m>> \o surv
    PROVE  /\ surv' \in Seq(Models)
           /\ \A i, j \in DOMAIN surv' : surv'[i] = surv'[j] => i = j
           /\ \A n \in Models : place'[n] = "screened" <=> \E i \in DOMAIN surv' : surv'[i] = n
<1>1. surv \in Seq(Models) /\ <<m>> \in Seq(Models) /\ Len(<<m>>) = 1 /\ Len(surv) \in Nat
  BY DEF TypeOK
<1>2. /\ surv' \in Seq(Models) /\ Len(surv') = Len(surv) + 1
      /\ surv'[1] = m /\ \A i \in 2..(Len(surv) + 1) : surv'[i] = surv[i - 1]
  BY <1>1
<1>3. /\ DOMAIN surv = 1..Len(surv) /\ DOMAIN surv' = 1..(Len(surv) + 1)
  BY <1>1, <1>2
<1>4. \A i \in DOMAIN surv : surv[i] # m
  BY DEF TypeOK
<1>5. \A i, j \in DOMAIN surv' : surv'[i] = surv'[j] => i = j
  <2> SUFFICES ASSUME NEW i \in DOMAIN surv', NEW j \in DOMAIN surv', surv'[i] = surv'[j]
               PROVE  i = j
    OBVIOUS
  <2>1. \A k \in DOMAIN surv' : k = 1 \/ (k - 1 \in DOMAIN surv /\ surv'[k] = surv[k - 1])
    BY <1>1, <1>2, <1>3
  <2>2. i = 1 <=> j = 1
    BY <2>1, <1>2, <1>4
  <2>3. CASE i # 1 /\ j # 1
    <3>1. surv[i - 1] = surv[j - 1] /\ i - 1 \in DOMAIN surv /\ j - 1 \in DOMAIN surv
      BY <2>1, <2>3
    <3>2. i - 1 = j - 1
      BY <3>1 DEF TypeOK
    <3> QED BY <3>2, <1>1, <1>3
  <2> QED BY <2>2, <2>3
<1>6. \A n \in Models : place'[n] = "screened" <=> \E i \in DOMAIN surv' : surv'[i] = n
  <2> TAKE n \in Models
  <2>1. place'[n] = "screened" <=> place[n] = "screened" \/ n = m
    BY DEF Placed, TypeOK
  <2>2. (\E i \in DOMAIN surv' : surv'[i] = n) <=> n = m \/ \E i \in DOMAIN surv : surv[i] = n
    <3>1. ASSUME NEW i \in DOMAIN surv, surv[i] = n PROVE i + 1 \in DOMAIN surv' /\ surv'[i + 1] = n
      BY <3>1, <1>1, <1>2, <1>3
    <3>2. ASSUME NEW i \in DOMAIN surv', surv'[i] = n
          PROVE  n = m \/ \E j \in DOMAIN surv : surv[j] = n
      <4>1. CASE i = 1
        BY <3>2, <4>1, <1>2
      <4>2. CASE i # 1
        <5>1. i - 1 \in DOMAIN surv /\ surv[i - 1] = n
          BY <3>2, <4>2, <1>1, <1>2, <1>3
        <5> QED BY <5>1
      <4> QED BY <4>1, <4>2
    <3>3. 1 \in DOMAIN surv'
      BY <1>1, <1>3
    <3> QED BY <3>1, <3>2, <3>3, <1>2
  <2> QED BY <2>1, <2>2 DEF TypeOK
<1> QED BY <1>2, <1>5, <1>6
-----------------------------------------------------------------------------
(* Types.                                                                    *)

\* A step that moves one waiting candidate of the stage, to another state than "screened".
Moves(m) == \/ InspectAnswers(m) \/ FetchDecides(m) \/ FetchLands(m)
            \/ ScreenPutsOff(m) \/ ScreenStops(m)

\* A step that leaves every candidate where it is.
Stays == \/ LoopStarts \/ Inspected \/ Sweep \/ SkipFetch \/ StartFetch \/ BasesDone \/ Fetched
         \/ ScreenPlan \/ Screened \/ LoopEnds \/ LoopDies
         \/ \E m \in Models : InspectPassesOver(m) \/ FetchFails(m) \/ MeasurePassesOver(m)

LEMMA CostType == ASSUME LadderAssumption, NEW m \in Models
                  PROVE  Cost(BaseOf[m] \ have) \in Nat
<1>1. PICK B \in {{}} \cup {{b} : b \in Bases} : BaseOf[m] = B
  BY DEF LadderAssumption
<1>2. CASE B \ have = {}
  BY <1>1, <1>2 DEF Cost
<1>3. CASE B \ have # {}
  <2>1. (CHOOSE b \in B \ have : TRUE) \in Bases
    BY <1>3
  <2> QED BY <1>1, <1>3, <2>1 DEF Cost, LadderAssumption
<1> QED BY <1>2, <1>3

\* What a base costs is in the budget.
LEMMA NeedsType ==
    ASSUME LadderAssumption, NEW m \in Models, NEW already \in Nat, already <= Budget,
           NEW n \in Needs(m, already)
    PROVE  /\ n.landed \subseteq Bases /\ n.cost \in Nat /\ already + n.cost <= Budget
<1> DEFINE missing == BaseOf[m] \ have
<1>1. Cost(missing) \in Nat
  BY CostType
<1>2. missing \subseteq Bases
  BY DEF LadderAssumption
<1>3. \/ n = [landed |-> {}, cost |-> 0, waits |-> FALSE]
      \/ n = [landed |-> {}, cost |-> 0, waits |-> TRUE]
      \/ /\ n = [landed |-> missing, cost |-> Cost(missing), waits |-> FALSE]
         /\ already + Cost(missing) <= Budget
  BY DEF Needs
<1>4. ASSUME n.landed = {}, n.cost = 0
      PROVE  n.landed \subseteq Bases /\ n.cost \in Nat /\ already + n.cost <= Budget
  BY <1>4 DEF LadderAssumption
<1>5. ASSUME n.landed = missing, n.cost = Cost(missing), already + Cost(missing) <= Budget
      PROVE  n.landed \subseteq Bases /\ n.cost \in Nat /\ already + n.cost <= Budget
  BY <1>1, <1>2, <1>5
<1> HIDE DEF missing
<1>6. CASE n = [landed |-> {}, cost |-> 0, waits |-> FALSE]
           \/ n = [landed |-> {}, cost |-> 0, waits |-> TRUE]
  <2>1. n.landed = {} /\ n.cost = 0
    BY <1>6
  <2> QED BY <2>1, <1>4
<1>7. CASE /\ n = [landed |-> missing, cost |-> Cost(missing), waits |-> FALSE]
           /\ already + Cost(missing) <= Budget
  <2>1. n.landed = missing /\ n.cost = Cost(missing)
    BY <1>7
  <2> QED BY <2>1, <1>5, <1>7
<1> QED BY <1>3, <1>6, <1>7

LEMMA TypeNext == ASSUME IInv, [Next]_vars PROVE TypeOK'
<1> USE LadderAssumption DEF IInv
<1>1. ASSUME Stays PROVE TypeOK'
  <2>1. todo' \subseteq Models
    <3>1. First(Ready) \subseteq Models /\ BaseWaits \subseteq Models /\ Fetchable \subseteq Models
      BY DEF First, Ready, Planned, BaseWaits, Fetchable
    <3>2. {surv[i] : i \in {j \in 1..Len(surv) : j <= Top}} \subseteq Models
      BY DEF TypeOK
    <3>3. todo \subseteq Models
      BY DEF TypeOK
    <3> QED BY <1>1, <3>1, <3>2, <3>3 DEF Stays, LoopStarts, Inspected, Sweep, SkipFetch, StartFetch,
                BasesDone, Fetched, ScreenPlan, Screened, LoopEnds, LoopDies, InspectPassesOver,
                FetchFails, MeasurePassesOver, Enter, Done
  <2>2. pc' \in Stages
    BY <1>1 DEF Stays, LoopStarts, Inspected, Sweep, SkipFetch, StartFetch, BasesDone, Fetched,
                ScreenPlan, Screened, LoopEnds, LoopDies, InspectPassesOver, FetchFails,
                MeasurePassesOver, Enter, Done, TypeOK, After, Stages
  <2>3. UNCHANGED candVars /\ slots' \in 0..Top /\ spent' \in Nat /\ got' \in Nat
        /\ deaths' \in 0..MaxDeaths /\ have' \subseteq Models \cup Bases /\ swept' \subseteq Models
    BY <1>1 DEF Stays, LoopStarts, Inspected, Sweep, SkipFetch, StartFetch, BasesDone, Fetched,
                ScreenPlan, Screened, LoopEnds, LoopDies, InspectPassesOver, FetchFails,
                MeasurePassesOver, candVars, histVars, loopVars, TypeOK, LadderAssumption
  <2> QED BY <2>1, <2>2, <2>3 DEF TypeOK, candVars
<1>2. ASSUME NEW m \in Models, Moves(m) PROVE TypeOK'
  <2>1. m \in todo /\ pc # "measuring"
    BY <1>2 DEF Moves, InspectAnswers, FetchDecides, FetchLands, ScreenPutsOff, ScreenStops, IsHead
  <2>2. place[m] # "screened"
    BY <2>1 DEF WorkInv, Queued, Queues
  <2>3. PICK p \in Places : p # "screened" /\ Placed(m, p)
    BY <1>2 DEF Moves, InspectAnswers, FetchDecides, FetchLands, ScreenPutsOff, ScreenStops, Places,
                Queues, Answers, Rejected
  <2>4. UNCHANGED <<surv, retests, judged, pc, swept, deaths>> /\ todo' \subseteq todo
    BY <1>2 DEF Moves, InspectAnswers, FetchDecides, FetchLands, ScreenPutsOff, ScreenStops, Done,
                histVars
  <2>5. slots' \in 0..Top /\ spent' \in Nat /\ got' \in Nat /\ have' \subseteq Models \cup Bases
    <3>1. CASE ~FetchLands(m)
      BY <1>2, <3>1 DEF Moves, InspectAnswers, FetchDecides, ScreenPutsOff, ScreenStops, histVars, TypeOK
    <3>2. CASE FetchLands(m)
      <4>1. spent + Size[m] \in Nat /\ spent + Size[m] <= Budget
        BY <3>2 DEF FetchLands, TypeOK, LadderAssumption
      <4>2. PICK n \in Needs(m, spent + Size[m]) :
                   /\ have' = have \cup {m} \cup n.landed
                   /\ spent' = spent + Size[m] + Charged(n) /\ got' = got + Size[m] + n.cost
        BY <3>2 DEF FetchLands
      <4>3. n.landed \subseteq Bases /\ n.cost \in Nat
        BY <4>1, NeedsType
      <4>4. slots > 0 /\ slots' = slots - 1
        BY <3>2 DEF FetchLands
      <4>5. slots \in 0..Top /\ got \in Nat /\ have \subseteq Models \cup Bases /\ Size[m] \in Nat
        BY DEF TypeOK, LadderAssumption
      <4>6. slots' \in 0..Top
        BY <4>4, <4>5 DEF LadderAssumption
      <4>7. spent' \in Nat /\ got' \in Nat
        BY <4>1, <4>2, <4>3, <4>5 DEF Charged
      <4>8. have' \subseteq Models \cup Bases
        BY <4>2, <4>3, <4>5
      <4> QED BY <4>6, <4>7, <4>8
    <3> QED BY <3>1, <3>2
  <2>6. /\ place' \in [Models -> Places]
        /\ \A n \in Models : place'[n] = "screened" <=> \E i \in DOMAIN surv' : surv'[i] = n
    BY <2>2, <2>3, <2>4, PlacedType
  <2> QED BY <2>4, <2>5, <2>6 DEF TypeOK
<1>3. ASSUME Retests PROVE TypeOK'
  <2>1. place' \in [Models -> Places] /\ \A m \in Models : place'[m] = "screened" <=> place[m] = "screened"
    BY <1>3 DEF Retests, TypeOK, Places, Queues
  <2>2. retests' \in [Models -> 0..RETESTS]
    BY <1>3 DEF Retests, TypeOK, DueInv, LadderAssumption
  <2>3. pc' \in Stages /\ todo' = {} /\ UNCHANGED <<judged, surv, have, slots, spent, histVars>>
    BY <1>3 DEF Retests, After, Enter, Stages
  <2> QED BY <2>1, <2>2, <2>3 DEF TypeOK, histVars
<1>4. ASSUME NEW m \in Models, FetchBase(m) PROVE TypeOK'
  <2>1. PICK n \in Needs(m, spent) :
               /\ have' = have \cup n.landed
               /\ spent' = spent + Charged(n) /\ got' = got + n.cost
               /\ IF n.waits THEN Placed(m, "fetch") ELSE UNCHANGED place
    BY <1>4 DEF FetchBase
  <2>2. n.landed \subseteq Bases /\ n.cost \in Nat
    BY NeedsType DEF TypeOK, BudgetInv, WithinBudget
  <2>3. place[m] # "screened" /\ todo' \subseteq todo
        /\ UNCHANGED <<retests, judged, surv, pc, slots, swept, deaths>>
    BY <1>4 DEF FetchBase, IsHead, WorkInv, Queued, Queues, Done
  <2>4. /\ place' \in [Models -> Places]
        /\ \A k \in Models : place'[k] = "screened" <=> \E i \in DOMAIN surv' : surv'[i] = k
    <3>1. CASE n.waits
      <4>1. "fetch" \in Places /\ Placed(m, "fetch") /\ UNCHANGED surv
        BY <2>1, <2>3, <3>1 DEF Places, Queues
      <4> QED BY <4>1, <2>3, PlacedType
    <3>2. CASE ~n.waits
      BY <2>1, <2>3, <3>2 DEF TypeOK
    <3> QED BY <3>1, <3>2
  <2>5. spent' \in Nat /\ got' \in Nat /\ have' \subseteq Models \cup Bases
    BY <2>1, <2>2 DEF TypeOK, Charged
  <2> QED BY <2>3, <2>4, <2>5 DEF TypeOK
<1>5. ASSUME NEW m \in Models, ScreenAnswers(m) PROVE TypeOK'
  <2>1. place[m] # "screened"
    BY <1>5 DEF ScreenAnswers, IsHead, WorkInv, Queued, Queues
  <2>2. /\ surv' \in Seq(Models)
        /\ \A i, j \in DOMAIN surv' : surv'[i] = surv'[j] => i = j
        /\ \A n \in Models : place'[n] = "screened" <=> \E i \in DOMAIN surv' : surv'[i] = n
    <3>1. CASE Placed(m, "screened") /\ surv' = <<m>> \o surv
      BY <2>1, <3>1, AddedType
    <3>2. CASE Placed(m, "fresh") /\ UNCHANGED surv
      <4>1. "fresh" \in Places
        BY DEF Places, Answers, Rejected
      <4> QED BY <2>1, <3>2, <4>1, PlacedType DEF TypeOK
    <3> QED BY <1>5, <3>1, <3>2 DEF ScreenAnswers
  <2>3. place' \in [Models -> Places]
    <3>1. "screened" \in Places /\ "fresh" \in Places
      BY DEF Places, Answers, Rejected
    <3>2. PICK p \in Places : Placed(m, p)
      BY <1>5, <3>1 DEF ScreenAnswers
    <3> QED BY <3>2 DEF Placed, TypeOK
  <2>4. todo' \subseteq todo /\ UNCHANGED <<retests, judged, have, pc, slots, spent, histVars>>
    BY <1>5 DEF ScreenAnswers, Done
  <2> QED BY <2>2, <2>3, <2>4 DEF TypeOK, histVars
<1>6. ASSUME NEW m \in Models, MeasureAnswers(m) \/ MeasureRefused(m) PROVE TypeOK'
  <2>1. place[m] = "screened" /\ surv' = Without(m)
    BY <1>6 DEF MeasureAnswers, MeasureRefused, WorkInv
  <2>2. PICK p \in Places : p # "screened" /\ Placed(m, p)
    BY <1>6 DEF MeasureAnswers, MeasureRefused, Places, Queues, Answers, Rejected
  <2>3. todo' \subseteq todo /\ UNCHANGED <<retests, judged, have, pc, slots, spent, histVars>>
    BY <1>6 DEF MeasureAnswers, MeasureRefused, Done
  <2>4. /\ surv' \in Seq(Models)
        /\ \A i, j \in DOMAIN surv' : surv'[i] = surv'[j] => i = j
        /\ \A n \in Models : place'[n] = "screened" <=> \E i \in DOMAIN surv' : surv'[i] = n
    BY <2>1, <2>2, WithoutType
  <2>5. place' \in [Models -> Places]
    BY <2>2 DEF Placed, TypeOK
  <2> QED BY <2>3, <2>4, <2>5 DEF TypeOK, histVars
<1>7. ASSUME NEW m \in Models, Day(m) \/ Week(m) \/ Judge(m) PROVE TypeOK'
  <2>1. PICK p \in Places : p # "screened" /\ place[m] # "screened" /\ Placed(m, p)
    BY <1>7 DEF Day, Week, Judge, Planned, Queued, Places, Queues, Answers, Rejected
  <2>2. UNCHANGED <<retests, surv, have, loopVars, histVars>> /\ judged' \subseteq Models
    BY <1>7 DEF Day, Week, Judge, TypeOK
  <2>3. /\ place' \in [Models -> Places]
        /\ \A n \in Models : place'[n] = "screened" <=> \E i \in DOMAIN surv' : surv'[i] = n
    BY <2>1, <2>2, PlacedType
  <2> QED BY <2>2, <2>3 DEF TypeOK, histVars, loopVars
<1>8. ASSUME UNCHANGED vars PROVE TypeOK'
  BY <1>8 DEF TypeOK, vars, candVars, loopVars, histVars
<1> QED BY <1>1, <1>2, <1>3, <1>4, <1>5, <1>6, <1>7, <1>8
        DEF Next, Loop, Fetch, Screen, Measure, Stays, Moves
-----------------------------------------------------------------------------
(* The other conjuncts.                                                      *)

\* Places change for one candidate at a time, but for the retests.
LEMMA OthersStay ==
    ASSUME TypeOK, NEW m \in Models, NEW p, Placed(m, p)
    PROVE  place'[m] = p /\ \A n \in Models : n # m => place'[n] = place[n]
BY DEF TypeOK, Placed

\* Every step but the retests moves no candidate, or one: of the stage's work, which then
\* leaves it, a base's candidate or one somebody else moves.
LEMMA Steps ==
    ASSUME IInv, [Next]_vars
    PROVE  \/ Retests
           \/ UNCHANGED place
           \/ \E m \in Models, p \in Places :
                 /\ Placed(m, p) /\ p # "due" /\ todo' \subseteq todo \ {m} /\ m \in todo
           \/ \E m \in Models : Day(m) \/ Week(m) \/ Judge(m)
<1>1. ASSUME NEW m \in Models, InspectAnswers(m) \/ FetchDecides(m) \/ FetchLands(m) \/ ScreenPutsOff(m)
                               \/ ScreenAnswers(m) \/ ScreenStops(m) \/ MeasureAnswers(m) \/ MeasureRefused(m)
      PROVE  \E p \in Places : Placed(m, p) /\ p # "due" /\ todo' \subseteq todo \ {m} /\ m \in todo
  <2>1. m \in todo /\ todo' \subseteq todo \ {m}
    BY <1>1 DEF InspectAnswers, FetchDecides, FetchLands, ScreenPutsOff, ScreenAnswers, ScreenStops,
                MeasureAnswers, MeasureRefused, IsHead, Done
  <2>2. \E p \in Places : Placed(m, p) /\ p # "due"
    BY <1>1 DEF InspectAnswers, FetchDecides, FetchLands, ScreenPutsOff, ScreenAnswers, ScreenStops,
                MeasureAnswers, MeasureRefused, Places, Queues, Answers, Rejected
  <2> QED BY <2>1, <2>2
<1>2. ASSUME NEW m \in Models, FetchBase(m)
      PROVE  \/ UNCHANGED place
             \/ \E p \in Places : Placed(m, p) /\ p # "due" /\ todo' \subseteq todo \ {m} /\ m \in todo
  <2>1. m \in todo /\ todo' \subseteq todo \ {m} /\ (UNCHANGED place \/ Placed(m, "fetch"))
    BY <1>2 DEF FetchBase, IsHead, Done
  <2> QED BY <2>1 DEF Places, Queues
<1>3. ASSUME Stays PROVE UNCHANGED place
  BY <1>3 DEF Stays, LoopStarts, Inspected, Sweep, SkipFetch, StartFetch, BasesDone, Fetched,
              ScreenPlan, Screened, LoopEnds, LoopDies, InspectPassesOver, FetchFails,
              MeasurePassesOver, candVars
<1>4. UNCHANGED vars => UNCHANGED place
  BY DEF vars, candVars
<1> QED BY <1>1, <1>2, <1>3, <1>4 DEF Next, Loop, Fetch, Screen, Measure, Stays

LEMMA DueNext == ASSUME IInv, [Next]_vars PROVE DueInv'
<1> USE DEF IInv
<1>1. CASE Retests
  BY <1>1 DEF Retests, TypeOK, DueInv
<1>2. ASSUME NEW m \in Models, Week(m) PROVE DueInv'
  BY <1>2, OthersStay DEF Week, DueInv
<1>3. CASE ~Retests /\ ~\E m \in Models : Week(m)
  <2>1. UNCHANGED retests
    BY <1>3 DEF Next, Loop, LoopStarts, Inspected, Sweep, SkipFetch, StartFetch, BasesDone, Fetched,
                ScreenPlan, Screened, LoopEnds, LoopDies, InspectPassesOver, FetchFails,
                MeasurePassesOver, InspectAnswers, FetchDecides, FetchLands, FetchBase, ScreenPutsOff,
                ScreenAnswers, ScreenStops, MeasureAnswers, MeasureRefused, Day, Judge, Fetch, Screen,
                Measure, candVars, vars
  <2>2. \A n \in Models : place'[n] = "due" => place[n] = "due"
    <3>1. ASSUME NEW m \in Models, NEW p, Placed(m, p), p # "due" PROVE <2>2
      BY <3>1, OthersStay
    <3>2. ASSUME NEW m \in Models, Day(m) \/ Judge(m) PROVE \E p : Placed(m, p) /\ p # "due"
      BY <3>2 DEF Day, Judge
    <3> QED BY <1>3, <3>1, <3>2, Steps
  <2> QED BY <2>1, <2>2 DEF DueInv
<1> QED BY <1>1, <1>2, <1>3

LEMMA WorkNext == ASSUME IInv, [Next]_vars PROVE WorkInv'
<1> USE DEF IInv
<1>1. CASE todo' = {}
  BY <1>1 DEF WorkInv
<1>2. ASSUME NEW m \in Models, NEW p, Placed(m, p), todo' \subseteq todo \ {m}, UNCHANGED pc PROVE WorkInv'
  <2>1. \A n \in todo' : n \in Models /\ place'[n] = place[n]
    BY <1>2, OthersStay DEF TypeOK
  <2> QED BY <1>2, <2>1 DEF WorkInv, Queued
<1>3. ASSUME UNCHANGED place, todo' \subseteq todo, UNCHANGED pc PROVE WorkInv'
  BY <1>3 DEF WorkInv, Queued
<1>4. ASSUME LoopStarts \/ StartFetch \/ BasesDone \/ ScreenPlan PROVE WorkInv'
  <2>1. UNCHANGED place /\ pc' # "measuring" /\ \A m \in todo' : m \in Models /\ Queued(m)
    BY <1>4 DEF LoopStarts, Listed, StartFetch, BasesDone, ScreenPlan, Enter, BaseWaits, Fetchable, First, Ready,
                Planned, Queued, Queues, candVars
  <2> QED BY <2>1 DEF WorkInv, Queued
<1>5. ASSUME Screened PROVE WorkInv'
  <2>1. UNCHANGED place /\ \A m \in todo' : \E i \in DOMAIN surv : surv[i] = m
    BY <1>5 DEF Screened, Enter, candVars, TypeOK
  <2>2. \A i \in DOMAIN surv : surv[i] \in Models
    BY DEF TypeOK
  <2>3. \A m \in todo' : place'[m] = "screened"
    BY <2>1, <2>2 DEF TypeOK
  <2>4. pc' = "measuring"
    BY <1>5 DEF Screened, Enter
  <2> QED BY <2>3, <2>4 DEF WorkInv
<1>6. ASSUME NEW m \in Models, Day(m) \/ Week(m) \/ Judge(m) PROVE WorkInv'
  <2>1. UNCHANGED <<pc, todo>>
    BY <1>6 DEF Day, Week, Judge, loopVars
  <2>2. CASE Judge(m)
    <3>1. Queued(m) /\ Placed(m, "judge")
      BY <2>2 DEF Judge, Planned
    <3>2. /\ pc = "measuring" => m \notin todo
          /\ place'[m] = "judge" /\ \A n \in Models : n # m => place'[n] = place[n]
      BY <3>1, OthersStay DEF WorkInv, Queued, Queues
    <3> QED BY <2>1, <3>2 DEF WorkInv, Queued, Queues, TypeOK
  <2>3. CASE Day(m) \/ Week(m)
    <3>1. m \notin todo
      BY <2>3 DEF Day, Week, WorkInv, Queued, Queues
    <3>2. \A n \in Models : n # m => place'[n] = place[n]
      BY <2>3, OthersStay DEF Day, Week
    <3> QED BY <2>1, <3>1, <3>2 DEF WorkInv, Queued, TypeOK
  <2> QED BY <1>6, <2>2, <2>3
<1>7. ASSUME NEW m \in Models, InspectAnswers(m) \/ FetchDecides(m) \/ FetchLands(m) \/ ScreenPutsOff(m)
                               \/ ScreenAnswers(m) \/ ScreenStops(m) \/ MeasureAnswers(m) \/ MeasureRefused(m)
      PROVE  WorkInv'
  <2>1. todo' \subseteq todo \ {m} /\ UNCHANGED pc /\ \E p : Placed(m, p)
    BY <1>7 DEF InspectAnswers, FetchDecides, FetchLands, ScreenPutsOff, ScreenAnswers, ScreenStops,
                MeasureAnswers, MeasureRefused, IsHead, Done
  <2> QED BY <2>1, <1>2
<1>8. ASSUME NEW m \in Models, FetchBase(m) PROVE WorkInv'
  <2>1. todo' \subseteq todo \ {m} /\ UNCHANGED pc /\ (UNCHANGED place \/ Placed(m, "fetch"))
    BY <1>8 DEF FetchBase, IsHead, Done
  <2> QED BY <2>1, <1>2, <1>3
<1>9. ASSUME NEW m \in Models, InspectPassesOver(m) \/ FetchFails(m) \/ MeasurePassesOver(m) PROVE WorkInv'
  <2>1. UNCHANGED <<place, pc>> /\ todo' \subseteq todo
    BY <1>9 DEF InspectPassesOver, FetchFails, MeasurePassesOver, Done, candVars
  <2> QED BY <2>1, <1>3
<1>10. ASSUME Inspected \/ Retests \/ Sweep \/ SkipFetch \/ Fetched \/ LoopEnds \/ LoopDies PROVE todo' = {}
  BY <1>10 DEF Inspected, Retests, Sweep, SkipFetch, Fetched, LoopEnds, LoopDies, Enter
<1>11. ASSUME UNCHANGED vars PROVE WorkInv'
  BY <1>11 DEF WorkInv, vars, candVars, loopVars, Queued
<1> QED BY <1>1, <1>4, <1>5, <1>6, <1>7, <1>8, <1>9, <1>10, <1>11 DEF Next, Loop, Fetch, Screen, Measure

LEMMA BudgetNext == ASSUME IInv, [Next]_vars PROVE BudgetInv'
<1> USE LadderAssumption DEF IInv
<1>1. ASSUME NEW m \in Models, FetchLands(m) PROVE BudgetInv'
  <2>1. spent + Size[m] \in Nat /\ spent + Size[m] <= Budget /\ spent = got
    BY <1>1 DEF FetchLands, TypeOK, LadderAssumption, BudgetInv
  <2>2. PICK n \in Needs(m, spent + Size[m]) :
               spent' = spent + Size[m] + Charged(n) /\ got' = got + Size[m] + n.cost
    BY <1>1 DEF FetchLands
  <2>3. n.cost \in Nat /\ spent + Size[m] + n.cost <= Budget
    BY <2>1, NeedsType
  <2> QED BY <2>1, <2>2, <2>3 DEF BudgetInv, WithinBudget, Charged
<1>2. ASSUME NEW m \in Models, FetchBase(m) PROVE BudgetInv'
  <2>1. spent \in Nat /\ spent <= Budget /\ spent = got
    BY DEF TypeOK, BudgetInv, WithinBudget
  <2>2. PICK n \in Needs(m, spent) : spent' = spent + Charged(n) /\ got' = got + n.cost
    BY <1>2 DEF FetchBase
  <2>3. n.cost \in Nat /\ spent + n.cost <= Budget
    BY <2>1, NeedsType
  <2> QED BY <2>1, <2>2, <2>3 DEF BudgetInv, WithinBudget, Charged
<1>3. ASSUME Fetched \/ LoopDies PROVE BudgetInv'
  BY <1>3 DEF Fetched, LoopDies, BudgetInv, WithinBudget, LadderAssumption
<1>4. ASSUME UNCHANGED <<spent, got>> PROVE BudgetInv'
  BY <1>4 DEF BudgetInv, WithinBudget
<1> QED BY <1>1, <1>2, <1>3, <1>4
        DEF Next, Loop, LoopStarts, Inspected, Retests, Sweep, SkipFetch, StartFetch, BasesDone,
            ScreenPlan, Screened, LoopEnds, InspectPassesOver, FetchFails, MeasurePassesOver,
            InspectAnswers, FetchDecides, ScreenPutsOff, ScreenAnswers, ScreenStops, MeasureAnswers,
            MeasureRefused, Day, Week, Judge, Fetch, Screen, Measure, histVars, loopVars, vars

LEMMA SweptNext == ASSUME IInv, [Next]_vars PROVE SweptInv'
<1> USE LadderAssumption DEF IInv
\* Who is swept stays where it is, but for the calendar.
<1>1. CASE swept' = swept
  <2>1. \A m \in swept : m \in Models /\ m \notin todo /\ place[m] \in {"cold", "due"}
    BY DEF SweptInv, WorkInv, TypeOK, Queued, Queues
  <2>2. \A m \in swept : place'[m] \in {"cold", "due"}
    <3>1. CASE Retests
      BY <3>1 DEF Retests, SweptInv
    <3>2. CASE UNCHANGED place
      BY <2>1, <3>2
    <3>3. ASSUME NEW m \in Models, NEW p \in Places, Placed(m, p), m \in todo PROVE <2>2
      BY <2>1, <3>3, OthersStay
    <3>4. ASSUME NEW m \in Models, Day(m) \/ Week(m) \/ Judge(m) PROVE <2>2
      <4>1. m \in swept => Placed(m, "due")
        BY <2>1, <3>4 DEF Day, Week, Judge, Planned, Queued, Queues
      <4>2. \E p : Placed(m, p)
        BY <3>4 DEF Day, Week, Judge
      <4> QED BY <2>1, <4>1, <4>2, OthersStay
    <3> QED BY <3>1, <3>2, <3>3, <3>4, Steps
  <2>3. NotFetchedBack'
    <3>1. ASSUME NEW m \in Models, FetchLands(m) PROVE swept \cap have' = {}
      <4>1. m \notin swept /\ spent + Size[m] \in Nat /\ spent + Size[m] <= Budget
        BY <2>1, <3>1 DEF FetchLands, IsHead, TypeOK, LadderAssumption
      <4>2. PICK n \in Needs(m, spent + Size[m]) : have' = have \cup {m} \cup n.landed
        BY <3>1 DEF FetchLands
      <4>3. n.landed \subseteq Bases
        BY <4>1, NeedsType
      <4> QED BY <2>1, <4>1, <4>2, <4>3 DEF SweptInv, NotFetchedBack, LadderAssumption
    <3>2. ASSUME NEW m \in Models, FetchBase(m) PROVE swept \cap have' = {}
      <4>1. PICK n \in Needs(m, spent) : have' = have \cup n.landed
        BY <3>2 DEF FetchBase
      <4>2. n.landed \subseteq Bases
        BY NeedsType DEF TypeOK, BudgetInv, WithinBudget
      <4> QED BY <2>1, <4>1, <4>2 DEF SweptInv, NotFetchedBack, LadderAssumption
    <3>3. CASE have' \subseteq have
      BY <1>1, <3>3 DEF SweptInv, NotFetchedBack
    <3>4. have' \subseteq have \/ \E m \in Models : FetchLands(m) \/ FetchBase(m)
      BY DEF Next, Loop, LoopStarts, Inspected, Retests, Sweep, SkipFetch, StartFetch, BasesDone, Fetched,
            ScreenPlan, Screened, LoopEnds, LoopDies, InspectPassesOver, FetchFails, MeasurePassesOver,
            InspectAnswers, FetchDecides, ScreenPutsOff, ScreenAnswers, ScreenStops, MeasureAnswers,
            MeasureRefused, Day, Week, Judge, Fetch, Screen, Measure, vars, candVars
    <3> QED BY <1>1, <3>1, <3>2, <3>3, <3>4 DEF NotFetchedBack
  <2>4. pc' \in {"idle", "inspect", "retests", "disk"} => swept' = {}
    <3>1. ASSUME pc' \in {"idle", "inspect", "retests", "disk"},
                 ~LoopEnds, ~LoopDies
          PROVE  pc \in {"idle", "inspect", "retests", "disk"}
      BY <3>1 DEF Next, Loop, LoopStarts, Inspected, Retests, Sweep, SkipFetch, StartFetch, BasesDone,
            Fetched, ScreenPlan, Screened, InspectPassesOver, FetchFails, MeasurePassesOver,
            InspectAnswers, FetchDecides, FetchLands, FetchBase, ScreenPutsOff, ScreenAnswers, ScreenStops,
            MeasureAnswers, MeasureRefused, Day, Week, Judge, Fetch, Screen, Measure, vars, loopVars, Enter,
            After
    <3>2. LoopEnds \/ LoopDies => swept' = {}
      BY DEF LoopEnds, LoopDies
    <3> QED BY <1>1, <3>1, <3>2 DEF SweptInv
  <2> QED BY <1>1, <2>2, <2>3, <2>4 DEF SweptInv
<1>2. CASE Sweep
  <2>1. PICK S \in {{}, {m \in have \cap Models : place[m] \in {"cold", "due"}}} :
               have' = have \ S /\ swept' = swept \cup S
    BY <1>2 DEF Sweep
  <2>2. swept = {} /\ pc' = "fetch" /\ UNCHANGED place
    BY <1>2 DEF Sweep, SweptInv, Enter, After, candVars
  <2>3. \A m \in S : place[m] \in {"cold", "due"}
    OBVIOUS
  <2> QED BY <2>1, <2>2, <2>3 DEF SweptInv, NotFetchedBack
<1>3. ASSUME LoopEnds \/ LoopDies PROVE swept' = {} /\ SweptInv'
  BY <1>3 DEF LoopEnds, LoopDies, SweptInv, NotFetchedBack
<1>4. swept' = swept \/ Sweep \/ LoopEnds \/ LoopDies
  BY DEF Next, Loop, LoopStarts, Inspected, Retests, SkipFetch, StartFetch, BasesDone, Fetched,
         ScreenPlan, Screened, InspectPassesOver, FetchFails, MeasurePassesOver,
         InspectAnswers, FetchDecides, FetchLands, FetchBase, ScreenPutsOff, ScreenAnswers, ScreenStops,
         MeasureAnswers, MeasureRefused, Day, Week, Judge, Fetch, Screen, Measure, vars, histVars
<1> QED BY <1>1, <1>2, <1>3, <1>4
-----------------------------------------------------------------------------
(* Theorems.                                                                 *)

LEMMA InitInv == Init => IInv
<1> SUFFICES ASSUME Init PROVE IInv
  OBVIOUS
<1> USE LadderAssumption DEF Init
<1>1. TypeOK
  BY DEF TypeOK, Places, Queues, Stages, LadderAssumption
<1>2. WorkInv /\ SweptInv /\ DueInv
  BY DEF WorkInv, SweptInv, NotFetchedBack, DueInv
<1>3. BudgetInv
  BY DEF BudgetInv, WithinBudget, LadderAssumption
<1> QED BY <1>1, <1>2, <1>3 DEF IInv

LEMMA NextInv == IInv /\ [Next]_vars => IInv'
BY TypeNext, WorkNext, SweptNext, BudgetNext, DueNext DEF IInv

LEMMA Inductive == Spec => []IInv
BY InitInv, NextInv, PTL DEF Spec

\* The types of the ladder; the survivors are the screened candidates, each once.
THEOREM TypeCorrect == Spec => []TypeOK
<1>1. IInv => TypeOK
  BY DEF IInv
<1> QED BY <1>1, Inductive, PTL

\* What one fetch downloads, candidates and bases together, keeps to --budget-gib
\* (fetching.run, _fetch_needs).
THEOREM FetchWithinBudget == Spec => []WithinBudget
<1>1. IInv => WithinBudget
  BY DEF IInv, BudgetInv
<1> QED BY <1>1, Inductive, PTL

\* What a loop's sweep removed is not on disk again before the loop is over
\* (commands/loop.py, retests before the disk).
THEOREM SweptStaysAway == Spec => []NotFetchedBack
<1>1. IInv => NotFetchedBack
  BY DEF IInv, SweptInv
<1> QED BY <1>1, Inductive, PTL

-----------------------------------------------------------------------------
(* Why a loop works through its backlog.                                     *)

\* Fewer candidates are put off for ever than a stage takes.
FewStuck == IsFiniteSet(Stuck) /\ Cardinality(Stuck) < Top

\* A fetch is skipped for its backlog only when the screen's plan then has a candidate that
\* is not stuck; and so has the plan of a screen whenever one is ready, and the plan of a
\* measurement whenever one survived.
PlansReachAble ==
    /\ SkipFetch /\ Fetchable # {} => First(Ready) \cap Able # {}
    /\ ScreenPlan /\ Ready \cap Able # {} => todo' \cap Able # {}
    /\ Screened /\ (\E m \in Able : place[m] = "screened") => todo' \cap Able # {}

\* A set of numbers has a smallest member.
LEMMA Smallest ==
    ASSUME NEW T \in SUBSET Nat, T # {}
    PROVE  \E x \in T : \A y \in T : x <= y
<1> DEFINE Less == {ss \in Nat \X Nat : ss[1] < ss[2]}
<1>1. IsWellFoundedOn(Less, Nat)
  BY NatLessThanWellFounded DEF OpToRel
<1>2. PICK x \in T : \A y \in T : ~(<<y, x>> \in Less)
  <2> HIDE DEF Less
  <2> QED BY <1>1, WFMin
<1>3. \A y \in T : ~(y < x)
  BY <1>2
<1> QED BY <1>3

\* Before the first candidate that is not stuck come only stuck ones, which are fewer than
\* top, so it is among the first top.
LEMMA FirstReachesAble ==
    ASSUME FewStuck, NEW S \in SUBSET Models, S \cap Able # {}
    PROVE  First(S) \cap Able # {}
<1> DEFINE T == {Rank[m] : m \in S \cap Able}
<1>1. T \in SUBSET Nat /\ T # {}
  BY LadderAssumption
<1>2. PICK x \in T : \A y \in T : x <= y
  <2> HIDE DEF T
  <2> QED BY <1>1, Smallest
<1>3. PICK m \in S \cap Able : Rank[m] = x
  OBVIOUS
<1>4. Before(m, S) \in SUBSET Stuck
  <2> SUFFICES ASSUME NEW n \in S, Rank[n] < Rank[m], n \notin Stuck PROVE FALSE
    BY DEF Before
  <2>1. n \in S \cap Able
    BY DEF Able
  <2>2. Rank[n] \in T /\ Rank[n] \in Nat /\ Rank[m] \in Nat
    BY <2>1, LadderAssumption
  <2>3. Rank[m] <= Rank[n]
    BY <1>2, <1>3, <2>2
  <2> QED BY <2>2, <2>3
<1>5. Cardinality(Before(m, S)) < Top
  <2>1. /\ IsFiniteSet(Before(m, S))
        /\ Cardinality(Before(m, S)) <= Cardinality(Stuck)
    BY <1>4, FS_Subset DEF FewStuck
  <2>2. Cardinality(Before(m, S)) \in Nat /\ Cardinality(Stuck) \in Nat
    BY <2>1, FS_CardinalityType DEF FewStuck
  <2> QED BY <2>1, <2>2, LadderAssumption DEF FewStuck
<1> QED BY <1>3, <1>5 DEF First

\* A set as large as top has a candidate that is not stuck.
LEMMA LargeHasAble ==
    ASSUME FewStuck, NEW S \in SUBSET Models, Cardinality(S) >= Top
    PROVE  S \cap Able # {}
<1> SUFFICES ASSUME S \subseteq Stuck PROVE FALSE
  BY DEF Able
<1>1. IsFiniteSet(S) /\ Cardinality(S) <= Cardinality(Stuck)
  BY FS_Subset DEF FewStuck
<1>2. Cardinality(S) \in Nat /\ Cardinality(Stuck) \in Nat
  BY <1>1, FS_CardinalityType DEF FewStuck
<1> QED BY <1>1, <1>2, LadderAssumption DEF FewStuck

\* Of the newest top survivors one is not stuck, when any is: a survivor is listed once.
LEMMA SurvivorsReachAble ==
    ASSUME TypeOK, FewStuck, NEW m \in Able, place[m] = "screened"
    PROVE  \E j \in 1..Len(surv) : j <= Top /\ surv[j] \in Able
<1>1. /\ Len(surv) \in Nat /\ DOMAIN surv = 1..Len(surv)
      /\ \A j \in 1..Len(surv) : surv[j] \in Models
  BY DEF TypeOK
<1>2. PICK i \in 1..Len(surv) : surv[i] = m
  BY <1>1 DEF TypeOK, Able
<1>3. Top \in Nat
  BY LadderAssumption
<1>4. CASE i <= Top
  BY <1>2, <1>4
<1>5. CASE ~(i <= Top)
  <2> SUFFICES ASSUME \A j \in 1..Len(surv) : j <= Top => surv[j] \notin Able
               PROVE  FALSE
    OBVIOUS
  <2> DEFINE f == [j \in 1..Top |-> surv[j]]
  <2>1. 1..Top \subseteq 1..Len(surv)
    BY <1>1, <1>3, <1>5
  <2>2. f \in [1..Top -> Stuck]
    BY <2>1, <1>1, <1>3 DEF Able
  <2>3. \A x, y \in 1..Top : f[x] = f[y] => x = y
    BY <2>1, <1>1 DEF TypeOK
  <2>4. IsFiniteSet(1..Top) /\ Cardinality(1..Top) = Top
    BY <1>3, LadderAssumption, FS_Interval
  <2> HIDE DEF f
  <2>5. \E x, y \in 1..Top : x # y /\ f[x] = f[y]
    BY <2>2, <2>4, FS_PigeonHole DEF FewStuck
  <2> QED BY <2>3, <2>5
<1> QED BY <1>4, <1>5

\* rank.py:205, loops work through a backlog: as long as fewer than top candidates are put
\* off for ever, they keep the rest out of no stage's plan, whatever their rank.
THEOREM BacklogMoves ==
    ASSUME FewStuck
    PROVE  Spec => [][PlansReachAble]_vars
<1>1. ASSUME TypeOK PROVE PlansReachAble
  <2>1. Ready \in SUBSET Models /\ Backlog \in SUBSET Models
    BY DEF Ready, Planned, Backlog
  <2>2. SkipFetch /\ Fetchable # {} => First(Ready) \cap Able # {}
    BY <2>1, LargeHasAble, FirstReachesAble DEF SkipFetch, Backlog
  <2>3. ScreenPlan /\ Ready \cap Able # {} => todo' \cap Able # {}
    BY <2>1, FirstReachesAble DEF ScreenPlan, Enter
  <2>4. ASSUME Screened, NEW m \in Able, place[m] = "screened" PROVE todo' \cap Able # {}
    <3>1. PICK j \in 1..Len(surv) : j <= Top /\ surv[j] \in Able
      BY <1>1, <2>4, SurvivorsReachAble
    <3>2. surv[j] \in todo'
      BY <2>4, <3>1 DEF Screened, Enter
    <3> QED BY <3>1, <3>2
  <2> QED BY <2>2, <2>3, <2>4 DEF PlansReachAble
<1>2. TypeOK /\ [Next]_vars => PlansReachAble
  BY <1>1
<1> QED BY <1>2, TypeCorrect, PTL DEF Spec
=============================================================================
