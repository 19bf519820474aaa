------------------------------- MODULE Ladder -------------------------------
(***************************************************************************)
(* `soh discover --loop --run` on one machine: what the sweep found is        *)
(* inspected, due retests are reopened, the disk is swept, weights are        *)
(* fetched, what is on disk is screened, and survivors are measured against   *)
(* the lane's incumbent, loop after loop (harness/commands/loop.py and the    *)
(* tiers it calls).  Beside it somebody may run the judge.                    *)
(*                                                                         *)
(* The whole loop is one process: a stage reads what it works on once, when   *)
(* it starts.  Weights are in MODULE Weights and the rules of a verdict in    *)
(* MODULE Transitions; here a verdict is a candidate's place on the ladder.   *)
(***************************************************************************)
EXTENDS Naturals, Sequences, FiniteSets

CONSTANTS
    Models,    \* candidates
    Stuck,     \* candidates a tier may put off for ever: no memory, no harness, no control
    Rank,      \* Rank[m]: its place in rank order
    Bases,     \* weights only a runner loads
    BaseOf,    \* BaseOf[m]: the base m's runner loads beside it, if any
    Size,      \* Size[r]: bytes of a candidate or a base
    Budget,    \* --budget-gib
    Top,       \* --top
    Window,    \* waiting candidates an inspection lists: LOOP_INSPECT * 5
    RETESTS,   \* retests a rejection gets
    Renewable, \* candidates whose rejections carry no `until`
    Judgeable, \* bound: candidates a judge scores
    MaxDeaths  \* bound: loops that died

ASSUME LadderAssumption ==
    /\ Stuck \subseteq Models /\ Models \cap Bases = {}
    /\ Rank \in [Models -> Nat] /\ BaseOf \in [Models -> {{}} \cup {{b} : b \in Bases}]
    /\ Size \in [Models \cup Bases -> Nat \ {0}]
    /\ Budget \in Nat /\ Top \in Nat \ {0} /\ RETESTS \in Nat
    /\ Window \in Nat \ {0}
    /\ Renewable \subseteq Models /\ Judgeable \subseteq Models /\ MaxDeaths \in Nat

VARIABLES
    place,    \* a candidate's place on the ladder
    retests,  \* retests it has had
    judged,   \* candidates with a judge verdict
    have,     \* weights on disk
    surv,     \* screened candidates, the newest first
    pc,       \* the stage of the loop
    todo,     \* what the stage has left to do
    slots,    \* downloads the fetch may still make
    spent,    \* bytes the fetch counts as downloaded
    got,      \* history: bytes it has downloaded
    swept,    \* history: weights the loop's sweep removed
    deaths

candVars == <<place, retests, judged, surv>>
loopVars == <<pc, todo, slots, spent>>
histVars == <<got, swept, deaths>>
vars == <<candVars, have, loopVars, histVars>>

\* "new": swept and not inspected; queued at the tier that last wrote ("screen": there or
\* later); screened; measured; "refused": declined or broken before its weights were
\* fetched; rejected since, for less than 24 h, for longer, or for a week with a retest left.
Queues   == {"new", "inspect", "judge", "fetch", "screen"}
Rejected == {"fresh", "cold", "due"}
Answers  == {"measured", "refused"} \cup Rejected
Places   == Queues \cup {"screened"} \cup Answers

Stages == {"idle", "inspect", "retests", "disk", "fetch", "bases", "fetching", "screen",
           "screening", "measure", "measuring"}

TypeOK ==
    /\ place \in [Models -> Places] /\ retests \in [Models -> 0..RETESTS]
    /\ judged \subseteq Models /\ have \subseteq Models \cup Bases
    /\ pc \in Stages /\ todo \subseteq Models
    /\ slots \in 0..Top /\ spent \in Nat /\ got \in Nat
    /\ swept \subseteq Models /\ deaths \in 0..MaxDeaths
    /\ surv \in Seq(Models)
    /\ \A i, j \in DOMAIN surv : surv[i] = surv[j] => i = j
    /\ \A m \in Models : place[m] = "screened" <=> \E i \in DOMAIN surv : surv[i] = m

Init ==
    /\ place = [m \in Models |-> "new"] /\ retests = [m \in Models |-> 0]
    /\ judged = {} /\ have = {} /\ surv = <<>>
    /\ pc = "idle" /\ todo = {} /\ slots = 0 /\ spent = 0 /\ got = 0 /\ swept = {} /\ deaths = 0

Queued(m) == place[m] \in Queues
\* Candidates of S that come before m.
Before(m, S) == {n \in S : Rank[n] < Rank[m]}
IsHead(m) == m \in todo /\ Before(m, todo) = {}
First(S) == {m \in S : Cardinality(Before(m, S)) < Top}

Placed(m, p) == place' = [place EXCEPT ![m] = p]
Done(m) == todo' = todo \ {m}
Enter(stage, work) == pc' = stage /\ todo' = work

-----------------------------------------------------------------------------
(* inspect: of the candidates that wait, whatever tier queued them, a window  *)
(* of the most sighted ones is answered again.                               *)

\* pending takes Window of those that wait, or all of them.  How often a feed has
\* sighted which candidate is not in the model: the window may be any that size.
Listed(W) ==
    LET Q == {m \in Models : Queued(m)}
    IN  /\ W \subseteq Q
        /\ Cardinality(W) = IF Cardinality(Q) < Window THEN Cardinality(Q) ELSE Window

LoopStarts ==
    /\ pc = "idle"
    /\ \E W \in SUBSET Models : Listed(W) /\ Enter("inspect", W)
    /\ UNCHANGED <<candVars, have, slots, spent, histVars>>

InspectAnswers(m) ==
    /\ pc = "inspect" /\ IsHead(m)
    /\ \E p \in {"inspect", "refused"} : Placed(m, p)
    /\ Done(m)
    /\ UNCHANGED <<retests, judged, surv, have, pc, slots, spent, histVars>>

\* The registry does not answer, or the source does not say.
InspectPassesOver(m) ==
    /\ pc = "inspect" /\ IsHead(m)
    /\ Done(m)
    /\ UNCHANGED <<candVars, have, pc, slots, spent, histVars>>

\* Mutant: the disk swept before the retests.
MutantSweepFirst(stage) == CASE stage = "inspect" -> "disk" [] stage = "disk" -> "retests"
                             [] stage = "retests" -> "fetch"

\* The order of the spending stages.
After(stage) == CASE stage = "inspect" -> "retests" [] stage = "retests" -> "disk"
                  [] stage = "disk" -> "fetch"

Inspected ==
    /\ pc = "inspect" /\ todo = {}
    /\ Enter(After("inspect"), {})
    /\ UNCHANGED <<candVars, have, slots, spent, histVars>>

-----------------------------------------------------------------------------
(* retests and disk.                                                         *)

Retests ==
    /\ pc = "retests"
    /\ place' = [m \in Models |-> IF place[m] = "due" THEN "inspect" ELSE place[m]]
    /\ retests' = [m \in Models |-> IF place[m] = "due" THEN retests[m] + 1 ELSE retests[m]]
    /\ Enter(After("retests"), {})
    /\ UNCHANGED <<judged, surv, have, slots, spent, histVars>>

\* disk.sweep removes what was rejected more than 24 h ago, or skips.
Sweep ==
    /\ pc = "disk"
    /\ \E S \in {{}, {m \in have \cap Models : place[m] \in {"cold", "due"}}} :
          have' = have \ S /\ swept' = swept \cup S
    /\ Enter(After("disk"), {})
    /\ UNCHANGED <<candVars, slots, spent, got, deaths>>

-----------------------------------------------------------------------------
(* fetch.                                                                    *)

\* judgeable and ready: queued, past inspect, without a judge's score, and on disk with
\* all its runner loads.
Planned == {m \in Models : Queued(m) /\ place[m] # "new" /\ m \notin judged}
Ready == {m \in Planned : m \in have /\ BaseOf[m] \subseteq have}

\* fetching.queued and _on_disk_waiting.
Fetchable == {m \in Models : place[m] \in {"inspect", "fetch"} /\ m \notin have}
BaseWaits == {m \in Models : Queued(m) /\ m \in have /\ ~(BaseOf[m] \subseteq have)}

\* Mutant: a backlog of what is planned, on disk or not.
MutantBacklog == Planned

\* What a backlog is counted from; room is asked of each of them.
Backlog == Ready

SkipFetch ==
    /\ pc = "fetch"
    /\ \/ Cardinality(Backlog) >= Top
       \/ Fetchable = {}
    /\ Enter("screen", {})
    /\ UNCHANGED <<candVars, have, slots, spent, histVars>>

\* The backlog is short, or has no room now.
StartFetch ==
    /\ pc = "fetch"
    /\ Fetchable # {}
    /\ Enter("bases", BaseWaits)
    /\ slots' = Top
    /\ UNCHANGED <<candVars, have, spent, histVars>>

Cost(S) == IF S = {} THEN 0 ELSE Size[CHOOSE b \in S : TRUE]

\* _fetch_needs with `already` bytes spent: what landed, what it cost, and whether the
\* candidate is left waiting.
Needs(m, already) ==
    LET missing == BaseOf[m] \ have IN
    IF missing = {} THEN {[landed |-> {}, cost |-> 0, waits |-> FALSE]}
    ELSE {[landed |-> {}, cost |-> 0, waits |-> TRUE]}
         \cup (IF already + Cost(missing) <= Budget
               THEN {[landed |-> missing, cost |-> Cost(missing), waits |-> FALSE]} ELSE {})

\* Mutant: the cost of a base not added to what the run has spent.
MutantFreeBase(n) == 0

\* What needs_of returns to run.
Charged(n) == n.cost

\* A candidate on disk before this run, whose base is missing.
FetchBase(m) ==
    /\ pc = "bases" /\ IsHead(m)
    /\ \E n \in Needs(m, spent) :
          /\ have' = have \cup n.landed
          /\ spent' = spent + Charged(n) /\ got' = got + n.cost
          /\ IF n.waits THEN Placed(m, "fetch") ELSE UNCHANGED place
    /\ Done(m)
    /\ UNCHANGED <<retests, judged, surv, pc, slots, swept, deaths>>

BasesDone ==
    /\ pc = "bases" /\ todo = {}
    /\ Enter("fetching", Fetchable)
    /\ UNCHANGED <<candVars, have, slots, spent, histVars>>

\* Decided without a download: no runtime, an attachment or over the cap; no runner, a
\* file fetched by hand, no measured size, the disk's floor or the budget.
FetchDecides(m) ==
    /\ pc = "fetching" /\ IsHead(m)
    /\ \/ Placed(m, "refused")
       \/ m \in Stuck /\ Placed(m, "fetch")
       \/ slots > 0 /\ spent + Size[m] > Budget /\ Placed(m, "fetch")
    /\ Done(m)
    /\ UNCHANGED <<retests, judged, surv, have, pc, slots, spent, histVars>>

\* A download that fails is no verdict.
FetchFails(m) ==
    /\ pc = "fetching" /\ IsHead(m) /\ slots > 0 /\ spent + Size[m] <= Budget
    /\ Done(m)
    /\ UNCHANGED <<candVars, have, pc, slots, spent, histVars>>

FetchLands(m) ==
    /\ pc = "fetching" /\ IsHead(m) /\ slots > 0 /\ spent + Size[m] <= Budget
    /\ \E n \in Needs(m, spent + Size[m]) :
          /\ have' = have \cup {m} \cup n.landed
          /\ spent' = spent + Size[m] + Charged(n) /\ got' = got + Size[m] + n.cost
    /\ Placed(m, "fetch")
    /\ slots' = slots - 1
    /\ Done(m)
    /\ UNCHANGED <<retests, judged, surv, pc, swept, deaths>>

\* Through the list, or out of downloads at one that would be downloaded.
Fetched ==
    /\ pc = "fetching" /\ (todo = {} \/ slots = 0)
    /\ Enter("screen", {})
    /\ slots' = 0 /\ spent' = 0 /\ got' = 0
    /\ UNCHANGED <<candVars, have, swept, deaths>>

-----------------------------------------------------------------------------
(* screen and measure.                                                       *)

ScreenPlan ==
    /\ pc = "screen"
    /\ Enter("screening", First(Ready))
    /\ UNCHANGED <<candVars, have, slots, spent, histVars>>

\* It ran: it passed something, or was rejected.
ScreenAnswers(m) ==
    /\ pc = "screening" /\ IsHead(m)
    /\ \/ Placed(m, "screened") /\ surv' = <<m>> \o surv
       \/ Placed(m, "fresh") /\ UNCHANGED surv
    /\ Done(m)
    /\ UNCHANGED <<retests, judged, have, pc, slots, spent, histVars>>

\* No room now, the screen did not start, or the harness could not deliver the request.
ScreenPutsOff(m) ==
    /\ pc = "screening" /\ IsHead(m)
    /\ Placed(m, "screen")
    /\ Done(m)
    /\ UNCHANGED <<retests, judged, surv, have, pc, slots, spent, histVars>>

\* The server died under it, or the GPU faulted: the rest are not screened.
ScreenStops(m) ==
    /\ pc = "screening" /\ IsHead(m)
    /\ \E p \in {"screen", "fresh"} : Placed(m, p)
    /\ todo' = {}
    /\ UNCHANGED <<retests, judged, surv, have, pc, slots, spent, histVars>>

Screened ==
    /\ pc = "screening" /\ todo = {}
    /\ Enter("measuring", {surv[i] : i \in {j \in 1..Len(surv) : j <= Top}})
    /\ UNCHANGED <<candVars, have, slots, spent, histVars>>

\* Mutant: a measured candidate still among the survivors.
MutantKept(m) == surv

\* survivors, once m has another state.
Without(m) ==
    LET at == CHOOSE i \in DOMAIN surv : surv[i] = m
    IN  [i \in 1..(Len(surv) - 1) |-> IF i < at THEN surv[i] ELSE surv[i + 1]]
IsNewest(m) == \E i \in 1..Len(surv) : surv[i] = m /\ \A j \in 1..(i - 1) : surv[j] \notin todo

\* Measured beside the incumbent: adopted, or not.
MeasureAnswers(m) ==
    /\ pc = "measuring" /\ m \in todo /\ IsNewest(m)
    /\ \E p \in {"measured", "fresh"} : Placed(m, p)
    /\ surv' = Without(m)
    /\ Done(m)
    /\ UNCHANGED <<retests, judged, have, pc, slots, spent, histVars>>

\* Every case was refused before it reached a model, or it won on an engine that cannot
\* enforce the lane's schema: queued again.
MeasureRefused(m) ==
    /\ pc = "measuring" /\ m \in todo /\ IsNewest(m)
    /\ Placed(m, "screen")
    /\ surv' = Without(m)
    /\ Done(m)
    /\ UNCHANGED <<retests, judged, have, pc, slots, spent, histVars>>

\* No incumbent, no receipt, no rows or a control that passed nothing: no verdict.
MeasurePassesOver(m) ==
    /\ pc = "measuring" /\ m \in todo /\ IsNewest(m)
    /\ Done(m)
    /\ UNCHANGED <<candVars, have, pc, slots, spent, histVars>>

LoopEnds ==
    /\ pc = "measuring" /\ todo = {}
    /\ Enter("idle", {})
    /\ swept' = {}
    /\ UNCHANGED <<candVars, have, slots, spent, got, deaths>>

\* An exception ends the loop, or it is killed; the next one starts afresh.
LoopDies ==
    /\ pc # "idle" /\ deaths < MaxDeaths
    /\ deaths' = deaths + 1
    /\ Enter("idle", {})
    /\ slots' = 0 /\ spent' = 0 /\ got' = 0 /\ swept' = {}
    /\ UNCHANGED <<candVars, have>>

-----------------------------------------------------------------------------
(* Time, and the judge.                                                      *)

Day(m) ==
    /\ place[m] = "fresh"
    /\ Placed(m, "cold")
    /\ UNCHANGED <<retests, judged, surv, have, loopVars, histVars>>

Week(m) ==
    /\ place[m] = "cold" /\ m \in Renewable /\ retests[m] < RETESTS
    /\ Placed(m, "due")
    /\ UNCHANGED <<retests, judged, surv, have, loopVars, histVars>>

\* `soh discover --judge-store`.
Judge(m) ==
    /\ m \in Planned \cap Judgeable
    /\ Placed(m, "judge")
    /\ judged' = judged \cup {m}
    /\ UNCHANGED <<retests, surv, have, loopVars, histVars>>

Fetch(m) == FetchBase(m) \/ FetchDecides(m) \/ FetchFails(m) \/ FetchLands(m)
Screen(m) == ScreenAnswers(m) \/ ScreenPutsOff(m) \/ ScreenStops(m)
Measure(m) == MeasureAnswers(m) \/ MeasureRefused(m) \/ MeasurePassesOver(m)

Loop == \/ LoopStarts \/ Inspected \/ Retests \/ Sweep \/ SkipFetch \/ StartFetch \/ BasesDone
        \/ Fetched \/ ScreenPlan \/ Screened \/ LoopEnds
        \/ \E m \in Models : \/ InspectAnswers(m) \/ InspectPassesOver(m)
                             \/ Fetch(m) \/ Screen(m) \/ Measure(m)

Next == \/ Loop \/ LoopDies
        \/ \E m \in Models : Day(m) \/ Week(m) \/ Judge(m)

Spec == Init /\ [][Next]_vars

\* Candidates that are not stuck.
Able == Models \ Stuck

\* The loop runs and is run again.  What a stage asks of the world for candidates that
\* are not stuck is granted for one of them if it is asked often enough: an inspection
\* of a new one, a download, a screen, a measurement.  No candidate stops every screen.
Fairness ==
    /\ WF_vars(Loop)
    /\ SF_vars(\E m \in Models : ScreenAnswers(m) \/ ScreenPutsOff(m))
    /\ SF_vars(\E m \in Able : place[m] = "new" /\ InspectAnswers(m))
    /\ SF_vars(\E m \in Able : FetchLands(m))
    /\ SF_vars(\E m \in Able : ScreenAnswers(m))
    /\ SF_vars(\E m \in Able : MeasureAnswers(m))

FairSpec == Spec /\ Fairness

-----------------------------------------------------------------------------
(* Properties.                                                               *)

\* --budget-gib caps what one fetch downloads, candidates and the bases their runners
\* load together (fetching.run, #215); what a config names beside them is not counted.
WithinBudget == got <= Budget

\* A loop does not fetch again what it has swept: a due retest reopens its candidate
\* before the sweep (loop.py:306).
NotFetchedBack == swept \cap have = {}

Waiting(m) == Queued(m) \/ place[m] = "screened"

\* Candidates that may stay in the queue for ever, when they are enough to fill the
\* window: pending may then list no other one, loop after loop.
Lingers(m) == Queued(m) /\ (m \in Stuck \/ m \in judged \/ m \in BaseWaits)
Crowded == Cardinality({m \in Models : Lingers(m)}) >= Window

\* rank.py:205, loops work through a backlog: fewer than Top candidates that are put off
\* for ever keep no other one from an answer, whatever their rank, unless a judge scored
\* it, or it is on disk and its base is not, or it was never inspected and those that stay
\* in the queue can fill the window of the inspection.
Answered ==
    \A m \in Able :
        Waiting(m) ~> \/ place[m] \in Answers \/ m \in judged \/ m \in BaseWaits
                      \/ place[m] = "new" /\ Crowded
=============================================================================
