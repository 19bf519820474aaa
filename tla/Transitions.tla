---------------------------- MODULE Transitions ----------------------------
(***************************************************************************)
(* A proposal's state and the one writer that moves it: decide and _write    *)
(* of harness/memory_store/transitions.py, with the two callers that reopen  *)
(* a decided proposal (memory_store/retests.py and revisit.py).              *)
(*                                                                         *)
(* Tiers on several machines write to one store.  A write reads the verdict  *)
(* that holds the state, inserts its own and moves the state only if the     *)
(* same verdict still holds it; otherwise it takes its row back and tries    *)
(* again.  From the UPDATE that moves the state to the commit the row is     *)
(* locked, so that part is one step; a transaction that dies leaves nothing. *)
(* Proposals do not share rows, so one proposal is modelled.                 *)
(***************************************************************************)
EXTENDS Naturals, FiniteSets

CONSTANTS
    Writers,   \* processes that write verdicts on the proposal
    Tiers,     \* the tiers taking part
    RETESTS,   \* how often a rejection may be asked again
    Tries,     \* how often _write tries
    MaxVid     \* bound: verdict ids ever assigned

INSPECT == "inspect"
SCREEN == "screen"
ADOPT == "adopt"
TierNames == {"inspect", "judge", "fetch", "screen", "measure", "adopt"}
LADDER == [inspect |-> 0, judge |-> 1, fetch |-> 2, screen |-> 3, measure |-> 4, adopt |-> 5]
TERMINAL == {"measured", "declined", "broken", "ignored"}
WAYPOINTS == {"queued", "screened"}
VERDICTS == TERMINAL \cup WAYPOINTS
Kinds == {"", "retraction", "retest"}         \* "": not a reopen
RETESTED == {"broken", "declined"}            \* REOPENS["retest"]
RETEST_TIERS == {SCREEN, "measure", ADOPT}

ASSUME TransitionsAssumption ==
    /\ Tiers \subseteq TierNames
    /\ RETESTS \in Nat /\ Tries \in Nat \ {0} /\ MaxVid \in Nat

Ids == 1..MaxVid

\* A verdict to write: what outcome, by which tier, whether it waits on an `until`
\* condition, and which kind of reopen it is.
Requests == [outcome : VERDICTS, tier : TierNames, until : BOOLEAN, reopen : Kinds]

\* A verdict row also names the verdict it reopens; NoRow: no such id.
Rows == [outcome : VERDICTS, tier : TierNames, until : BOOLEAN, reopen : Kinds, reopens : 0..MaxVid]
NoRow == [outcome |-> "", tier |-> "", until |-> FALSE, reopen |-> "", reopens |-> 0]

\* What each tier writes about a proposal, a failed run as its failure class says.
InspectOutcomes == {"queued", "declined", "broken", "ignored"}
JudgeOutcomes == {"queued"}
FetchOutcomes == {"queued", "declined"}
ScreenOutcomes == {"queued", "screened", "declined", "broken"}
MeasureOutcomes == {"measured"}
AdoptOutcomes == {"queued", "measured", "declined", "broken"}
Outcomes ==
    [inspect |-> InspectOutcomes, judge |-> JudgeOutcomes, fetch |-> FetchOutcomes,
     screen |-> ScreenOutcomes, measure |-> MeasureOutcomes, adopt |-> AdoptOutcomes]

\* Which of them may name a condition that would end the refusal.  (One on a
\* waypoint is never looked at.)
Waits(t, o) == IF t \in {"inspect", "fetch", "screen"} /\ o = "declined" THEN BOOLEAN ELSE {FALSE}

TierRequests ==
    {r \in Requests : /\ r.tier \in Tiers /\ r.outcome \in Outcomes[r.tier]
                      /\ r.until \in Waits(r.tier, r.outcome) /\ r.reopen = ""}

\* reopen_due_retests and retract: back to queued at inspect.
Reopening(kind) == [outcome |-> "queued", tier |-> INSPECT, until |-> FALSE, reopen |-> kind]

VARIABLES
    verdict,   \* the verdicts table: id -> row
    svid,      \* proposals.state_verdict_id; 0: NULL
    state,     \* proposals.state
    retests,   \* proposals.retest_count
    due,       \* proposals.next_retest_at is set
    nextVid,   \* the id the store assigns next
    pc,        \* a writer's place in _write
    req,       \* the verdict it writes
    held,      \* the id of the verdict it read as holding the state
    vid,       \* the id of the row it inserted
    tries      \* its round of _write's loop

rowVars == <<verdict, svid, state, retests, due>>
wVars == <<pc, req, held, vid, tries>>
vars == <<rowVars, nextVid, wVars>>

Nothing == [outcome |-> "queued", tier |-> INSPECT, until |-> FALSE, reopen |-> ""]
PCs == {"idle", "read", "insert", "move"}

TypeOK ==
    /\ verdict \in [Ids -> Rows \cup {NoRow}]
    /\ svid \in 0..MaxVid
    /\ state \in VERDICTS \cup {""}
    /\ retests \in Nat
    /\ due \in BOOLEAN
    /\ nextVid \in 1..(MaxVid + 1)
    /\ pc \in [Writers -> PCs]
    /\ req \in [Writers -> Requests]
    /\ held \in [Writers -> 0..MaxVid]
    /\ vid \in [Writers -> 0..MaxVid]
    /\ tries \in [Writers -> 0..(Tries - 1)]

Init ==
    /\ verdict = [i \in Ids |-> NoRow]
    /\ svid = 0 /\ state = "" /\ retests = 0 /\ due = FALSE
    /\ nextVid = 1
    /\ pc = [w \in Writers |-> "idle"]
    /\ req = [w \in Writers |-> Nothing]
    /\ held = [w \in Writers |-> 0]
    /\ vid = [w \in Writers |-> 0]
    /\ tries = [w \in Writers |-> 0]

-----------------------------------------------------------------------------
\* The tier of the verdict with this id, '' for none.
TierOf(i) == IF i = 0 THEN "" ELSE verdict[i].tier
Rung(t) == IF t \in TierNames THEN LADDER[t] ELSE 0

\* retest_eligible: a rejection a retest may reopen.
Eligible(outcome, tier, until) ==
    outcome \in RETESTED /\ tier \in RETEST_TIERS /\ ~until

\* Mutant: a table without the rule that a waypoint never replaces an answer.
MutantReopens(s, t, r) ==
    \/ r.reopen = "retest" /\ s \notin RETESTED
    \/ r.reopen = "" /\ s \notin {"", "queued"} /\ Rung(r.tier) < Rung(t)

\* transition_refused: whether request r may not replace state s held by tier t.
\* A retraction may replace anything.
Refused(s, t, r) ==
    \/ r.reopen = "retest" /\ s \notin RETESTED
    \/ /\ r.reopen = "" /\ s \notin {"", "queued"}
       /\ \/ s \in TERMINAL /\ r.outcome \in WAYPOINTS
          \/ Rung(r.tier) < Rung(t)

\* The writer's call is over, and its locals are gone.
Idle(w) ==
    /\ pc' = [pc EXCEPT ![w] = "idle"]
    /\ req' = [req EXCEPT ![w] = Nothing]
    /\ held' = [held EXCEPT ![w] = 0]
    /\ vid' = [vid EXCEPT ![w] = 0]
    /\ tries' = [tries EXCEPT ![w] = 0]

\* A call of decide begins.
Call(w, r) ==
    /\ pc[w] = "idle"
    /\ pc' = [pc EXCEPT ![w] = "read"]
    /\ req' = [req EXCEPT ![w] = r]
    /\ UNCHANGED <<rowVars, nextVid, held, vid, tries>>

\* A tier decides.
Decide(w) == \E r \in TierRequests : Call(w, r)

\* reopen_due_retests lists the proposal as due, and decides on that listing.
ListDue(w) ==
    /\ due /\ retests < RETESTS
    /\ Eligible(state, TierOf(svid), svid # 0 /\ verdict[svid].until)
    /\ Call(w, Reopening("retest"))

\* requeue_revisitable lists a refusal whose condition this machine meets.
ListRevisitable(w) ==
    /\ svid # 0 /\ verdict[svid].until /\ verdict[svid].outcome \in TERMINAL
    /\ Call(w, Reopening("retraction"))

\* _write reads what holds the state.  A tier that restates it, with nothing new
\* to say, is done; a refused move raises.  (Whether a repeated outcome has
\* something new, a score, a run or another detail, is left open.)
Read(w) ==
    /\ pc[w] = "read"
    /\ \/ /\ ~Refused(state, TierOf(svid), req[w])
          /\ pc' = [pc EXCEPT ![w] = "insert"]
          /\ held' = [held EXCEPT ![w] = svid]
          /\ UNCHANGED <<req, vid, tries>>
       \/ /\ Refused(state, TierOf(svid), req[w])
          /\ Idle(w)
       \/ /\ svid # 0 /\ req[w].reopen = "" /\ verdict[svid].reopen = ""
          /\ verdict[svid].tier = req[w].tier /\ verdict[svid].outcome = req[w].outcome
          /\ Idle(w)
    /\ UNCHANGED <<rowVars, nextVid>>

\* The INSERT takes an id; the row is seen by others once it is committed.
Insert(w) ==
    /\ pc[w] = "insert"
    /\ nextVid \in Ids
    /\ vid' = [vid EXCEPT ![w] = nextVid]
    /\ nextVid' = nextVid + 1
    /\ pc' = [pc EXCEPT ![w] = "move"]
    /\ UNCHANGED <<rowVars, req, held, tries>>

\* Mutant: a retest scheduled without looking at the count.
MutantSchedule(r) ==
    IF r.reopen = "retest"
    THEN retests' = retests + 1 /\ due' = FALSE
    ELSE due' = Eligible(r.outcome, r.tier, r.until) /\ UNCHANGED retests

\* _schedule_retest, in step with the state just written.
Schedule(r) ==
    IF r.reopen = "retest"
    THEN retests' = retests + 1 /\ due' = FALSE
    ELSE /\ due' = (Eligible(r.outcome, r.tier, r.until) /\ retests < RETESTS)
         /\ UNCHANGED retests

\* The row a writer commits; a reopen names the verdict it read.
RowOf(w) ==
    [outcome |-> req[w].outcome, tier |-> req[w].tier, until |-> req[w].until,
     reopen |-> req[w].reopen,
     reopens |-> IF req[w].reopen = "" THEN 0 ELSE held[w]]

Land(w) ==
    /\ verdict' = [verdict EXCEPT ![vid[w]] = RowOf(w)]
    /\ svid' = vid[w]
    /\ state' = req[w].outcome
    /\ Schedule(req[w])
    /\ Idle(w)
    /\ UNCHANGED nextVid

\* Mutant: the UPDATE without its test of state_verdict_id.
MutantOverwrite(w) == pc[w] = "move" /\ Land(w)

\* The state moves and the transaction commits ...
Move(w) ==
    /\ pc[w] = "move"
    /\ svid = held[w]
    /\ Land(w)

\* Seeded bugs: a beaten writer re-reads the state's verdict but not whether it may
\* still replace it; a beaten writer tries for ever.
MutantNoRecheck(w) ==
    /\ pc[w] = "move" /\ svid # held[w]
    /\ pc' = [pc EXCEPT ![w] = "insert"]
    /\ held' = [held EXCEPT ![w] = svid]
    /\ UNCHANGED <<rowVars, nextVid, req, vid, tries>>
MutantForever(w) ==
    /\ pc[w] = "move" /\ svid # held[w]
    /\ tries' = [tries EXCEPT ![w] = @ + 1]
    /\ pc' = [pc EXCEPT ![w] = "read"]
    /\ UNCHANGED <<rowVars, nextVid, req, held, vid>>

\* ... or another writer moved it first: take the row back and re-check.
Beaten(w) ==
    /\ pc[w] = "move"
    /\ svid # held[w]
    /\ \/ /\ tries[w] + 1 < Tries
          /\ tries' = [tries EXCEPT ![w] = @ + 1]
          /\ pc' = [pc EXCEPT ![w] = "read"]
          /\ held' = [held EXCEPT ![w] = 0]
          /\ vid' = [vid EXCEPT ![w] = 0]
          /\ UNCHANGED req
       \/ /\ tries[w] + 1 = Tries
          /\ Idle(w)
    /\ UNCHANGED <<rowVars, nextVid>>

\* The writer dies where it stands and its transaction is rolled back.
Dies(w) ==
    /\ pc[w] # "idle"
    /\ Idle(w)
    /\ UNCHANGED <<rowVars, nextVid>>

Next == \E w \in Writers :
    Decide(w) \/ ListDue(w) \/ ListRevisitable(w) \/ Read(w) \/ Insert(w) \/ Move(w) \/ Beaten(w) \/ Dies(w)

Spec == Init /\ [][Next]_vars
-----------------------------------------------------------------------------
(* Properties.                                                               *)

Applied == {i \in Ids : verdict[i] # NoRow}
Previous(k, i) == /\ k \in Applied \cup {0} /\ k < i
                  /\ \A l \in Applied : l <= k \/ l >= i
OutcomeOf(i) == IF i = 0 THEN "" ELSE verdict[i].outcome

\* fold: the state after the verdicts up to id n, refused ones skipped.
Fold[n \in 0..MaxVid] ==
    IF n = 0 THEN [state |-> "", tier |-> ""]
    ELSE LET before == Fold[n - 1] IN
         IF verdict[n] = NoRow \/ Refused(before.state, before.tier, verdict[n])
         THEN before
         ELSE [state |-> verdict[n].outcome, tier |-> verdict[n].tier]

\* state_audit's folds_differently stays empty: reading the verdicts in id order
\* through the transition table gives the stored state, however writers raced
\* between taking their ids and moving the state.
HistoryFolds == Fold[MaxVid] = [state |-> state, tier |-> TierOf(svid)]

\* Every verdict on record is a move transition_refused accepts from the verdict
\* before it in id order, a reopen names that verdict, and the newest one holds
\* the state: a move checked against a state that has gone never lands.
HistoryLegal ==
    /\ \A i \in Applied, k \in 0..MaxVid : Previous(k, i) =>
          /\ ~Refused(OutcomeOf(k), TierOf(k), verdict[i])
          /\ verdict[i].reopen # "" => verdict[i].reopens = k
    /\ state = OutcomeOf(svid)
    /\ \A i \in Applied : i <= svid

\* A retest is scheduled exactly for a rejection that may still be retested, and
\* retest_count is the number of retests on record (_schedule_retest).
RetestsInStep ==
    /\ due = (/\ Eligible(state, TierOf(svid), svid # 0 /\ verdict[svid].until)
              /\ retests < RETESTS)
    /\ retests = Cardinality({i \in Applied : verdict[i].reopen = "retest"})

\* An answer goes back to a waypoint only by a reopen that names it, a retest
\* reopens only a rejection, and without a reopen no earlier tier replaces a later
\* one's state (#409).
Moved ==
    svid' # svid =>
        /\ state \in TERMINAL /\ state' \in WAYPOINTS =>
              verdict'[svid'].reopen # "" /\ verdict'[svid'].reopens = svid
        /\ verdict'[svid'].reopen = "retest" => state \in RETESTED
        /\ verdict'[svid'].reopen = "" /\ state \notin {"", "queued"} =>
              Rung(verdict'[svid'].tier) >= Rung(TierOf(svid))
NoSilentReopen == [][Moved]_vars
=============================================================================
