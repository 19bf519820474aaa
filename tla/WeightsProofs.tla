---------------------------- MODULE WeightsProofs ----------------------------
(***************************************************************************)
(* Proofs about Weights, for any repos, fetchers, cleanups and bounds: its    *)
(* types, that a cleanup removes nothing that something has protected since   *)
(* before its first read, that it leaves nothing that was due all along, and  *)
(* what the rows say of the directories.                                      *)
(***************************************************************************)
EXTENDS Weights, WellFoundedInduction, TLAPS

\* What a cleanup's history says of a repo holds of it now.
SinceInv ==
    \A s \in Sweepers, r \in Repos, g \in FactNames : <<r, g>> \in since[s] => Fact(r, g)

After(place) == CASE place = "verdicts" -> {"keepers", "rows", "scan", "delete", "blobs"}
                  [] place = "keepers" -> {"rows", "scan", "delete", "blobs"}
                  [] place = "rows" -> {"scan", "delete", "blobs"}

\* What a cleanup is to remove, by what it has read, agrees with that history; one that
\* clears blobs has nothing left to remove.
TodoInv(s) ==
    \A r \in Repos :
       /\ <<r, "state">> \in since[s] /\ spc[s] \in After("verdicts") => r \notin todo[s]
       /\ <<r, "keeper">> \in since[s] /\ spc[s] \in After("keepers") => r \notin todo[s]
       /\ <<r, "norow">> \in since[s] /\ spc[s] \in After("rows") => r \notin todo[s]
       /\ <<r, "due">> \in since[s] /\ spc[s] \in After("verdicts") => r \in todo[s]
       /\ spc[s] = "blobs" => r \notin todo[s]

\* The live rows of a repo that say it is complete.
Saying(r) == {i \in Live(r) : rows[i].complete}

Downloading(r) == \E f \in Fetchers : fpc[f] = "down" /\ frepo[f] = r

\* A fetch writes the row of its own repo; only a download that goes on is hit.
RowInv ==
    \A f \in Fetchers :
       /\ fpc[f] \in {"down", "landed", "failed"} => frow[f] # NoRow
       /\ fpc[f] # "idle" /\ frow[f] # NoRow => rows[frow[f]].repo = frepo[f]
       /\ f \in hit => fpc[f] = "down"

\* Unless it went astray, a repo that is not whole has no row that says it is, save
\* between its removal and the stamp; what has landed, or lives through a hit, is whole.
WholeInv ==
    \A r \in Repos : r \notin astray =>
       /\ hub[r] \in {"part", "torn"} => Saying(r) = {}
       /\ hub[r] = "none" /\ Downloading(r) => Saying(r) = {}
       /\ \A f \in Fetchers : frepo[f] = r /\ (fpc[f] = "landed" \/ f \in hit) => hub[r] = "whole"

IInv == TypeOK /\ SinceInv /\ RowInv /\ WholeInv /\ \A s \in Sweepers : TodoInv(s)
-----------------------------------------------------------------------------
(* Rows.                                                                     *)

\* Some row of a set of rows is the newest.
LEMMA NewestIn ==
    ASSUME NEW S \in SUBSET RowIds, S # {}
    PROVE  Newest(S) \in S
<1> DEFINE T == {n \in Nat : \E i \in S : n = MaxRows - i}
           Less == {ss \in Nat \X Nat : ss[1] < ss[2]}
<1>1. IsWellFoundedOn(Less, Nat)
  BY NatLessThanWellFounded DEF OpToRel
<1>0. \A j \in S : MaxRows - j \in T
  BY WeightsAssumption DEF RowIds, WeightsAssumption
<1>2. T \subseteq Nat /\ T # {}
  BY <1>0
<1>3. \E x \in T : \A y \in T : ~(<<y, x>> \in Less)
  <2> HIDE DEF T, Less
  <2> QED BY <1>1, <1>2, WFMin
<1>4. PICK x \in T : \A y \in T : ~(y < x)
  BY <1>3
<1>5. PICK i \in S : x = MaxRows - i
  OBVIOUS
<1>7. \A j \in S : j <= i
  BY <1>4, <1>5, <1>0, WeightsAssumption DEF RowIds, WeightsAssumption
<1> QED BY <1>7 DEF Newest

RowsOK == /\ rows \in [RowIds -> Row] /\ nrows \in 0..MaxRows
          /\ \A i \in RowIds : rows[i].repo = NoRepo <=> i > nrows

Flights == {"started", "stale", "finished"}

\* Every row is still its repo's, and as live as before.
SameRows == \A i \in RowIds : rows'[i].repo = rows[i].repo /\ (rows'[i].live <=> rows[i].live)

LEMMA FlightSet ==
    ASSUME RowsOK, NEW i, NEW fl \in Flights, rows' = [rows EXCEPT ![i].flight = fl]
    PROVE  rows' \in [RowIds -> Row] /\ SameRows
<1>1. ASSUME NEW j \in RowIds
      PROVE  rows'[j] = IF j = i THEN [rows[j] EXCEPT !.flight = fl] ELSE rows[j]
  BY DEF RowsOK
<1>2. ASSUME NEW row \in Row
      PROVE  /\ [row EXCEPT !.flight = fl] \in Row
             /\ [row EXCEPT !.flight = fl].repo = row.repo
             /\ [row EXCEPT !.flight = fl].live = row.live
  BY DEF Row, Flights
<1>3. \A j \in RowIds : rows[j] \in Row
  BY DEF RowsOK
<1>4. \A j \in RowIds : rows'[j] \in Row
  BY <1>1, <1>2, <1>3
<1>5. rows' \in [RowIds -> Row]
  BY <1>4 DEF RowsOK
<1>6. SameRows
  BY <1>1, <1>2, <1>3 DEF SameRows
<1> QED BY <1>5, <1>6

LEMMA MarkSet ==
    ASSUME RowsOK, NEW i, NEW fl \in Flights, NEW c \in BOOLEAN,
           \/ rows' = [rows EXCEPT ![i].flight = fl, ![i].complete = c]
           \/ rows' = [rows EXCEPT ![i].complete = c, ![i].flight = fl]
    PROVE  rows' \in [RowIds -> Row] /\ SameRows
<1> DEFINE marked(row) == [row EXCEPT !.flight = fl, !.complete = c]
<1>1. ASSUME NEW j \in RowIds
      PROVE  rows'[j] = IF j = i THEN marked(rows[j]) ELSE rows[j]
  BY DEF RowsOK, Row
<1>2. ASSUME NEW row \in Row
      PROVE  /\ marked(row) \in Row /\ marked(row).repo = row.repo /\ marked(row).live = row.live
  BY DEF Row, Flights
<1>3. \A j \in RowIds : rows[j] \in Row
  BY DEF RowsOK
<1> HIDE DEF marked
<1>4. \A j \in RowIds : rows'[j] \in Row
  BY <1>1, <1>2, <1>3
<1>5. rows' \in [RowIds -> Row]
  BY <1>4 DEF RowsOK
<1>6. SameRows
  BY <1>1, <1>2, <1>3 DEF SameRows
<1> QED BY <1>5, <1>6

LEMMA RowsKept ==
    ASSUME RowsOK, rows' \in [RowIds -> Row], SameRows, UNCHANGED nrows
    PROVE  RowsOK' /\ \A r \in Repos : Live(r)' = Live(r)
BY DEF RowsOK, SameRows, Live

LEMMA Inserted ==
    ASSUME RowsOK, nrows < MaxRows, NEW row \in Row, row.repo \in Repos,
           rows' = [rows EXCEPT ![nrows + 1] = row], nrows' = nrows + 1
    PROVE  RowsOK'
BY WeightsAssumption DEF RowsOK, RowIds, WeightsAssumption

LEMMA Stamped ==
    ASSUME RowsOK, NEW S, rows' = StampedIn(rows, S), UNCHANGED nrows
    PROVE  RowsOK'
<1>1. ASSUME NEW row \in Row
      PROVE  /\ [row EXCEPT !.live = FALSE, !.complete = FALSE] \in Row
             /\ [row EXCEPT !.live = FALSE, !.complete = FALSE].repo = row.repo
  BY DEF Row
<1>2. \A j \in RowIds : rows[j] \in Row
  BY DEF RowsOK
<1>3. \A j \in RowIds : rows'[j] = [rows[j] EXCEPT !.live = FALSE, !.complete = FALSE]
                        \/ rows'[j] = rows[j]
  BY DEF StampedIn
<1>4. \A j \in RowIds : rows'[j] \in Row /\ rows'[j].repo = rows[j].repo
  BY <1>1, <1>2, <1>3
<1> QED BY <1>4 DEF RowsOK, StampedIn

LEMMA StartedRow ==
    ASSUME NEW r \in Repos
    PROVE  /\ Started(r) \in Row /\ Started(r).repo = r
           /\ \A c \in BOOLEAN :
                 LET row == [Started(r) EXCEPT !.complete = c, !.flight = "finished"]
                 IN  row \in Row /\ row.repo = r
BY DEF Started, Row

LEMMA LoadableType == \A d : Loadable(d) \subseteq BOOLEAN
BY DEF Loadable
-----------------------------------------------------------------------------
(* Types.                                                                    *)

\* The steps that write rows.
WritesRows ==
    \/ \E i \in RowIds : Late(i)
    \/ \E f \in Fetchers : FetchStarts(f) \/ FetchFinishes(f)
    \/ \E s \in Sweepers : Stamp(s)
    \/ StampGone \/ RecordPath

LEMMA OtherSteps ==
    ASSUME [Next]_vars
    PROVE  WritesRows \/ UNCHANGED tableVars
BY DEF Next, WritesRows, vars, Judge, Reopen, Day, Keep, Elsewhere, FetchFinds, Downloads, FetchKilled,
       Sweep, ReadVerdicts, ReadKeepers, ReadRows, Scan, Reads, Remove, RemoveOne, FindOrphans,
       ClearBlob, SweepEnds, SweepKilled, SweepReset, Drift

\* A fetch that starts on a row it found, or finishes, writes that row.
LEMMA FetchMarks ==
    ASSUME TypeOK, NEW f \in Fetchers, FetchFinishes(f) \/ (FetchStarts(f) /\ frow[f] # NoRow)
    PROVE  rows' \in [RowIds -> Row] /\ SameRows /\ UNCHANGED nrows
<1>1. RowsOK
  BY DEF TypeOK, RowsOK
<1>2. CASE FetchStarts(f) /\ frow[f] # NoRow
  <2>1. rows' = [rows EXCEPT ![frow[f]].flight = "started", ![frow[f]].complete = FALSE]
        /\ UNCHANGED nrows
    BY <1>2 DEF FetchStarts, StartsWith
  <2> QED BY <1>1, <2>1, MarkSet DEF Flights
<1>3. CASE FetchFinishes(f)
  <2>1. \E c \in BOOLEAN : FinishWith(f, c)
    BY <1>3, LoadableType DEF FetchFinishes
  <2>2. PICK c \in BOOLEAN :
           rows' = [rows EXCEPT ![frow[f]].complete = c, ![frow[f]].flight = "finished"]
           /\ UNCHANGED nrows
    BY <2>1 DEF FinishWith
  <2> QED BY <1>1, <2>2, MarkSet DEF Flights
<1> QED BY <1>2, <1>3

\* --record updates the row of a path, or inserts one.
LEMMA RecordMarks ==
    ASSUME TypeOK, RecordPath
    PROVE  \/ rows' \in [RowIds -> Row] /\ SameRows /\ UNCHANGED nrows
           \/ RowsOK'
<1>1. RowsOK
  BY DEF TypeOK, RowsOK
<1>2. PICK r \in unrecorded :
         IF Live(r) = {}
         THEN /\ nrows' = nrows + 1
              /\ \E c \in Loadable(hub[r]) :
                    rows' = [rows EXCEPT ![nrows + 1] =
                                [Started(r) EXCEPT !.complete = c, !.flight = "finished"]]
         ELSE /\ \E c \in Loadable(hub[r]) :
                    rows' = [rows EXCEPT ![Newest(Live(r))].complete = c,
                                         ![Newest(Live(r))].flight = "finished"]
              /\ UNCHANGED nrows
  BY DEF RecordPath
<1>3. r \in Repos /\ nrows < MaxRows
  BY DEF TypeOK, RecordPath
<1>4. CASE Live(r) = {}
  <2>1. PICK c \in BOOLEAN :
           rows' = [rows EXCEPT ![nrows + 1] =
                       [Started(r) EXCEPT !.complete = c, !.flight = "finished"]]
    BY <1>2, <1>4, LoadableType
  <2> DEFINE row == [Started(r) EXCEPT !.complete = c, !.flight = "finished"]
  <2>2. row \in Row /\ row.repo = r
    BY <1>3, StartedRow
  <2>3. nrows' = nrows + 1 /\ rows' = [rows EXCEPT ![nrows + 1] = row]
    BY <1>2, <1>4, <2>1
  <2> HIDE DEF row
  <2> QED BY <1>1, <1>3, <2>2, <2>3, Inserted
<1>5. CASE Live(r) # {}
  <2>1. PICK c \in BOOLEAN :
           rows' = [rows EXCEPT ![Newest(Live(r))].complete = c,
                                ![Newest(Live(r))].flight = "finished"] /\ UNCHANGED nrows
    BY <1>2, <1>5, LoadableType
  <2> QED BY <1>1, <2>1, MarkSet DEF Flights
<1> QED BY <1>4, <1>5

LEMMA RowsNext ==
    ASSUME TypeOK, [Next]_vars
    PROVE  RowsOK'
<1>1. RowsOK
  BY DEF TypeOK, RowsOK
<1>2. CASE UNCHANGED tableVars
  BY <1>1, <1>2 DEF RowsOK, tableVars
<1>3. ASSUME NEW i \in RowIds, Late(i) PROVE RowsOK'
  <2>1. rows' = [rows EXCEPT ![i].flight = "stale"] /\ UNCHANGED nrows
    BY <1>3 DEF Late
  <2> QED BY <1>1, <2>1, FlightSet, RowsKept DEF Flights
<1>4. ASSUME NEW f \in Fetchers, FetchStarts(f), frow[f] = NoRow PROVE RowsOK'
  <2>1. /\ nrows < MaxRows /\ nrows' = nrows + 1
        /\ rows' = [rows EXCEPT ![nrows + 1] = Started(frepo[f])]
    BY <1>4 DEF FetchStarts, StartsWith
  <2>2. frepo[f] \in Repos
    BY <1>4 DEF FetchStarts, StartsWith, TypeOK
  <2> QED BY <1>1, <2>1, <2>2, StartedRow, Inserted
<1>5. ASSUME NEW f \in Fetchers, FetchFinishes(f) \/ (FetchStarts(f) /\ frow[f] # NoRow)
      PROVE  RowsOK'
  BY <1>1, <1>5, FetchMarks, RowsKept
<1>6. ASSUME NEW s \in Sweepers, Stamp(s) PROVE RowsOK'
  BY <1>1, <1>6, Stamped DEF Stamp
<1>7. CASE StampGone
  BY <1>1, <1>7, Stamped DEF StampGone
<1>8. CASE RecordPath
  BY <1>1, <1>8, RecordMarks, RowsKept
<1> QED BY <1>2, <1>3, <1>4, <1>5, <1>6, <1>7, <1>8, OtherSteps DEF WritesRows

\* What is not a row.
StateOK == st \in [Repos -> States] /\ past \in [Repos -> BOOLEAN] /\ kept \subseteq Repos
FetchOK == /\ fpc \in [Fetchers -> FPlaces] /\ frepo \in [Fetchers -> Repos \cup {NoRepo}]
           /\ frow \in [Fetchers -> RowIds \cup {NoRow}] /\ hit \subseteq Fetchers
           /\ \A f \in Fetchers : fpc[f] # "idle" => frepo[f] \in Repos
SweepOK == /\ spc \in [Sweepers -> SPlaces]
           /\ \A f \in {todo, blobs, removed} : f \in [Sweepers -> SUBSET Repos]
           /\ since \in [Sweepers -> SUBSET (Repos \X FactNames)]
RestOK == /\ hub \in [Repos -> Dirs] /\ gone \subseteq Repos /\ unrecorded \subseteq Repos
          /\ astray \subseteq Repos /\ crashes \in 0..MaxCrashes

LEMMA TypeParts == TypeOK <=> RowsOK /\ StateOK /\ FetchOK /\ SweepOK /\ RestOK
BY DEF TypeOK, RowsOK, StateOK, FetchOK, SweepOK, RestOK

\* The steps of one cleanup.
SweepStep(s) == Sweep(s) \/ SweepKilled(s)

LEMMA SweepFrame ==
    ASSUME NEW s \in Sweepers, SweepStep(s)
    PROVE  UNCHANGED <<st, past, kept, fpc, frepo, frow, gone, unrecorded>>
BY DEF SweepStep, Sweep, ReadVerdicts, ReadKeepers, ReadRows, Scan, Reads, Remove, RemoveOne, Stamp,
       FindOrphans, ClearBlob, SweepEnds, SweepKilled, SweepReset, SweepUnchanged, recVars

LEMMA StateNext ==
    ASSUME StateOK, [Next]_vars
    PROVE  StateOK'
<1>1. CASE UNCHANGED <<st, past, kept>>
  BY <1>1 DEF StateOK
<1>2. ASSUME NEW r \in Repos, Judge(r) \/ Reopen(r) \/ Day(r) \/ Keep(r) PROVE StateOK'
  BY <1>2 DEF StateOK, Judge, Reopen, Day, Keep, States
<1>3. ASSUME NEW s \in Sweepers, SweepStep(s) PROVE StateOK'
  BY <1>1, <1>3, SweepFrame
<1>4. UNCHANGED <<st, past, kept>> \/ (\E r \in Repos : Judge(r) \/ Reopen(r) \/ Day(r) \/ Keep(r))
      \/ \E s \in Sweepers : SweepStep(s)
  BY DEF Next, vars, SweepStep, Late, FetchFinds, FetchStarts, StartsWith, Downloads, FetchFinishes,
         FinishWith, FetchKilled, FetchUnchanged, Drift, StampGone, RecordPath, RecordUnchanged
<1> QED BY <1>1, <1>2, <1>3, <1>4

\* A fetch goes from place to place; what is being written may be hit by a removal.
LEMMA FetchNext ==
    ASSUME TypeOK, [Next]_vars
    PROVE  FetchOK'
<1>0. FetchOK /\ RowsOK
  BY TypeParts
<1>1. CASE UNCHANGED fetchVars
  BY <1>0, <1>1 DEF FetchOK, fetchVars
<1>2. ASSUME NEW f \in Fetchers, FetchFinds(f) PROVE FetchOK'
  <2>1. PICK r \in Repos :
           /\ frepo' = [frepo EXCEPT ![f] = r]
           /\ frow' = [frow EXCEPT ![f] = IF Live(r) = {} THEN NoRow ELSE Newest(Live(r))]
    BY <1>2 DEF FetchFinds
  <2>2. (IF Live(r) = {} THEN NoRow ELSE Newest(Live(r))) \in RowIds \cup {NoRow}
    <3>1. Live(r) \in SUBSET RowIds
      BY DEF Live
    <3> QED BY <3>1, NewestIn
  <2>3. fpc' = [fpc EXCEPT ![f] = "found"] /\ UNCHANGED hit
    BY <1>2 DEF FetchFinds, FGoes
  <2> QED BY <1>0, <2>1, <2>2, <2>3 DEF FetchOK, FPlaces
<1>3. ASSUME NEW f \in Fetchers, FetchStarts(f) PROVE FetchOK'
  <2>1. fpc[f] = "found" /\ fpc' = [fpc EXCEPT ![f] = "down"] /\ UNCHANGED <<frepo, hit>>
    BY <1>3 DEF FetchStarts, StartsWith, FGoes
  <2>2. frow' = frow \/ (frow' = [frow EXCEPT ![f] = nrows + 1] /\ nrows < MaxRows)
    BY <1>3 DEF FetchStarts, StartsWith
  <2>3. nrows < MaxRows => nrows + 1 \in RowIds
    BY <1>0, WeightsAssumption DEF RowsOK, RowIds, WeightsAssumption
  <2> QED BY <1>0, <2>1, <2>2, <2>3 DEF FetchOK, FPlaces
<1>4. ASSUME NEW f \in Fetchers, Downloads(f) PROVE FetchOK'
  <2>1. fpc[f] = "down" /\ (fpc' = fpc \/ \E p \in {"landed", "failed"} : fpc' = [fpc EXCEPT ![f] = p])
    BY <1>4 DEF Downloads, FGoes
  <2>2. UNCHANGED <<frepo, frow>> /\ hit' \subseteq hit
    BY <1>4 DEF Downloads
  <2> QED BY <1>0, <2>1, <2>2 DEF FetchOK, FPlaces
<1>5. ASSUME NEW f \in Fetchers, FetchFinishes(f) \/ FetchKilled(f) PROVE FetchOK'
  <2>1. FLeaves(f)
    BY <1>5 DEF FetchFinishes, FinishWith, FetchKilled
  <2> QED BY <1>0, <2>1 DEF FLeaves, FGoes, FetchOK, FPlaces
<1>6. ASSUME NEW s \in Sweepers, SweepStep(s) PROVE FetchOK'
  <2>1. UNCHANGED <<fpc, frepo, frow>>
    BY <1>6, SweepFrame
  <2>2. hit' \subseteq Fetchers
    BY <1>0, <1>6 DEF SweepStep, Sweep, ReadVerdicts, ReadKeepers, ReadRows, Scan, Reads, Remove,
       RemoveOne, Stamp, FindOrphans, ClearBlob, SweepEnds, SweepKilled, SweepReset, Writing, FetchOK
  <2> QED BY <1>0, <2>1, <2>2 DEF FetchOK
<1>7. \/ UNCHANGED fetchVars
      \/ \E f \in Fetchers : \/ FetchFinds(f) \/ FetchStarts(f) \/ Downloads(f)
                             \/ FetchFinishes(f) \/ FetchKilled(f)
      \/ \E s \in Sweepers : SweepStep(s)
  BY DEF Next, vars, SweepStep, Late, Judge, Reopen, Day, Keep, Elsewhere, Drift, StampGone,
         RecordPath, RecordUnchanged
<1> QED BY <1>1, <1>2, <1>3, <1>4, <1>5, <1>6, <1>7

\* What a cleanup's history becomes at a step: it is kept, or a part of it is; it is
\* read afresh, or forgotten.
SinceKept == \A t \in Sweepers : since'[t] \subseteq since[t]
Facts == {x \in Repos \X FactNames : Fact(x[1], x[2])}

LEMMA ScanSince ==
    ASSUME SweepOK, NEW s \in Sweepers, Scan(s)
    PROVE  /\ since' \in [Sweepers -> SUBSET (Repos \X FactNames)] /\ SinceKept
           /\ \A x \in since'[s] : x[1] \in todo'[s] \/ x[2] = "due"
<1>1. since' = [since EXCEPT ![s] = {x \in since[s] : x[1] \in todo'[s] \/ x[2] = "due"}]
  BY DEF Scan
<1> QED BY <1>1 DEF SweepOK, SinceKept

LEMMA RemoveSince ==
    ASSUME SweepOK, NEW s \in Sweepers, NEW r \in Repos, RemoveOne(s, r)
    PROVE  /\ since' \in [Sweepers -> SUBSET (Repos \X FactNames)] /\ SinceKept
           /\ \A t \in Sweepers : \A x \in since'[t] : Fact(x[1], x[2])'
           /\ \A x \in since'[s] : x[1] # r
<1>1. since' = [t \in Sweepers |-> {x \in since[t] : /\ Fact(x[1], x[2])'
                                                     /\ t = s => x[1] # r}]
  BY DEF RemoveOne
<1> QED BY <1>1 DEF SweepOK, SinceKept

LEMMA StillSince ==
    ASSUME SweepOK, StillHolds
    PROVE  /\ since' \in [Sweepers -> SUBSET (Repos \X FactNames)] /\ SinceKept
           /\ \A t \in Sweepers : \A x \in since'[t] : Fact(x[1], x[2])'
<1>1. since' = [t \in Sweepers |-> {x \in since[t] : Fact(x[1], x[2])'}]
  BY DEF StillHolds
<1> QED BY <1>1 DEF SweepOK, SinceKept

LEMMA SweepNext ==
    ASSUME SweepOK, [Next]_vars
    PROVE  SweepOK'
<1>1. CASE UNCHANGED <<sweepVars, since>>
  BY <1>1 DEF SweepOK, sweepVars
<1>2. CASE UNCHANGED sweepVars /\ StillHolds
  BY <1>2, StillSince DEF SweepOK, sweepVars
<1>3. ASSUME NEW s \in Sweepers, ReadVerdicts(s) PROVE SweepOK'
  <2>1. since' = [since EXCEPT ![s] = Facts]
    BY <1>3 DEF ReadVerdicts, Facts
  <2>2. Facts \subseteq Repos \X FactNames
    BY DEF Facts
  <2> QED BY <1>3, <2>1, <2>2 DEF SweepOK, ReadVerdicts, Reads, SGoes, SPlaces
<1>4. ASSUME NEW s \in Sweepers, ReadKeepers(s) \/ ReadRows(s) PROVE SweepOK'
  BY <1>4 DEF SweepOK, ReadKeepers, ReadRows, Reads, SGoes, SPlaces
<1>5. ASSUME NEW s \in Sweepers, Scan(s) PROVE SweepOK'
  <2>1. /\ spc' = [spc EXCEPT ![s] = "delete"] /\ UNCHANGED removed
        /\ todo' = [todo EXCEPT ![s] = {r \in todo[s] : hub[r] # "none"}]
        /\ blobs' = [blobs EXCEPT ![s] = {r \in Repos : hub[r] = "part"}]
    BY <1>5 DEF Scan, Reads, SGoes
  <2> QED BY <1>5, <2>1, ScanSince DEF SweepOK, SPlaces
<1>6. ASSUME NEW s \in Sweepers, NEW r \in Repos, RemoveOne(s, r) PROVE SweepOK'
  <2>1. /\ UNCHANGED <<spc, blobs>> /\ todo' = [todo EXCEPT ![s] = @ \ {r}]
        /\ removed' = removed \/ removed' = [removed EXCEPT ![s] = @ \cup {r}]
    BY <1>6 DEF RemoveOne
  <2> QED BY <1>6, <2>1, RemoveSince DEF SweepOK
<1>7. ASSUME NEW s \in Sweepers, Remove(s) PROVE SweepOK'
  BY <1>6, <1>7 DEF Remove, SweepOK
<1>8. ASSUME NEW s \in Sweepers, Stamp(s) PROVE SweepOK'
  BY <1>8, StillSince DEF Stamp, SweepOK
<1>9. ASSUME NEW s \in Sweepers, FindOrphans(s) \/ ClearBlob(s) PROVE SweepOK'
  BY <1>9 DEF FindOrphans, Orphaned, ClearBlob, SGoes, SPlaces, SweepOK
<1>10. ASSUME NEW s \in Sweepers, SweepEnds(s) \/ SweepKilled(s) PROVE SweepOK'
  BY <1>10 DEF SweepEnds, SweepKilled, SweepReset, SGoes, SPlaces, SweepOK
<1>11. \/ UNCHANGED sweepVars /\ (UNCHANGED since \/ StillHolds)
       \/ \E s \in Sweepers : SweepStep(s)
  BY DEF Next, vars, SweepStep, Judge, Reopen, Day, Keep, Elsewhere, Late, FetchFinds, FetchStarts,
         StartsWith, Downloads, FetchFinishes, FinishWith, FetchKilled, FetchUnchanged, Drift,
         StampGone, RecordPath, RecordUnchanged
<1> QED BY <1>1, <1>2, <1>3, <1>4, <1>5, <1>7, <1>8, <1>9, <1>10, <1>11 DEF SweepStep, Sweep

LEMMA RestNext ==
    ASSUME TypeOK, [Next]_vars
    PROVE  RestOK'
<1>0. RestOK /\ FetchOK /\ SweepOK
  BY TypeParts
<1>1. CASE UNCHANGED <<hub, recVars, crashes, astray>>
  BY <1>0, <1>1 DEF RestOK, recVars
<1>2. ASSUME NEW f \in Fetchers,
             FetchStarts(f) \/ Downloads(f) \/ FetchKilled(f)
      PROVE  RestOK'
  <2>1. frepo[f] \in Repos /\ UNCHANGED recVars
    BY <1>0, <1>2 DEF FetchOK, FetchStarts, StartsWith, Downloads, FetchKilled, FetchUnchanged
  <2>2. astray' \subseteq Repos
    BY <1>0, <1>2, <2>1 DEF RestOK, FetchStarts, StartsWith, Downloads, FetchKilled
  <2>3. hub' \in [Repos -> Dirs]
    BY <1>0, <1>2, <2>1 DEF RestOK, FetchStarts, StartsWith, Downloads, FetchKilled, Dirs
  <2>4. crashes' \in 0..MaxCrashes
    BY <1>0, <1>2, WeightsAssumption
       DEF RestOK, FetchStarts, StartsWith, Downloads, FetchKilled, WeightsAssumption
  <2> QED BY <1>0, <2>1, <2>2, <2>3, <2>4 DEF RestOK, recVars
<1>3. ASSUME NEW s \in Sweepers, NEW r \in Repos, RemoveOne(s, r) PROVE RestOK'
  BY <1>0, <1>3, WeightsAssumption DEF RemoveOne, SweepUnchanged, RestOK, Dirs, recVars, WeightsAssumption
<1>4. ASSUME NEW s \in Sweepers, Remove(s) PROVE RestOK'
  BY <1>0, <1>3, <1>4 DEF Remove, SweepOK
<1>5. ASSUME NEW s \in Sweepers, ClearBlob(s) PROVE RestOK'
  BY <1>0, <1>5 DEF ClearBlob, SweepUnchanged, RestOK, SweepOK, Dirs, recVars
<1>6. ASSUME NEW s \in Sweepers, SweepKilled(s) PROVE RestOK'
  BY <1>0, <1>6, WeightsAssumption
     DEF SweepKilled, SweepReset, SweepUnchanged, RestOK, recVars, WeightsAssumption
<1>7. CASE Drift \/ StampGone \/ RecordPath
  BY <1>0, <1>7 DEF Drift, StampGone, RecordPath, RecordUnchanged, RestOK
<1>8. \/ UNCHANGED <<hub, recVars, crashes, astray>>
      \/ \E f \in Fetchers : FetchStarts(f) \/ Downloads(f) \/ FetchKilled(f)
      \/ \E s \in Sweepers : Remove(s) \/ ClearBlob(s) \/ SweepKilled(s)
      \/ Drift \/ StampGone \/ RecordPath
  BY DEF Next, vars, Judge, Reopen, Day, Keep, Elsewhere, Late, FetchFinds, FetchFinishes, FinishWith,
         FetchUnchanged, Sweep, ReadVerdicts, ReadKeepers, ReadRows, Scan, Reads, Stamp, FindOrphans,
         SweepEnds, SweepReset, SweepUnchanged
<1> QED BY <1>1, <1>2, <1>4, <1>5, <1>6, <1>7, <1>8

LEMMA TypeNext == TypeOK /\ [Next]_vars => TypeOK'
BY TypeParts, RowsNext, StateNext, FetchNext, SweepNext, RestNext, PTL
-----------------------------------------------------------------------------
(* What a cleanup's history says.                                            *)

\* A step that leaves verdicts and keepers alone, every row where it is and no directory
\* away, leaves every fact as it is.
LEMMA FactsKept ==
    ASSUME UNCHANGED <<st, past, kept>>, \A r \in Repos : Live(r)' = Live(r),
           \A r \in Repos : hub[r] # "none" => hub'[r] # "none"
    PROVE  \A r \in Repos, g \in FactNames : Fact(r, g) => Fact(r, g)'
BY DEF Fact, FactNames

LEMMA LiveSame ==
    ASSUME UNCHANGED rows
    PROVE  \A r \in Repos : Live(r)' = Live(r)
BY DEF Live

LEMMA SinceFollows ==
    ASSUME SinceInv, SinceKept, \A r \in Repos, g \in FactNames : Fact(r, g) => Fact(r, g)'
    PROVE  SinceInv'
BY DEF SinceInv, SinceKept

\* The steps that neither write rows, verdicts or keepers nor remove a directory.
LEMMA SinceQuiet ==
    ASSUME SinceInv, SinceKept, UNCHANGED <<st, past, kept, rows>>,
           \A r \in Repos : hub[r] # "none" => hub'[r] # "none"
    PROVE  SinceInv'
BY FactsKept, LiveSame, SinceFollows

LEMMA SinceNext ==
    ASSUME TypeOK, SinceInv, [Next]_vars
    PROVE  SinceInv'
<1>0. SweepOK /\ RowsOK /\ FetchOK /\ RestOK
  BY TypeParts
<1>1. CASE StillHolds
  BY <1>0, <1>1, StillSince DEF SinceInv
<1>2. CASE UNCHANGED <<st, past, kept, rows, hub, since>>
  BY <1>2, SinceQuiet DEF SinceKept
<1>3. ASSUME NEW i \in RowIds, Late(i) PROVE SinceInv'
  <2>1. rows' = [rows EXCEPT ![i].flight = "stale"]
        /\ UNCHANGED <<st, past, kept, hub, nrows, since>>
    BY <1>3 DEF Late
  <2>2. \A r \in Repos : Live(r)' = Live(r)
    BY <1>0, <2>1, FlightSet, RowsKept DEF Flights
  <2> QED BY <2>1, <2>2, FactsKept, SinceFollows DEF SinceKept
<1>4. ASSUME NEW f \in Fetchers, FetchFinishes(f) PROVE SinceInv'
  <2>1. UNCHANGED <<st, past, kept, hub, nrows, since>>
    BY <1>4 DEF FetchFinishes, FinishWith, FetchUnchanged
  <2>2. \A r \in Repos : Live(r)' = Live(r)
    BY <1>0, <1>4, FetchMarks, RowsKept
  <2> QED BY <2>1, <2>2, FactsKept, SinceFollows DEF SinceKept
<1>5. ASSUME NEW f \in Fetchers, Downloads(f) PROVE SinceInv'
  <2>1. UNCHANGED <<st, past, kept, rows, since>>
    BY <1>5 DEF Downloads, FetchUnchanged, tableVars
  <2>2. \A r \in Repos : hub[r] # "none" => hub'[r] # "none"
    BY <1>0, <1>5 DEF Downloads, RestOK
  <2> QED BY <2>1, <2>2, SinceQuiet DEF SinceKept
<1>6. ASSUME NEW s \in Sweepers, ReadVerdicts(s) PROVE SinceInv'
  <2>1. since' = [since EXCEPT ![s] = Facts]
    BY <1>6 DEF ReadVerdicts, Facts
  <2>2. UNCHANGED <<st, past, kept, rows, hub>>
    BY <1>6 DEF ReadVerdicts, Reads, SweepUnchanged, tableVars
  <2>3. \A r \in Repos, g \in FactNames : Fact(r, g) => Fact(r, g)'
    BY <2>2, FactsKept, LiveSame
  <2>4. \A t \in Sweepers, r \in Repos, g \in FactNames : <<r, g>> \in since'[t] => Fact(r, g)
    BY <1>0, <2>1 DEF SweepOK, SinceInv, Facts
  <2> QED BY <2>3, <2>4 DEF SinceInv
<1>7. ASSUME NEW s \in Sweepers, Scan(s) PROVE SinceInv'
  <2>1. UNCHANGED <<st, past, kept, rows, hub>>
    BY <1>7 DEF Scan, Reads, SweepUnchanged, tableVars
  <2> QED BY <1>0, <1>7, <2>1, ScanSince, SinceQuiet
<1>8. ASSUME NEW s \in Sweepers, Remove(s) PROVE SinceInv'
  <2>1. PICK r \in Repos : RemoveOne(s, r)
    BY <1>0, <1>8 DEF Remove, SweepOK
  <2> QED BY <1>0, <2>1, RemoveSince DEF SinceInv
<1>9. ASSUME NEW s \in Sweepers, ClearBlob(s) PROVE SinceInv'
  <2>1. UNCHANGED <<st, past, kept, rows, since>>
    BY <1>9 DEF ClearBlob, SweepUnchanged, tableVars
  <2>2. \A r \in Repos : hub[r] # "none" => hub'[r] # "none"
    BY <1>0, <1>9 DEF ClearBlob, RestOK
  <2> QED BY <2>1, <2>2, SinceQuiet DEF SinceKept
<1>10. ASSUME NEW s \in Sweepers, SweepReset(s) PROVE SinceInv'
  <2>1. UNCHANGED <<st, past, kept, rows, hub>> /\ since' = [since EXCEPT ![s] = {}]
    BY <1>10 DEF SweepReset, SweepUnchanged, tableVars
  <2> QED BY <1>0, <2>1, SinceQuiet DEF SinceKept, SweepOK
<1>11. \/ StillHolds
       \/ UNCHANGED <<st, past, kept, rows, hub, since>>
       \/ \E i \in RowIds : Late(i)
       \/ \E f \in Fetchers : FetchFinishes(f) \/ Downloads(f)
       \/ \E s \in Sweepers : ReadVerdicts(s) \/ Scan(s) \/ Remove(s) \/ ClearBlob(s) \/ SweepReset(s)
  BY DEF Next, vars, tableVars, Judge, Reopen, Day, Keep, FetchFinds, FetchStarts, StartsWith,
         FetchKilled, FetchUnchanged, Sweep, ReadKeepers, ReadRows, Reads, Stamp, FindOrphans,
         SweepUnchanged, SweepEnds, SweepKilled, Drift, StampGone, RecordPath, RecordUnchanged
<1> QED BY <1>1, <1>2, <1>3, <1>4, <1>5, <1>6, <1>7, <1>8, <1>9, <1>10, <1>11
-----------------------------------------------------------------------------
(* What a cleanup is to remove.                                              *)

\* Nothing this cleanup goes by moves, and its history at most shrinks.
LEMMA TodoQuiet ==
    ASSUME NEW t \in Sweepers, TodoInv(t), SinceKept, spc'[t] = spc[t], todo'[t] = todo[t]
    PROVE  TodoInv(t)'
BY DEF TodoInv, SinceKept

LEMMA TodoNext ==
    ASSUME TypeOK, SinceInv, [Next]_vars, NEW t \in Sweepers, TodoInv(t)
    PROVE  TodoInv(t)'
<1>0. SweepOK
  BY TypeParts
<1>1. ASSUME SinceKept, spc'[t] = spc[t], todo'[t] = todo[t] PROVE TodoInv(t)'
  BY <1>1, TodoQuiet
<1>2. CASE UNCHANGED sweepVars /\ (UNCHANGED since \/ StillHolds)
  <2>1. SinceKept
    BY <1>0, <1>2, StillSince DEF SinceKept
  <2> QED BY <1>1, <1>2, <2>1 DEF sweepVars
<1>3. ASSUME NEW s \in Sweepers, ReadVerdicts(s) PROVE TodoInv(t)'
  <2>1. /\ spc' = [spc EXCEPT ![s] = "keepers"] /\ since' = [since EXCEPT ![s] = Facts]
        /\ todo' = [todo EXCEPT ![s] = {r \in Repos : st[r] = "rejected" /\ past[r]}]
    BY <1>3 DEF ReadVerdicts, Reads, SGoes, Facts
  <2>2. CASE s = t
    BY <1>0, <2>1, <2>2 DEF SweepOK, TodoInv, After, Facts, Fact
  <2>3. CASE s # t
    BY <1>0, <2>1, <2>3 DEF SweepOK, TodoInv
  <2> QED BY <2>2, <2>3
<1>4. ASSUME NEW s \in Sweepers, ReadKeepers(s) PROVE TodoInv(t)'
  <2>1. UNCHANGED since /\ spc[s] = "keepers"
    BY <1>4 DEF ReadKeepers, Reads
  <2>2. CASE s # t
    BY <1>0, <1>1, <1>4, <2>1, <2>2 DEF ReadKeepers, Reads, SGoes, SweepOK, SinceKept
  <2>3. ASSUME s = t, spc'[t] = "idle" PROVE TodoInv(t)'
    BY <2>3 DEF TodoInv, After
  <2>4. ASSUME s = t, spc'[t] = "rows", todo'[t] = todo[t] \ kept PROVE TodoInv(t)'
    <3>1. \A r \in Repos : <<r, "keeper">> \in since[t] => r \in kept
      BY DEF SinceInv, Fact, FactNames
    <3>2. \A r \in Repos : <<r, "due">> \in since[t] => r \notin kept
      BY DEF SinceInv, Fact, FactNames
    <3> QED BY <2>1, <2>4, <3>1, <3>2 DEF TodoInv, After
  <2> QED BY <1>0, <1>4, <2>2, <2>3, <2>4 DEF ReadKeepers, Reads, SGoes, SweepOK
<1>5. ASSUME NEW s \in Sweepers, ReadRows(s) PROVE TodoInv(t)'
  <2>1. /\ UNCHANGED since /\ spc[s] = "rows" /\ spc' = [spc EXCEPT ![s] = "scan"]
        /\ todo' = [todo EXCEPT ![s] = {r \in todo[s] : Live(r) # {}}]
    BY <1>5 DEF ReadRows, Reads, SGoes
  <2>2. CASE s # t
    BY <1>0, <1>1, <2>1, <2>2 DEF SweepOK, SinceKept
  <2>3. CASE s = t
    <3>1. \A r \in Repos : /\ <<r, "norow">> \in since[t] => Live(r) = {}
                           /\ <<r, "due">> \in since[t] => Live(r) # {}
      BY DEF SinceInv, Fact, FactNames
    <3>2. spc'[t] = "scan" /\ todo'[t] = {r \in todo[t] : Live(r) # {}}
      BY <1>0, <2>1, <2>3 DEF SweepOK
    <3> QED BY <2>1, <2>3, <3>1, <3>2 DEF TodoInv, After
  <2> QED BY <2>2, <2>3
<1>6. ASSUME NEW s \in Sweepers, Scan(s) PROVE TodoInv(t)'
  <2>1. /\ spc[s] = "scan" /\ spc' = [spc EXCEPT ![s] = "delete"]
        /\ todo' = [todo EXCEPT ![s] = {r \in todo[s] : hub[r] # "none"}]
    BY <1>6 DEF Scan, Reads, SGoes
  <2>2. SinceKept
    BY <1>0, <1>6, ScanSince
  <2>3. CASE s # t
    BY <1>0, <1>1, <2>1, <2>2, <2>3 DEF SweepOK
  <2>4. CASE s = t
    <3>1. \A r \in Repos : <<r, "due">> \in since[t] => hub[r] # "none"
      BY DEF SinceInv, Fact, FactNames
    <3>2. spc'[t] = "delete" /\ todo'[t] = {r \in todo[t] : hub[r] # "none"}
      BY <1>0, <2>1, <2>4 DEF SweepOK
    <3>3. since'[t] \subseteq since[t]
      BY <2>2 DEF SinceKept
    <3> QED BY <2>1, <2>4, <3>1, <3>2, <3>3 DEF TodoInv, After
  <2> QED BY <2>3, <2>4
<1>7. ASSUME NEW s \in Sweepers, Remove(s) PROVE TodoInv(t)'
  <2>1. PICK r \in Repos : RemoveOne(s, r)
    BY <1>0, <1>7 DEF Remove, SweepOK
  <2>2. UNCHANGED spc /\ todo' = [todo EXCEPT ![s] = @ \ {r}] /\ spc[s] = "delete"
    BY <1>7, <2>1 DEF RemoveOne, Remove
  <2>3. SinceKept /\ \A x \in since'[s] : x[1] # r
    BY <1>0, <2>1, RemoveSince
  <2>4. CASE s # t
    BY <1>0, <1>1, <2>2, <2>3, <2>4 DEF SweepOK
  <2>5. CASE s = t
    <3>1. todo'[t] = todo[t] \ {r} /\ since'[t] \subseteq since[t]
      BY <1>0, <2>2, <2>3, <2>5 DEF SweepOK, SinceKept
    <3>2. \A g \in FactNames : <<r, g>> \notin since'[t]
      BY <2>3, <2>5
    <3> QED BY <2>2, <2>5, <3>1, <3>2 DEF TodoInv, After, FactNames
  <2> QED BY <2>4, <2>5
<1>8. ASSUME NEW s \in Sweepers, Stamp(s) PROVE TodoInv(t)'
  BY <1>0, <1>1, <1>8, StillSince DEF Stamp
<1>9. ASSUME NEW s \in Sweepers, FindOrphans(s) \/ ClearBlob(s) PROVE TodoInv(t)'
  <2>1. UNCHANGED <<todo, since>>
    BY <1>9 DEF FindOrphans, ClearBlob
  <2>2. CASE ClearBlob(s) \/ s # t
    BY <1>0, <1>1, <1>9, <2>1, <2>2 DEF FindOrphans, ClearBlob, SGoes, SweepOK, SinceKept
  <2>3. CASE FindOrphans(s) /\ s = t
    <3>1. spc[t] = "delete" /\ spc'[t] = "blobs" /\ todo[t] = {}
      BY <1>0, <2>3 DEF FindOrphans, SGoes, SweepOK
    <3> QED BY <2>1, <3>1 DEF TodoInv, After
  <2> QED BY <1>9, <2>2, <2>3
<1>10. ASSUME NEW s \in Sweepers, SweepReset(s) PROVE TodoInv(t)'
  <2>1. /\ spc' = [spc EXCEPT ![s] = "idle"] /\ todo' = [todo EXCEPT ![s] = {}]
        /\ since' = [since EXCEPT ![s] = {}]
    BY <1>10 DEF SweepReset, SGoes
  <2>2. CASE s # t
    BY <1>0, <1>1, <2>1, <2>2 DEF SweepOK, SinceKept
  <2>3. CASE s = t
    BY <1>0, <2>1, <2>3 DEF SweepOK, TodoInv, After
  <2> QED BY <2>2, <2>3
<1>11. \/ UNCHANGED sweepVars /\ (UNCHANGED since \/ StillHolds)
       \/ \E s \in Sweepers : SweepStep(s)
  BY DEF Next, vars, SweepStep, Judge, Reopen, Day, Keep, Elsewhere, Late, FetchFinds, FetchStarts,
         StartsWith, Downloads, FetchFinishes, FinishWith, FetchKilled, FetchUnchanged, Drift,
         StampGone, RecordPath, RecordUnchanged
<1> QED BY <1>2, <1>3, <1>4, <1>5, <1>6, <1>7, <1>8, <1>9, <1>10, <1>11
        DEF SweepStep, Sweep, SweepEnds, SweepKilled
-----------------------------------------------------------------------------
(* What a row says of its directory.                                         *)

\* How a step may change which rows say they are complete.
LEMMA SayingMarked ==
    ASSUME RowsOK, NEW i \in RowIds, NEW fl \in Flights, NEW c \in BOOLEAN,
           \/ rows' = [rows EXCEPT ![i].flight = fl, ![i].complete = c]
           \/ rows' = [rows EXCEPT ![i].complete = c, ![i].flight = fl]
    PROVE  /\ \A r \in Repos : rows[i].repo # r => Saying(r)' = Saying(r)
           /\ ~c => \A r \in Repos : Saying(r)' = Saying(r) \ {i}
<1>1. ASSUME NEW j \in RowIds, j # i PROVE rows'[j] = rows[j]
  BY <1>1 DEF RowsOK
<1>2. rows'[i].repo = rows[i].repo /\ rows'[i].live = rows[i].live /\ rows'[i].complete = c
  BY DEF RowsOK, Row
<1> QED BY <1>1, <1>2 DEF Saying, Live

LEMMA SayingCleared ==
    ASSUME RowsOK, NEW i \in RowIds, NEW fl,
           rows' = [rows EXCEPT ![i].flight = fl, ![i].complete = FALSE]
    PROVE  \A r \in Repos : Saying(r)' \subseteq Saying(r)
<1>1. ASSUME NEW j \in RowIds, j # i PROVE rows'[j] = rows[j]
  BY <1>1 DEF RowsOK
<1>2. ~rows'[i].complete
  BY DEF RowsOK, Row
<1> QED BY <1>1, <1>2 DEF Saying, Live

LEMMA SayingFlight ==
    ASSUME RowsOK, NEW i \in RowIds, NEW fl \in Flights, rows' = [rows EXCEPT ![i].flight = fl]
    PROVE  \A r \in Repos : Saying(r)' = Saying(r)
<1>1. ASSUME NEW j \in RowIds, j # i PROVE rows'[j] = rows[j]
  BY <1>1 DEF RowsOK
<1>2. rows'[i].repo = rows[i].repo /\ rows'[i].live = rows[i].live /\ rows'[i].complete = rows[i].complete
  BY DEF RowsOK, Row
<1> QED BY <1>1, <1>2 DEF Saying, Live

LEMMA SayingInserted ==
    ASSUME RowsOK, NEW row \in Row, NEW r \in Repos, row.repo # r \/ ~row.complete,
           nrows + 1 \in RowIds, rows' = [rows EXCEPT ![nrows + 1] = row]
    PROVE  Saying(r)' = Saying(r)
<1>1. rows[nrows + 1].repo = NoRepo
  BY WeightsAssumption DEF RowsOK, WeightsAssumption
<1>2. \A j \in RowIds : j # nrows + 1 => rows'[j] = rows[j]
  BY DEF RowsOK
<1>3. rows'[nrows + 1] = row
  BY DEF RowsOK
<1> QED BY <1>1, <1>2, <1>3, WeightsAssumption DEF Saying, Live, WeightsAssumption

LEMMA SayingStamped ==
    ASSUME RowsOK, NEW S, rows' = StampedIn(rows, S)
    PROVE  \A r \in Repos : Saying(r)' \subseteq Saying(r)
<1>1. \A j \in RowIds : rows[j] \in Row
  BY DEF RowsOK
<1>2. ASSUME NEW row \in Row PROVE ~[row EXCEPT !.live = FALSE, !.complete = FALSE].live
  BY DEF Row
<1>3. \A j \in RowIds : rows'[j].live => rows'[j] = rows[j]
  BY <1>1, <1>2 DEF StampedIn
<1> QED BY <1>3 DEF Saying, Live


\* A row that is its repo's stays so.
LEMMA RepoKept ==
    ASSUME TypeOK, [Next]_vars, NEW i \in RowIds, rows[i].repo # NoRepo
    PROVE  rows'[i].repo = rows[i].repo
<1>1. RowsOK
  BY TypeParts
<1>2. CASE UNCHANGED tableVars
  BY <1>2 DEF tableVars
<1>3. CASE rows' \in [RowIds -> Row] /\ SameRows
  BY <1>3 DEF SameRows
<1>4. ASSUME NEW row, rows' = [rows EXCEPT ![nrows + 1] = row] PROVE rows'[i].repo = rows[i].repo
  <2>1. i # nrows + 1
    BY <1>1, WeightsAssumption DEF RowsOK, WeightsAssumption
  <2> QED BY <1>1, <1>4, <2>1 DEF RowsOK
<1>5. ASSUME NEW S, rows' = StampedIn(rows, S) PROVE rows'[i].repo = rows[i].repo
  <2>1. \A row \in Row : [row EXCEPT !.live = FALSE, !.complete = FALSE].repo = row.repo
    BY DEF Row
  <2>2. rows[i] \in Row
    BY <1>1 DEF RowsOK
  <2> QED BY <1>5, <2>1, <2>2 DEF StampedIn
<1>6. ASSUME NEW j \in RowIds, Late(j) PROVE rows' \in [RowIds -> Row] /\ SameRows
  BY <1>1, <1>6, FlightSet DEF Late, Flights
<1>7. ASSUME NEW f \in Fetchers, FetchStarts(f), frow[f] = NoRow PROVE rows'[i].repo = rows[i].repo
  BY <1>4, <1>7 DEF FetchStarts, StartsWith
<1>8. ASSUME RecordPath PROVE rows'[i].repo = rows[i].repo
  <2>1. PICK r \in Repos :
           IF Live(r) = {}
           THEN \E c \in Loadable(hub[r]) :
                   rows' = [rows EXCEPT ![nrows + 1] =
                               [Started(r) EXCEPT !.complete = c, !.flight = "finished"]]
           ELSE \E c \in Loadable(hub[r]) :
                   rows' = [rows EXCEPT ![Newest(Live(r))].complete = c,
                                        ![Newest(Live(r))].flight = "finished"]
    BY <1>8 DEF RecordPath, TypeOK
  <2>2. Live(r) = {} => rows'[i].repo = rows[i].repo
    BY <1>4, <2>1
  <2>3. Live(r) # {} => rows' \in [RowIds -> Row] /\ SameRows
    <3>1. ASSUME Live(r) # {}
          PROVE  \E c \in BOOLEAN : rows' = [rows EXCEPT ![Newest(Live(r))].complete = c,
                                        ![Newest(Live(r))].flight = "finished"]
      BY <2>1, <3>1, LoadableType
    <3> QED BY <1>1, <3>1, MarkSet DEF Flights
  <2> QED BY <1>3, <2>2, <2>3
<1> QED BY <1>2, <1>3, <1>5, <1>6, <1>7, <1>8, OtherSteps, FetchMarks
        DEF WritesRows, Stamp, StampGone

\* The row of a fetch is the row of its repo.
LEMMA RowNext ==
    ASSUME TypeOK, RowInv, [Next]_vars
    PROVE  RowInv'
<1>0. FetchOK /\ RowsOK /\ SweepOK /\ NoRow \notin RowIds
  BY TypeParts DEF NoRow, RowIds
<1>1. ASSUME NEW f \in Fetchers, fpc[f] # "idle", frow[f] # NoRow
      PROVE  rows'[frow[f]].repo = frepo[f]
  <2>1. frow[f] \in RowIds /\ frepo[f] \in Repos /\ rows[frow[f]].repo = frepo[f]
    BY <1>0, <1>1 DEF FetchOK, RowInv
  <2> QED BY <2>1, RepoKept, WeightsAssumption DEF WeightsAssumption
<1>2. CASE UNCHANGED fetchVars
  BY <1>1, <1>2 DEF RowInv, fetchVars
<1>3. ASSUME NEW f \in Fetchers, FetchFinds(f) PROVE RowInv'
  <2>1. PICK r \in Repos :
           /\ frepo' = [frepo EXCEPT ![f] = r]
           /\ frow' = [frow EXCEPT ![f] = IF Live(r) = {} THEN NoRow ELSE Newest(Live(r))]
    BY <1>3 DEF FetchFinds
  <2>2. /\ fpc[f] = "idle" /\ fpc' = [fpc EXCEPT ![f] = "found"] /\ UNCHANGED <<rows, hit>>
    BY <1>3 DEF FetchFinds, FGoes, tableVars
  <2>3. Live(r) # {} => rows[Newest(Live(r))].repo = r
    <3>1. Live(r) \in SUBSET RowIds
      BY DEF Live
    <3>2. Live(r) # {} => Newest(Live(r)) \in Live(r)
      BY <3>1, NewestIn
    <3> QED BY <3>2 DEF Live
  <2> QED BY <1>0, <2>1, <2>2, <2>3 DEF RowInv, FetchOK
<1>4. ASSUME NEW f \in Fetchers, FetchStarts(f) PROVE RowInv'
  <2>1. fpc[f] = "found" /\ fpc' = [fpc EXCEPT ![f] = "down"] /\ UNCHANGED <<frepo, hit>>
    BY <1>4 DEF FetchStarts, StartsWith, FGoes
  <2>2. CASE frow[f] # NoRow
    BY <1>0, <1>1, <1>4, <2>1, <2>2 DEF FetchStarts, StartsWith, RowInv, FetchOK
  <2>3. CASE frow[f] = NoRow
    <3>1. /\ nrows < MaxRows /\ frow' = [frow EXCEPT ![f] = nrows + 1]
          /\ rows' = [rows EXCEPT ![nrows + 1] = Started(frepo[f])]
      BY <1>4, <2>3 DEF FetchStarts, StartsWith
    <3>2. nrows + 1 \in RowIds
      BY <1>0, <3>1, WeightsAssumption DEF RowsOK, RowIds, WeightsAssumption
    <3>3. rows'[nrows + 1].repo = frepo[f]
      BY <1>0, <3>1, <3>2 DEF RowsOK, Started
    <3> QED BY <1>0, <1>1, <2>1, <3>1, <3>2, <3>3 DEF RowInv, FetchOK
  <2> QED BY <2>2, <2>3
<1>5. ASSUME NEW f \in Fetchers, Downloads(f) PROVE RowInv'
  <2>1. fpc[f] = "down" /\ UNCHANGED <<frepo, frow, rows>>
    BY <1>5 DEF Downloads, tableVars
  <2>2. \/ UNCHANGED <<fpc, hit>>
        \/ /\ \E p \in {"landed", "failed"} : fpc' = [fpc EXCEPT ![f] = p]
           /\ hit' = hit \ {f} \/ (f \notin hit /\ hit' = hit)
    BY <1>5 DEF Downloads, FGoes
  <2> QED BY <1>0, <2>1, <2>2 DEF RowInv, FetchOK
<1>6. ASSUME NEW f \in Fetchers, FetchFinishes(f) \/ FetchKilled(f) PROVE RowInv'
  <2>1. FLeaves(f)
    BY <1>6 DEF FetchFinishes, FinishWith, FetchKilled
  <2> QED BY <1>0, <1>1, <2>1 DEF FLeaves, FGoes, FetchOK, RowInv
<1>7. ASSUME NEW s \in Sweepers, SweepStep(s) PROVE RowInv'
  <2>1. UNCHANGED <<fpc, frepo, frow>>
    BY <1>7, SweepFrame
  <2>2. \A f \in hit' : f \in hit \/ fpc[f] = "down"
    BY <1>7 DEF SweepStep, Sweep, ReadVerdicts, ReadKeepers, ReadRows, Scan, Reads, Remove,
       RemoveOne, Stamp, FindOrphans, ClearBlob, SweepEnds, SweepKilled, SweepReset, Writing
  <2> QED BY <1>1, <2>1, <2>2 DEF RowInv
<1>8. \/ UNCHANGED fetchVars
      \/ \E f \in Fetchers : \/ FetchFinds(f) \/ FetchStarts(f) \/ Downloads(f)
                             \/ FetchFinishes(f) \/ FetchKilled(f)
      \/ \E s \in Sweepers : SweepStep(s)
  BY DEF Next, vars, SweepStep, Late, Judge, Reopen, Day, Keep, Elsewhere, Drift, StampGone,
         RecordPath, RecordUnchanged
<1> QED BY <1>2, <1>3, <1>4, <1>5, <1>6, <1>7, <1>8


\* A step that gives no row a new word, moves no directory and leaves each fetch where it
\* was, or out of its download.
LEMMA WholeQuiet ==
    ASSUME WholeInv, \A r \in Repos : Saying(r)' \subseteq Saying(r), UNCHANGED hub,
           astray \subseteq astray',
           \A f \in Fetchers :
              /\ fpc'[f] = "down" => fpc[f] = "down" /\ frepo'[f] = frepo[f]
              /\ fpc'[f] = "landed" => fpc[f] = "landed" /\ frepo'[f] = frepo[f]
              /\ f \in hit' => f \in hit /\ frepo'[f] = frepo[f]
    PROVE  WholeInv'
BY DEF WholeInv, Downloading

LEMMA SayingSame ==
    ASSUME UNCHANGED rows
    PROVE  \A r \in Repos : Saying(r)' = Saying(r)
BY DEF Saying, Live

LEMMA WholeStarts ==
    ASSUME TypeOK, WholeInv, RowInv, RowInv', NEW f \in Fetchers, FetchStarts(f)
    PROVE  WholeInv'
<1> DEFINE r0 == frepo[f]
<1>0. FetchOK /\ RowsOK /\ NoRow \notin RowIds
  BY TypeParts DEF NoRow, RowIds
<1>1. /\ fpc[f] = "found" /\ fpc' = [fpc EXCEPT ![f] = "down"] /\ UNCHANGED <<frepo, hit, hub>>
      /\ astray' = IF {i \in RowIds : rows'[i].repo = r0 /\ rows'[i].live} = {frow'[f]}
                   THEN astray ELSE astray \cup {r0}
  BY DEF FetchStarts, StartsWith, FGoes
<1>2. f \notin hit /\ r0 \in Repos
  BY <1>0, <1>1 DEF RowInv, FetchOK
<1>3. \A r \in Repos : Saying(r)' \subseteq Saying(r)
  <2>1. CASE frow[f] # NoRow
    <3>1. rows' = [rows EXCEPT ![frow[f]].flight = "started", ![frow[f]].complete = FALSE]
      BY <2>1 DEF FetchStarts, StartsWith
    <3> QED BY <1>0, <2>1, <3>1, SayingCleared DEF FetchOK
  <2>2. CASE frow[f] = NoRow
    <3>1. rows' = [rows EXCEPT ![nrows + 1] = Started(r0)] /\ nrows + 1 \in RowIds
      BY <1>0, <2>2, WeightsAssumption
         DEF FetchStarts, StartsWith, RowsOK, RowIds, WeightsAssumption
    <3>2. Started(r0) \in Row /\ ~Started(r0).complete
      BY <1>2, StartedRow DEF Started
    <3> QED BY <1>0, <3>1, <3>2, SayingInserted
  <2> QED BY <2>1, <2>2
<1>4. ~rows'[frow'[f]].complete
  <2>1. CASE frow[f] # NoRow
    <3>1. rows' = [rows EXCEPT ![frow[f]].flight = "started", ![frow[f]].complete = FALSE]
          /\ frow' = frow /\ frow[f] \in RowIds
      BY <1>0, <2>1 DEF FetchStarts, StartsWith, FetchOK
    <3> QED BY <1>0, <3>1 DEF RowsOK, Row
  <2>2. CASE frow[f] = NoRow
    <3>1. /\ rows' = [rows EXCEPT ![nrows + 1] = Started(r0)] /\ nrows + 1 \in RowIds
          /\ frow' = [frow EXCEPT ![f] = nrows + 1]
      BY <1>0, <2>2, WeightsAssumption
         DEF FetchStarts, StartsWith, RowsOK, RowIds, WeightsAssumption
    <3> QED BY <1>0, <3>1 DEF RowsOK, FetchOK, Started
  <2> QED BY <2>1, <2>2
<1>5. ASSUME NEW r \in Repos, r = r0, r \notin astray' PROVE Saying(r)' = {}
  BY <1>1, <1>4, <1>5 DEF Saying, Live
<1>6. ASSUME NEW r \in Repos, r \notin astray', r # r0
      PROVE  r \notin astray /\ (Downloading(r)' => Downloading(r))
  BY <1>0, <1>1, <1>6 DEF Downloading, FetchOK
<1>7. \A g \in Fetchers : fpc'[g] = "landed" => fpc[g] = "landed"
  BY <1>0, <1>1 DEF FetchOK
<1>8. ASSUME NEW r \in Repos, r \notin astray', NEW g \in Fetchers, frepo'[g] = r,
             fpc'[g] = "landed" \/ g \in hit'
      PROVE  hub'[r] = "whole"
  <2>1. r \notin astray
    BY <1>1, <1>8
  <2> QED BY <1>1, <1>7, <1>8, <2>1 DEF WholeInv
<1>9. ASSUME NEW r \in Repos, r \notin astray'
      PROVE  /\ hub'[r] \in {"part", "torn"} => Saying(r)' = {}
             /\ hub'[r] = "none" /\ Downloading(r)' => Saying(r)' = {}
  <2>1. CASE r = r0
    BY <1>5, <1>9, <2>1
  <2>2. CASE r # r0
    <3>1. r \notin astray /\ (Downloading(r)' => Downloading(r)) /\ hub'[r] = hub[r]
      BY <1>1, <1>6, <1>9, <2>2
    <3>2. /\ hub[r] \in {"part", "torn"} => Saying(r) = {}
          /\ hub[r] = "none" /\ Downloading(r) => Saying(r) = {}
      BY <3>1 DEF WholeInv
    <3> QED BY <1>3, <3>1, <3>2
  <2> QED BY <2>1, <2>2
<1> HIDE DEF r0
<1> QED BY <1>8, <1>9 DEF WholeInv

LEMMA WholeDownloads ==
    ASSUME TypeOK, WholeInv, RowInv, NEW f \in Fetchers, Downloads(f)
    PROVE  WholeInv'
<1> DEFINE r0 == frepo[f]
<1>0. FetchOK /\ RestOK
  BY TypeParts
<1>1. /\ fpc[f] = "down" /\ UNCHANGED <<frepo, rows>> /\ r0 \in Repos
      /\ \A r \in Repos : Saying(r)' = Saying(r)
  BY <1>0, SayingSame DEF Downloads, tableVars, FetchOK
<1>2. CASE /\ hub[r0] # "whole" /\ hub[r0] # "part"
           /\ hub' = [hub EXCEPT ![r0] = "part"] /\ UNCHANGED <<fpc, hit, astray>>
  <2>1. r0 \notin astray => Saying(r0) = {}
    BY <1>0, <1>1, <1>2 DEF WholeInv, Downloading, RestOK, Dirs
  <2> QED BY <1>0, <1>1, <1>2, <2>1 DEF WholeInv, Downloading, RestOK
<1>3. CASE /\ f \notin hit /\ hub' = [hub EXCEPT ![r0] = "whole"]
           /\ astray' \in {astray, astray \ {r0}}
           /\ fpc' = [fpc EXCEPT ![f] = "landed"] /\ UNCHANGED hit
  <2>1. hub'[r0] = "whole" /\ \A r \in Repos : r # r0 => hub'[r] = hub[r]
    BY <1>0, <1>1, <1>3 DEF RestOK
  <2>2. \A g \in Fetchers : g # f => fpc'[g] = fpc[g]
    BY <1>0, <1>3 DEF FetchOK
  <2>3. \A r \in Repos : r # r0 => (Downloading(r)' => Downloading(r))
    BY <1>0, <1>1, <1>3 DEF Downloading, FetchOK
  <2>4. \A r \in Repos : r # r0 /\ r \notin astray' => r \notin astray
    BY <1>3
  <2> QED BY <1>1, <1>3, <2>1, <2>2, <2>3, <2>4 DEF WholeInv
<1>4. CASE /\ f \in hit /\ hub' = [hub EXCEPT ![r0] = IF @ = "whole" THEN @ ELSE "torn"]
           /\ fpc' = [fpc EXCEPT ![f] = "landed"] /\ hit' = hit \ {f} /\ UNCHANGED astray
  <2>1. r0 \notin astray => hub[r0] = "whole" /\ hub'[r0] = "whole"
    BY <1>0, <1>1, <1>4 DEF WholeInv, RestOK
  <2>2. \A r \in Repos : r # r0 => hub'[r] = hub[r]
    BY <1>0, <1>4 DEF RestOK
  <2>3. \A g \in Fetchers : g # f => fpc'[g] = fpc[g]
    BY <1>0, <1>4 DEF FetchOK
  <2>4. \A r \in Repos : r # r0 => (Downloading(r)' => Downloading(r))
    BY <1>0, <1>1, <1>4 DEF Downloading, FetchOK
  <2> QED BY <1>1, <1>4, <2>1, <2>2, <2>3, <2>4 DEF WholeInv
<1>5. CASE fpc' = [fpc EXCEPT ![f] = "failed"] /\ hit' = hit \ {f} /\ UNCHANGED <<hub, astray>>
  <2>1. \A g \in Fetchers : fpc'[g] \in {"down", "landed"} => fpc'[g] = fpc[g]
    BY <1>0, <1>5 DEF FetchOK
  <2> QED BY <1>1, <1>5, <2>1, WholeQuiet
<1> QED BY <1>2, <1>3, <1>4, <1>5 DEF Downloads, FGoes

LEMMA WholeFinishes ==
    ASSUME TypeOK, WholeInv, RowInv, NEW f \in Fetchers, FetchFinishes(f)
    PROVE  WholeInv'
<1> DEFINE r0 == frepo[f]
<1>0. FetchOK /\ RowsOK
  BY TypeParts
<1>1. /\ fpc[f] \in {"landed", "failed"} /\ FLeaves(f) /\ UNCHANGED <<hub, astray>>
      /\ \E c \in BOOLEAN :
            /\ rows' = [rows EXCEPT ![frow[f]].complete = c, ![frow[f]].flight = "finished"]
            /\ c => fpc[f] = "landed"
  BY LoadableType DEF FetchFinishes, FinishWith
<1>2. r0 \in Repos /\ frow[f] \in RowIds /\ rows[frow[f]].repo = r0 /\ f \notin hit
  BY <1>0, <1>1 DEF FetchOK, RowInv
<1>3. \A g \in Fetchers : /\ fpc'[g] \in {"down", "landed"} \/ g \in hit' =>
                                g # f /\ fpc'[g] = fpc[g] /\ frepo'[g] = frepo[g] /\ (g \in hit' => g \in hit)
  BY <1>0, <1>1 DEF FLeaves, FGoes, FetchOK
<1>4. PICK c \in BOOLEAN :
         /\ rows' = [rows EXCEPT ![frow[f]].complete = c, ![frow[f]].flight = "finished"]
         /\ c => fpc[f] = "landed"
  BY <1>1
<1>5. CASE ~c
  <2>1. \A r \in Repos : Saying(r)' \subseteq Saying(r)
    BY <1>0, <1>2, <1>4, <1>5, SayingMarked DEF Flights
  <2> QED BY <1>1, <1>3, <2>1, WholeQuiet
<1>6. CASE c
  <2>1. \A r \in Repos : r # r0 => Saying(r)' = Saying(r)
    BY <1>0, <1>2, <1>4, SayingMarked DEF Flights
  <2>2. r0 \notin astray => hub[r0] = "whole"
    BY <1>2, <1>4, <1>6 DEF WholeInv
  <2>3. \A r \in Repos : Downloading(r)' => Downloading(r)
    BY <1>3 DEF Downloading
  <2> QED BY <1>1, <1>3, <2>1, <2>2, <2>3 DEF WholeInv
<1> QED BY <1>5, <1>6

LEMMA WholeRemove ==
    ASSUME TypeOK, WholeInv, RowInv, NEW s \in Sweepers, NEW r0 \in Repos,
           RemoveOne(s, r0) \/ (ClearBlob(s) /\ hub' = [hub EXCEPT ![r0] = "torn"]
                                /\ hub[r0] = "part" /\ hit' = hit \cup Writing(r0)
                                /\ astray' = IF Fetching(r0) THEN astray \cup {r0} ELSE astray)
    PROVE  WholeInv'
<1>0. RestOK
  BY TypeParts
<1>1. /\ UNCHANGED <<fpc, frepo, rows>> /\ hit' = hit \cup Writing(r0)
      /\ \A r \in Repos : Saying(r)' = Saying(r) /\ Downloading(r)' = Downloading(r)
  BY SayingSame DEF RemoveOne, ClearBlob, SweepUnchanged, tableVars, Downloading
<1>2. \A r \in Repos : r # r0 => hub'[r] = hub[r]
  BY <1>0 DEF RemoveOne, RestOK
<1>3. \A f \in hit' : f \in hit \/ frepo[f] = r0
  BY <1>1 DEF Writing
<1>4. astray \subseteq astray' /\ (r0 \notin astray' => ~Fetching(r0))
  BY DEF RemoveOne
<1>5. r0 \notin astray' =>
         /\ ~Downloading(r0)
         /\ \A f \in Fetchers : frepo[f] = r0 => ~(fpc[f] = "landed" \/ f \in hit')
  BY <1>1, <1>4 DEF Fetching, Downloading, Writing, RowInv
<1>6. r0 \notin astray' /\ hub'[r0] \in {"part", "torn"} => Saying(r0) = {}
  BY <1>0, <1>4 DEF RemoveOne, WholeInv, RestOK
<1> QED BY <1>1, <1>2, <1>3, <1>4, <1>5, <1>6 DEF WholeInv

LEMMA WholeRecord ==
    ASSUME TypeOK, WholeInv, RecordPath
    PROVE  WholeInv'
<1>0. RowsOK
  BY TypeParts
<1>1. PICK r0 \in Repos :
         /\ astray' = IF hub[r0] = "whole" THEN astray ELSE astray \cup {r0}
         /\ IF Live(r0) = {}
            THEN \E c \in Loadable(hub[r0]) :
                    rows' = [rows EXCEPT ![nrows + 1] =
                                [Started(r0) EXCEPT !.complete = c, !.flight = "finished"]]
            ELSE \E c \in Loadable(hub[r0]) :
                    rows' = [rows EXCEPT ![Newest(Live(r0))].complete = c,
                                         ![Newest(Live(r0))].flight = "finished"]
  BY DEF RecordPath, TypeOK
<1>2. UNCHANGED <<hub, fpc, frepo, hit>> /\ nrows + 1 \in RowIds
  <2>1. UNCHANGED <<hub, fpc, frepo, hit>> /\ nrows < MaxRows
    BY DEF RecordPath, RecordUnchanged, fetchVars
  <2>2. nrows < MaxRows => nrows + 1 \in RowIds
    BY <1>0, WeightsAssumption DEF RowsOK, RowIds, WeightsAssumption
  <2> QED BY <2>1, <2>2
<1>3. ASSUME NEW r \in Repos, r # r0 PROVE Saying(r)' = Saying(r)
  <2>1. CASE Live(r0) = {}
    <3>1. PICK c \in BOOLEAN :
             rows' = [rows EXCEPT ![nrows + 1] =
                         [Started(r0) EXCEPT !.complete = c, !.flight = "finished"]]
      BY <1>1, <2>1, LoadableType
    <3> DEFINE row == [Started(r0) EXCEPT !.complete = c, !.flight = "finished"]
    <3>2. row \in Row /\ row.repo = r0
      BY StartedRow
    <3>3. rows' = [rows EXCEPT ![nrows + 1] = row]
      BY <3>1
    <3> HIDE DEF row
    <3> QED BY <1>0, <1>2, <1>3, <3>2, <3>3, SayingInserted
  <2>2. CASE Live(r0) # {}
    <3>1. PICK c \in BOOLEAN :
             rows' = [rows EXCEPT ![Newest(Live(r0))].complete = c,
                                  ![Newest(Live(r0))].flight = "finished"]
      BY <1>1, <2>2, LoadableType
    <3>2. Newest(Live(r0)) \in Live(r0)
      <4>1. Live(r0) \in SUBSET RowIds
        BY DEF Live
      <4> QED BY <2>2, <4>1, NewestIn
    <3>3. Newest(Live(r0)) \in RowIds /\ rows[Newest(Live(r0))].repo # r
      BY <1>3, <3>2 DEF Live
    <3> QED BY <1>0, <3>1, <3>3, SayingMarked DEF Flights
  <2> QED BY <2>1, <2>2
<1>4. \A r \in Repos : Downloading(r)' = Downloading(r)
  BY <1>2 DEF Downloading
<1> QED BY <1>1, <1>2, <1>3, <1>4 DEF WholeInv

LEMMA WholeNext ==
    ASSUME TypeOK, WholeInv, RowInv, RowInv', [Next]_vars
    PROVE  WholeInv'
<1>0. FetchOK /\ RowsOK /\ SweepOK
  BY TypeParts
<1>1. ASSUME \A r \in Repos : Saying(r)' \subseteq Saying(r), UNCHANGED <<hub, fpc, frepo, hit>>,
             astray \subseteq astray'
      PROVE  WholeInv'
  BY <1>1, WholeQuiet
<1>2. CASE UNCHANGED <<rows, hub, fpc, frepo, hit, astray>>
  BY <1>1, <1>2, SayingSame
<1>3. ASSUME NEW i \in RowIds, Late(i) PROVE WholeInv'
  BY <1>0, <1>1, <1>3, SayingFlight DEF Late, fetchVars, Flights
<1>4. ASSUME NEW f \in Fetchers, FetchFinds(f) \/ FetchKilled(f) PROVE WholeInv'
  <2>1. UNCHANGED <<rows, hub, astray>> /\ \A r \in Repos : Saying(r)' = Saying(r)
    BY <1>4, SayingSame DEF FetchFinds, FetchKilled, tableVars
  <2>2. CASE FetchFinds(f)
    <3>1. /\ fpc[f] = "idle" /\ fpc' = [fpc EXCEPT ![f] = "found"] /\ UNCHANGED hit
          /\ \E r \in Repos : frepo' = [frepo EXCEPT ![f] = r]
      BY <2>2 DEF FetchFinds, FGoes
    <3>2. \A g \in Fetchers : g # f => fpc'[g] = fpc[g] /\ frepo'[g] = frepo[g]
      BY <1>0, <3>1 DEF FetchOK
    <3>3. fpc'[f] = "found" /\ f \notin hit
      BY <1>0, <3>1 DEF FetchOK, RowInv
    <3> QED BY <2>1, <3>1, <3>2, <3>3, WholeQuiet
  <2>3. CASE FetchKilled(f)
    <3>1. \A g \in Fetchers : g # f => fpc'[g] = fpc[g] /\ frepo'[g] = frepo[g]
      BY <1>0, <2>3 DEF FetchKilled, FLeaves, FGoes, FetchOK
    <3>2. fpc'[f] = "idle" /\ hit' = hit \ {f}
      BY <1>0, <2>3 DEF FetchKilled, FLeaves, FGoes, FetchOK
    <3> QED BY <2>1, <3>1, <3>2, WholeQuiet
  <2> QED BY <1>4, <2>2, <2>3
<1>5. ASSUME NEW f \in Fetchers, FetchStarts(f) \/ Downloads(f) \/ FetchFinishes(f) PROVE WholeInv'
  BY <1>5, WholeStarts, WholeDownloads, WholeFinishes
<1>6. ASSUME NEW s \in Sweepers, Remove(s) PROVE WholeInv'
  <2>1. PICK r \in Repos : RemoveOne(s, r)
    BY <1>0, <1>6 DEF Remove, SweepOK
  <2> QED BY <2>1, WholeRemove
<1>7. ASSUME NEW s \in Sweepers, ClearBlob(s) PROVE WholeInv'
  <2>1. PICK r \in Repos :
           /\ hub' = [hub EXCEPT ![r] = IF @ = "part" THEN "torn" ELSE @]
           /\ hit' = IF hub[r] = "part" THEN hit \cup Writing(r) ELSE hit
           /\ astray' = IF hub[r] = "part" /\ Fetching(r) THEN astray \cup {r} ELSE astray
    BY <1>0, <1>7 DEF ClearBlob, SweepOK
  <2>2. CASE hub[r] = "part"
    <3>1. hub' = [hub EXCEPT ![r] = "torn"]
      BY <2>1, <2>2
    <3> QED BY <1>7, <2>1, <2>2, <3>1, WholeRemove
  <2>3. CASE hub[r] # "part"
    <3>1. UNCHANGED hub
      BY <2>1, <2>3, TypeParts DEF RestOK
    <3> QED BY <1>2, <1>7, <2>1, <2>3, <3>1 DEF ClearBlob, SweepUnchanged, tableVars
  <2> QED BY <2>2, <2>3
<1>8. ASSUME (\E s \in Sweepers : Stamp(s)) \/ StampGone PROVE WholeInv'
  <2>1. (\E S : rows' = StampedIn(rows, S)) /\ UNCHANGED <<hub, fpc, frepo, hit, astray>>
    BY <1>8 DEF Stamp, StampGone, SweepUnchanged, RecordUnchanged, fetchVars
  <2> QED BY <1>0, <1>1, <2>1, SayingStamped
<1>9. CASE RecordPath
  BY <1>9, WholeRecord
<1>10. \/ UNCHANGED <<rows, hub, fpc, frepo, hit, astray>>
       \/ \E i \in RowIds : Late(i)
       \/ \E f \in Fetchers : \/ FetchFinds(f) \/ FetchKilled(f) \/ FetchStarts(f)
                              \/ Downloads(f) \/ FetchFinishes(f)
       \/ \E s \in Sweepers : Remove(s) \/ ClearBlob(s) \/ Stamp(s)
       \/ StampGone \/ RecordPath
  BY DEF Next, vars, tableVars, fetchVars, Judge, Reopen, Day, Keep, Elsewhere, Sweep, ReadVerdicts,
         ReadKeepers, ReadRows, Scan, Reads, FindOrphans, SweepUnchanged, SweepEnds, SweepKilled,
         SweepReset, Drift, RecordUnchanged
<1> QED BY <1>2, <1>3, <1>4, <1>5, <1>6, <1>7, <1>8, <1>9, <1>10
-----------------------------------------------------------------------------
(* Theorems.                                                                 *)

LEMMA InitInv == Init => IInv
<1> SUFFICES ASSUME Init PROVE IInv
  OBVIOUS
<1> USE WeightsAssumption DEF Init, WeightsAssumption
<1>1. StateOK /\ FetchOK /\ SweepOK /\ RestOK
  BY DEF StateOK, FetchOK, SweepOK, RestOK, States, FPlaces, SPlaces, Dirs
<1>2. Blank \in Row /\ Blank.repo = NoRepo
  BY DEF Blank, Row
<1>3. RowsOK
  BY <1>2 DEF RowsOK, RowIds
<1>4. SinceInv /\ \A s \in Sweepers : TodoInv(s)
  BY DEF SinceInv, TodoInv
<1>5. RowInv /\ WholeInv
  <2>1. \A r \in Repos : Saying(r) = {}
    BY DEF Saying, Live, Blank
  <2> QED BY <2>1 DEF RowInv, WholeInv
<1> QED BY <1>1, <1>3, <1>4, <1>5, TypeParts DEF IInv

LEMMA NextInv == IInv /\ [Next]_vars => IInv'
BY TypeNext, SinceNext, TodoNext, RowNext, WholeNext DEF IInv

LEMMA Inductive == Spec => []IInv
BY InitInv, NextInv, PTL DEF Spec

\* The types of the weights cache: rows are found by path and written by id.
THEOREM TypeCorrect == Spec => []TypeOK
<1>1. IInv => TypeOK
  BY DEF IInv
<1> QED BY <1>1, Inductive, PTL

\* A cleanup does not remove a repo that its state, a keeper or the want of a row has
\* protected ever since before its first read (disk.delete).
THEOREM ProtectedStay == Spec => OnlyRefusedGo
<1>1. ASSUME IInv, [Next]_vars
      PROVE  [\A s \in Sweepers, r \in Repos :
                 spc[s] = "delete" /\ spc'[s] = "delete" /\ r \in todo[s] \ todo'[s] =>
                    \A g \in {"state", "keeper", "norow"} : <<r, g>> \notin since[s]]_vars
  BY <1>1 DEF IInv, TodoInv, After
<1> QED BY <1>1, Inductive, PTL DEF Spec, OnlyRefusedGo

\* A cleanup that ends has dealt with all that was due from before its first read
\* (disk.clean).
THEOREM DueFreed == Spec => DueIsFreed
<1>1. ASSUME IInv, [Next]_vars
      PROVE  [\A s \in Sweepers, r \in Repos :
                 spc[s] = "blobs" /\ SweepEnds(s) => <<r, "due">> \notin since[s]]_vars
  BY <1>1 DEF IInv, TodoInv, After
<1> QED BY <1>1, Inductive, PTL DEF Spec, DueIsFreed

\* A row that says a repo is there says it of whole weights, unless the repo went astray
\* (downloads.have).
THEOREM HadIsWhole == Spec => []HaveIsWhole
<1>1. ASSUME IInv PROVE HaveIsWhole
  <2> SUFFICES ASSUME NEW r \in Repos, Have(r), r \notin astray PROVE hub[r] = "whole"
    BY DEF HaveIsWhole
  <2>1. Saying(r) # {} /\ hub[r] # "none"
    BY DEF Have, Saying
  <2>2. hub[r] \in Dirs
    BY <1>1 DEF IInv, TypeOK
  <2> QED BY <1>1, <2>1, <2>2 DEF IInv, WholeInv, Dirs
<1> QED BY <1>1, Inductive, PTL
=============================================================================
