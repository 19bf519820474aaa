------------------------------ MODULE Weights ------------------------------
(***************************************************************************)
(* The weights cache: fetches that fill it (harness/fetching.py), cleanups   *)
(* that empty it (harness/disk.py: the loop's sweep and `soh disk --delete`), *)
(* `soh disk --record`, and the downloads rows (harness/downloads.py) by which *)
(* all of them and every reader know what a directory is.                    *)
(*                                                                         *)
(* A repo has one hub directory.  Rows are found by its path and updated by  *)
(* their id; they outlive the path, and the path may outlive them.           *)
(***************************************************************************)
EXTENDS Naturals, FiniteSets

CONSTANTS
    Repos,       \* repos with weights, each with a proposal
    Needs,       \* Needs[r]: the repos a runner loads beside r (requires, runner_bases)
    Fetchers,    \* processes that run the fetch tier
    Sweepers,    \* processes that run disk.sweep or `soh disk --delete`
    MaxRows,     \* bound: downloads rows ever inserted
    MaxCrashes,  \* bound: fetches and cleanups killed
    NoRepo       \* no repo

RowIds == 1..MaxRows

ASSUME WeightsAssumption ==
    /\ Needs \in [Repos -> SUBSET Repos]
    /\ MaxRows \in Nat /\ MaxCrashes \in Nat
    /\ NoRepo \notin Repos

VARIABLES
    st,      \* a proposal's state, with the tier that set it
    past,    \* its rejection is more than 24 h old
    kept,    \* repos a keeper names: an alias, a default, an adopted winner
    hub,     \* the repo's directory
    rows,    \* the downloads table
    nrows,   \* ids given out
    fpc, frepo, frow,          \* a fetch: its place, its repo, its row
    hit,     \* fetches whose directory was removed under them
    spc,     \* a cleanup's place
    todo,     \* repos that, by what it has read so far, it is to remove
    blobs,    \* repos it saw an incomplete blob of
    removed,  \* repos it removed and has not stamped
    gone, unrecorded,  \* what --record read and has not written
    crashes,
    since,   \* history: what has held of a repo ever since a cleanup began
    astray   \* history: repos whose files or rows went astray: removed halfway or under
             \* a fetch, recorded as found, fetched beside another row

tableVars == <<rows, nrows>>
fetchVars == <<fpc, frepo, frow, hit>>
sweepVars == <<spc, todo, blobs, removed>>
recVars   == <<gone, unrecorded>>
vars == <<st, past, kept, hub, tableVars, fetchVars, sweepVars, recVars, crashes, since, astray>>

\* "rejected": broken or declined at a tier that follows the fetch.  A decline before it,
\* which neither a fetch nor a cleanup touches, is left out.
States == {"queued", "measured", "rejected"}
\* "part": an incomplete blob in it; "torn": some files, none incomplete.
Dirs == {"none", "part", "torn", "whole"}
NoRow == 0
Row == [repo : Repos \cup {NoRepo}, complete : BOOLEAN,
        flight : {"started", "stale", "finished"}, live : BOOLEAN]
Blank == [repo |-> NoRepo, complete |-> FALSE, flight |-> "finished", live |-> FALSE]

FPlaces == {"idle", "found", "down", "landed", "failed"}
FactNames == {"state", "keeper", "norow", "due"}
SPlaces == {"idle", "keepers", "rows", "scan", "delete", "blobs"}

TypeOK ==
    /\ st \in [Repos -> States] /\ past \in [Repos -> BOOLEAN] /\ kept \subseteq Repos
    /\ hub \in [Repos -> Dirs]
    /\ rows \in [RowIds -> Row] /\ nrows \in 0..MaxRows
    /\ fpc \in [Fetchers -> FPlaces] /\ frepo \in [Fetchers -> Repos \cup {NoRepo}]
    /\ frow \in [Fetchers -> RowIds \cup {NoRow}] /\ hit \subseteq Fetchers
    /\ spc \in [Sweepers -> SPlaces]
    /\ \A f \in {todo, blobs, removed} : f \in [Sweepers -> SUBSET Repos]
    /\ since \in [Sweepers -> SUBSET (Repos \X FactNames)]
    /\ gone \subseteq Repos /\ unrecorded \subseteq Repos /\ astray \subseteq Repos
    /\ crashes \in 0..MaxCrashes
    /\ \A f \in Fetchers : fpc[f] # "idle" => frepo[f] \in Repos
    /\ \A i \in RowIds : rows[i].repo = NoRepo <=> i > nrows

Init ==
    /\ st \in [Repos -> {"queued"}] /\ past = [r \in Repos |-> FALSE] /\ kept = {}
    /\ hub = [r \in Repos |-> "none"]
    /\ rows = [i \in RowIds |-> Blank] /\ nrows = 0
    /\ fpc = [f \in Fetchers |-> "idle"] /\ frepo = [f \in Fetchers |-> NoRepo]
    /\ frow = [f \in Fetchers |-> NoRow] /\ hit = {}
    /\ spc = [s \in Sweepers |-> "idle"]
    /\ todo = [s \in Sweepers |-> {}] /\ blobs = [s \in Sweepers |-> {}]
    /\ removed = [s \in Sweepers |-> {}]
    /\ gone = {} /\ unrecorded = {} /\ crashes = 0
    /\ since = [s \in Sweepers |-> {}] /\ astray = {}

-----------------------------------------------------------------------------
(* Rows.                                                                     *)

Newest(S) == CHOOSE i \in S : \A j \in S : j <= i
Live(r) == {i \in RowIds : rows[i].repo = r /\ rows[i].live}

\* have: a live, complete row whose path is there.
Have(r) == hub[r] # "none" /\ \E i \in Live(r) : rows[i].complete

Started(r) == [repo |-> r, complete |-> FALSE, flight |-> "started", live |-> TRUE]

\* removed: every live row of the path is stamped, whatever it was written for.
StampedIn(table, S) ==
    [i \in RowIds |-> IF table[i].live /\ table[i].repo \in S
                      THEN [table[i] EXCEPT !.live = FALSE, !.complete = FALSE]
                      ELSE table[i]]

\* loadable: one file that is a config or weights is enough.
Loadable(d) == CASE d = "whole" -> {TRUE} [] d = "none" -> {FALSE} [] OTHER -> BOOLEAN

-----------------------------------------------------------------------------
(* What happens to a proposal elsewhere.                                     *)

\* What a cleanup of now would find of r: why it may not remove it (its state, a keeper,
\* no row of its path), or that it is due.
Fact(r, g) ==
    CASE g = "state"  -> ~(st[r] = "rejected" /\ past[r])
      [] g = "keeper" -> r \in kept
      [] g = "norow"  -> Live(r) = {}
      [] g = "due"    -> st[r] = "rejected" /\ past[r] /\ r \notin kept
                         /\ Live(r) # {} /\ hub[r] # "none"
StillHolds == since' = [s \in Sweepers |-> {x \in since[s] : Fact(x[1], x[2])'}]

Elsewhere == UNCHANGED <<hub, tableVars, fetchVars, sweepVars, recVars, crashes, astray>>

\* The screen and measure tiers judge weights that are there, and reject without them too.
Judge(r) ==
    /\ st[r] = "queued"
    /\ \/ st' = [st EXCEPT ![r] = "rejected"]
       \/ Have(r) /\ st' = [st EXCEPT ![r] = "measured"]
    /\ past' = [past EXCEPT ![r] = FALSE]
    /\ UNCHANGED kept /\ Elsewhere /\ StillHolds

\* A retest, a revisit or a retraction.
Reopen(r) ==
    /\ st[r] # "queued"
    /\ st' = [st EXCEPT ![r] = "queued"]
    /\ past' = [past EXCEPT ![r] = FALSE]
    /\ UNCHANGED kept /\ Elsewhere /\ StillHolds

Day(r) ==
    /\ st[r] = "rejected" /\ ~past[r]
    /\ past' = [past EXCEPT ![r] = TRUE]
    /\ UNCHANGED <<st, kept>> /\ Elsewhere /\ StillHolds

\* An adoption, and a later one of another spec.
Keep(r) ==
    /\ \/ r \notin kept /\ st[r] = "measured" /\ kept' = kept \cup {r}
       \/ r \in kept /\ kept' = kept \ {r}
    /\ UNCHANGED <<st, past>> /\ Elsewhere /\ StillHolds

\* A download that has not finished within 24 h counts as dead.
Late(i) ==
    /\ rows[i].flight = "started"
    /\ rows' = [rows EXCEPT ![i].flight = "stale"]
    /\ UNCHANGED <<st, past, kept, hub, nrows, fetchVars, sweepVars, recVars, crashes, since, astray>>

-----------------------------------------------------------------------------
(* A fetch: fetching.run and download.                                       *)

FetchUnchanged == UNCHANGED <<st, past, kept, sweepVars, recVars>>
FGoes(f, p) == fpc' = [fpc EXCEPT ![f] = p]
FLeaves(f) == /\ FGoes(f, "idle") /\ hit' = hit \ {f}
              /\ frepo' = [frepo EXCEPT ![f] = NoRepo] /\ frow' = [frow EXCEPT ![f] = NoRow]

\* A queued repo that is not here, or one that a queued repo needs; start looks for a
\* live row of its path.
FetchFinds(f) ==
    /\ fpc[f] = "idle"
    /\ \E r \in Repos :
          /\ \/ st[r] = "queued"
             \/ \E c \in Repos : st[c] = "queued" /\ Have(c) /\ r \in Needs[c]
          /\ ~Have(r)
          /\ frepo' = [frepo EXCEPT ![f] = r]
          /\ frow' = [frow EXCEPT ![f] = IF Live(r) = {} THEN NoRow ELSE Newest(Live(r))]
    /\ FGoes(f, "found")
    /\ UNCHANGED <<hub, tableVars, hit, crashes, since, astray>> /\ FetchUnchanged

StartsWith(f, id) ==
    /\ fpc[f] = "found"
    /\ \/ /\ frow[f] = NoRow /\ nrows < MaxRows
          /\ nrows' = id
          /\ rows' = [rows EXCEPT ![nrows + 1] = Started(frepo[f])]
          /\ frow' = [frow EXCEPT ![f] = nrows + 1]
       \/ /\ frow[f] # NoRow
          /\ rows' = [rows EXCEPT ![frow[f]].flight = "started", ![frow[f]].complete = FALSE]
          /\ UNCHANGED <<nrows, frow>>
    /\ FGoes(f, "down")
    /\ LET r == frepo[f] IN
          astray' = IF {i \in RowIds : rows'[i].repo = r /\ rows'[i].live} = {frow'[f]}
                    THEN astray ELSE astray \cup {r}
    /\ UNCHANGED <<hub, frepo, hit, crashes>> /\ FetchUnchanged
    /\ StillHolds

\* start: the row is in flight from here; a row found a moment ago is updated by id.
\* Mutant: an insert that takes no new id.
MutantNoId(f) == StartsWith(f, nrows)
FetchStarts(f) == StartsWith(f, nrows + 1)

\* snapshot_download begins a file, or has them all, or raises.
Downloads(f) ==
    /\ fpc[f] = "down"
    /\ \/ /\ hub[frepo[f]] # "whole" /\ hub[frepo[f]] # "part"
          /\ hub' = [hub EXCEPT ![frepo[f]] = "part"]
          /\ UNCHANGED <<fpc, hit, astray>>
       \/ /\ f \notin hit /\ hub[frepo[f]] \in {"part", "whole"}
          /\ hub' = [hub EXCEPT ![frepo[f]] = "whole"]
          /\ astray' = IF Live(frepo[f]) = {frow[f]} THEN astray \ {frepo[f]} ELSE astray
          /\ FGoes(f, "landed") /\ UNCHANGED hit
       \/ /\ f \in hit
          /\ hub' = [hub EXCEPT ![frepo[f]] = IF @ = "whole" THEN @ ELSE "torn"]
          /\ FGoes(f, "landed") /\ hit' = hit \ {f} /\ UNCHANGED astray
       \/ /\ FGoes(f, "failed") /\ hit' = hit \ {f}
          /\ UNCHANGED <<hub, astray>>
    /\ UNCHANGED <<tableVars, frepo, frow, crashes, since>> /\ FetchUnchanged

FinishWith(f, c) ==
    /\ rows' = [rows EXCEPT ![frow[f]].complete = c, ![frow[f]].flight = "finished"]
    /\ FLeaves(f)
    /\ UNCHANGED <<hub, nrows, crashes, since, astray>> /\ FetchUnchanged

\* Mutant: a failed download measured like any other.
MutantMeasureFailed(f) ==
    /\ fpc[f] \in {"landed", "failed"}
    /\ \E c \in Loadable(hub[frepo[f]]) : FinishWith(f, c)

\* finish, by the id start gave, whatever became of the row since.
FetchFinishes(f) ==
    \/ fpc[f] = "failed" /\ FinishWith(f, FALSE)
    \/ fpc[f] = "landed" /\ \E c \in Loadable(hub[frepo[f]]) : FinishWith(f, c)

FetchKilled(f) ==
    /\ fpc[f] # "idle" /\ crashes < MaxCrashes
    /\ crashes' = crashes + 1
    /\ FLeaves(f)
    /\ UNCHANGED <<hub, tableVars, since, astray>> /\ FetchUnchanged

-----------------------------------------------------------------------------
(* A cleanup: inventory, delete, record, clear_incomplete.                   *)

SweepUnchanged == UNCHANGED <<st, past, kept, fpc, frepo, frow, recVars>>
SGoes(s, p) == spc' = [spc EXCEPT ![s] = p]

Reads(s, here, there, left) ==
    /\ spc[s] = here
    /\ todo' = [todo EXCEPT ![s] = left]
    /\ SGoes(s, there)
    /\ UNCHANGED <<hub, tableVars, hit, removed, crashes, astray>> /\ SweepUnchanged

\* inventory reads the verdicts, and measures their age from its start.
ReadVerdicts(s) ==
    /\ Reads(s, "idle", "keepers", {r \in Repos : st[r] = "rejected" /\ past[r]})
    /\ since' = [since EXCEPT ![s] = {x \in Repos \X FactNames : Fact(x[1], x[2])}]
    /\ UNCHANGED blobs

\* Then the keepers: one that cannot be read ends the cleanup.  Mutant: it is passed
\* over.
MutantNoKeepers(s) ==
    /\ \E K \in {kept, {}} : Reads(s, "keepers", "rows", todo[s] \ K)
    /\ UNCHANGED <<blobs, since>>

ReadKeepers(s) ==
    /\ \/ Reads(s, "keepers", "rows", todo[s] \ kept)
       \/ Reads(s, "keepers", "idle", {})
    /\ UNCHANGED <<blobs, since>>

\* Then the rows, which say whose a path is.  Mutant: only those of complete
\* downloads.
MutantCompleteRows(s) ==
    /\ Reads(s, "rows", "scan", {r \in todo[s] : \E i \in Live(r) : rows[i].complete})
    /\ UNCHANGED <<blobs, since>>

ReadRows(s) ==
    /\ Reads(s, "rows", "scan", {r \in todo[s] : Live(r) # {}})
    /\ UNCHANGED <<blobs, since>>

\* Then the directories; what is left is what safe_to_delete allows.
Scan(s) ==
    /\ Reads(s, "scan", "delete", {r \in todo[s] : hub[r] # "none"})
    /\ blobs' = [blobs EXCEPT ![s] = {r \in Repos : hub[r] = "part"}]
    /\ since' = [since EXCEPT ![s] = {x \in @ : x[1] \in todo'[s] \/ x[2] = "due"}]

\* A fetch of r goes on; fetches that are writing into its directory.
Fetching(r) == \E f \in Fetchers : fpc[f] \in {"down", "landed"} /\ frepo[f] = r
Writing(r) == {f \in Fetchers : fpc[f] = "down" /\ frepo[f] = r /\ hub[r] # "none"}

\* _remove one entry: it goes; or rmtree raises on the way, and the error is listed.
RemoveOne(s, r) ==
    /\ todo' = [todo EXCEPT ![s] = @ \ {r}]
    /\ hit' = hit \cup Writing(r)
    /\ \/ /\ hub' = [hub EXCEPT ![r] = "none"]
          /\ removed' = [removed EXCEPT ![s] = @ \cup {r}]
          /\ astray' = IF Fetching(r) THEN astray \cup {r} ELSE astray
          /\ UNCHANGED crashes
       \/ /\ crashes < MaxCrashes
          /\ crashes' = crashes + 1
          /\ hub' = [hub EXCEPT ![r] = "torn"]
          /\ astray' = astray \cup {r}
          /\ UNCHANGED removed
    /\ UNCHANGED <<tableVars, spc, blobs>> /\ SweepUnchanged
    /\ since' = [t \in Sweepers |-> {x \in since[t] : /\ Fact(x[1], x[2])'
                                                      /\ t = s => x[1] # r}]

Remove(s) == spc[s] = "delete" /\ \E r \in todo[s] : RemoveOne(s, r)

\* record stamps the rows of what went; clear_incomplete reads the rows again and
\* leaves the blobs of a download in flight.
InFlight(r) == \E i \in Live(r) : i = Newest(Live(r)) /\ rows[i].flight = "started"

Orphaned(s) == {r \in blobs[s] : Live(r) # {} /\ ~InFlight(r)}

Stamp(s) ==
    /\ spc[s] = "delete" /\ todo[s] = {} /\ removed[s] # {}
    /\ rows' = StampedIn(rows, removed[s])
    /\ removed' = [removed EXCEPT ![s] = {}]
    /\ UNCHANGED <<hub, nrows, hit, spc, blobs, todo, crashes, astray>>
    /\ SweepUnchanged
    /\ StillHolds

FindOrphans(s) ==
    /\ spc[s] = "delete" /\ todo[s] = {} /\ removed[s] = {}
    /\ blobs' = [blobs EXCEPT ![s] = Orphaned(s)]
    /\ SGoes(s, "blobs")
    /\ UNCHANGED <<hub, tableVars, hit, todo, removed, crashes, since, astray>>
    /\ SweepUnchanged

\* The blobs are unlinked; `soh disk --delete` leaves them.
ClearBlob(s) ==
    /\ spc[s] = "blobs"
    /\ \E r \in blobs[s] :
          /\ blobs' = [blobs EXCEPT ![s] = @ \ {r}]
          /\ hub' = [hub EXCEPT ![r] = IF @ = "part" THEN "torn" ELSE @]
          /\ hit' = IF hub[r] = "part" THEN hit \cup Writing(r) ELSE hit
          /\ astray' = IF hub[r] = "part" /\ Fetching(r) THEN astray \cup {r} ELSE astray
    /\ UNCHANGED <<tableVars, spc, todo, removed, crashes, since>>
    /\ SweepUnchanged

SweepReset(s) ==
    /\ SGoes(s, "idle")
    /\ todo' = [todo EXCEPT ![s] = {}] /\ blobs' = [blobs EXCEPT ![s] = {}]
    /\ removed' = [removed EXCEPT ![s] = {}]
    /\ since' = [since EXCEPT ![s] = {}]
    /\ UNCHANGED <<hub, tableVars, hit, astray>> /\ SweepUnchanged

SweepEnds(s) ==
    /\ spc[s] = "blobs"
    /\ SweepReset(s) /\ UNCHANGED crashes

SweepKilled(s) ==
    /\ spc[s] # "idle" /\ crashes < MaxCrashes
    /\ crashes' = crashes + 1
    /\ SweepReset(s)

Sweep(s) == \/ ReadVerdicts(s) \/ ReadKeepers(s) \/ ReadRows(s) \/ Scan(s) \/ Remove(s)
            \/ Stamp(s) \/ FindOrphans(s) \/ ClearBlob(s) \/ SweepEnds(s)

-----------------------------------------------------------------------------
(* `soh disk --record`: drift, then a row for each path and a stamp for each   *)
(* row without one.                                                          *)

RecordUnchanged == UNCHANGED <<st, past, kept, hub, fetchVars, sweepVars, crashes>>

Drift ==
    /\ gone = {} /\ unrecorded = {}
    /\ gone' = {r \in Repos : Live(r) # {} /\ hub[r] = "none"}
    /\ unrecorded' = {r \in Repos : Live(r) = {} /\ hub[r] # "none"}
    /\ UNCHANGED <<tableVars, since, astray>> /\ RecordUnchanged

StampGone ==
    /\ gone # {}
    /\ rows' = StampedIn(rows, gone)
    /\ gone' = {}
    /\ UNCHANGED <<nrows, unrecorded, astray>> /\ RecordUnchanged
    /\ StillHolds

RecordPath ==
    /\ gone = {} /\ nrows < MaxRows
    /\ \E r \in unrecorded :
          /\ unrecorded' = unrecorded \ {r}
          /\ astray' = IF hub[r] = "whole" THEN astray ELSE astray \cup {r}
          /\ IF Live(r) = {}
             THEN /\ nrows' = nrows + 1
                  /\ \E c \in Loadable(hub[r]) :
                        rows' = [rows EXCEPT ![nrows + 1] =
                                    [Started(r) EXCEPT !.complete = c, !.flight = "finished"]]
             ELSE /\ \E c \in Loadable(hub[r]) :
                        rows' = [rows EXCEPT ![Newest(Live(r))].complete = c,
                                             ![Newest(Live(r))].flight = "finished"]
                  /\ UNCHANGED nrows
    /\ UNCHANGED gone /\ RecordUnchanged
    /\ StillHolds

Next ==
    \/ \E r \in Repos : Judge(r) \/ Reopen(r) \/ Day(r) \/ Keep(r)
    \/ \E i \in RowIds : Late(i)
    \/ \E f \in Fetchers : \/ FetchFinds(f) \/ FetchStarts(f) \/ Downloads(f)
                           \/ FetchFinishes(f) \/ FetchKilled(f)
    \/ \E s \in Sweepers : Sweep(s) \/ SweepKilled(s)
    \/ Drift \/ StampGone \/ RecordPath

Spec == Init /\ [][Next]_vars

-----------------------------------------------------------------------------
(* Properties.                                                               *)

\* What one and the same thing has protected from a cleanup's first read on is not
\* removed: a state other than a rejection of 24 h ago, a keeper, or having no row.
OnlyRefusedGo ==
    [][\A s \in Sweepers, r \in Repos :
          spc[s] = "delete" /\ spc'[s] = "delete" /\ r \in todo[s] \ todo'[s] =>
             \A g \in {"state", "keeper", "norow"} : <<r, g>> \notin since[s]]_vars

\* A cleanup that comes to its end has removed, or failed to remove, what was due from
\* its first read on (disk.clean, "rejected past grace").
DueIsFreed ==
    [][\A s \in Sweepers, r \in Repos :
          spc[s] = "blobs" /\ SweepEnds(s) => <<r, "due">> \notin since[s]]_vars

\* have means whole weights, unless a removal was cut off or went on under a fetch, a
\* person had --record take what was there for a download, or a fetch began on a row that
\* was stamped meanwhile or beside another row of its path.
HaveIsWhole == \A r \in Repos : Have(r) => hub[r] = "whole" \/ r \in astray

\* keepers (disk.py:219) "Everything that must never be deleted, with why.": a cleanup
\* that knows an adopted model does not remove what its runner loads beside it.
NeededKept ==
    [][\A s \in Sweepers, c \in Repos : <<c, "keeper">> \in since[s] =>
          \A d \in Needs[c] : spc'[s] = "delete" => d \notin todo'[s]]_vars
=============================================================================
