------------------------------- MODULE Usage -------------------------------
(***************************************************************************)
(* The usage log of harness/usage.py: the gateway's callback puts a row per  *)
(* request on a bounded queue (put), a daemon thread drains it in batches    *)
(* into the store (_run), `soh usage --text` turns prompt samples on and off, *)
(* adoptions move the specs rows are labelled with, and the gateway may be   *)
(* restarted at any step, which loses what the thread had not written.       *)
(*                                                                         *)
(* A row is its number in the order the callback made it.                    *)
(***************************************************************************)
EXTENDS Naturals, FiniteSets

CONSTANTS
    MaxRows,       \* bound: rows ever made
    QUEUE_MAX,     \* rows the queue holds
    BATCH_MAX,     \* rows one batch takes
    SAMPLE_ROWS,   \* newest samples kept
    MaxAdoptions,  \* bound: adoptions ever recorded
    MaxRestarts    \* bound: gateway restarts

Rows == 1..MaxRows

ASSUME BoundsAssumption ==
    /\ MaxRows \in Nat /\ MaxAdoptions \in Nat /\ MaxRestarts \in Nat
    /\ QUEUE_MAX \in Nat \ {0} /\ BATCH_MAX \in Nat \ {0} /\ SAMPLE_ROWS \in Nat \ {0}

VARIABLES
    made,      \* rows the callback has made
    q,         \* rows on the queue
    stop,      \* the _stop event
    pc,        \* the thread's place in _run
    stopping,  \* what it read of stop before it drained
    batch,     \* rows it has taken off the queue
    conn,      \* it has a connection
    specs,     \* the adoptions it labels rows with; None: no labels; Typed: the typed defaults
    disabled,  \* it must not write this store
    keep,      \* what insert read of the text flag
    dropped,   \* the count of rows dropped
    loaded,    \* the count as the thread read it, before it adds to it
    stored,    \* rows in gateway_requests
    label,     \* the adoptions a stored row was labelled with
    samples,   \* rows with a gateway_samples row
    text,      \* meta's usage_text
    adopted,   \* adoptions recorded
    served,    \* the adoptions in the config the gateway was started with
    lost,      \* history: rows given up before they were written
    doubted,   \* history: rows written by a commit whose answer was lost
    servedFor, \* history: what was served when a row was made
    stopAt,    \* history: rows made when the stop was asked for
    off,       \* history: text has been off since the thread was last at the top
    restarts

queueVars  == <<made, q, servedFor>>
threadVars == <<pc, stopping, batch, conn, specs, disabled, keep, loaded>>
storeVars  == <<stored, label, samples, doubted>>
ownerVars  == <<text, off, adopted, served, restarts>>
closeVars  == <<stop, stopAt>>
vars == <<queueVars, threadVars, storeVars, ownerVars, closeVars, dropped, lost>>

None == MaxAdoptions + 1
Typed == MaxAdoptions + 2
Adoptions == 0..MaxAdoptions
PCs == {"top", "drain", "open", "insert", "commit", "count", "counted", "ended"}

TypeOK ==
    /\ made \in 0..MaxRows
    /\ q \subseteq 1..made /\ Cardinality(q) <= QUEUE_MAX
    /\ batch \subseteq 1..made /\ Cardinality(batch) <= BATCH_MAX
    /\ stop \in BOOLEAN /\ stopAt \in 0..MaxRows
    /\ pc \in PCs /\ stopping \in BOOLEAN /\ keep \in BOOLEAN /\ conn \in BOOLEAN
    /\ disabled \in BOOLEAN
    /\ specs \in Adoptions \cup {None, Typed}
    /\ dropped \in Nat /\ loaded \in Nat
    /\ stored \subseteq 1..made /\ lost \subseteq 1..made
    /\ doubted \subseteq Rows /\ samples \subseteq Rows
    /\ label \in [Rows -> Adoptions \cup {None, Typed}]
    /\ servedFor \in [Rows -> Adoptions]
    /\ text \in BOOLEAN /\ off \in BOOLEAN
    /\ adopted \in Adoptions /\ served \in 0..adopted
    /\ restarts \in 0..MaxRestarts

\* A new gateway process: an empty queue and a thread at the top of its loop.
FreshWriter == /\ q' = {} /\ batch' = {} /\ pc' = "top" /\ conn' = FALSE /\ specs' = None
               /\ stop' = FALSE /\ stopping' = FALSE /\ disabled' = FALSE /\ keep' = FALSE
               /\ dropped' = 0 /\ loaded' = 0

Init ==
    /\ made = 0 /\ q = {} /\ batch = {} /\ pc = "top" /\ conn = FALSE /\ specs = None
    /\ stop = FALSE /\ stopping = FALSE /\ disabled = FALSE /\ keep = FALSE
    /\ dropped = 0 /\ loaded = 0 /\ stopAt = 0
    /\ stored = {} /\ samples = {} /\ lost = {} /\ doubted = {}
    /\ label = [r \in Rows |-> None]
    /\ servedFor = [r \in Rows |-> 0]
    /\ text \in BOOLEAN /\ off = FALSE /\ adopted = 0 /\ served = 0 /\ restarts = 0

-----------------------------------------------------------------------------
(* The gateway's callback and the people around it.                          *)

\* put: enqueue without waiting; a full queue drops the row and counts it.
Put ==
    /\ made < MaxRows
    /\ made' = made + 1
    /\ servedFor' = [servedFor EXCEPT ![made + 1] = served]
    /\ \/ /\ Cardinality(q) < QUEUE_MAX
          /\ q' = q \cup {made + 1}
          /\ UNCHANGED <<dropped, lost>>
       \/ /\ Cardinality(q) >= QUEUE_MAX
          /\ dropped' = dropped + 1
          /\ lost' = lost \cup {made + 1}
          /\ UNCHANGED q
    /\ UNCHANGED <<threadVars, storeVars, ownerVars, closeVars>>

\* `soh usage --text on|off`.
SetText ==
    /\ text' = ~text
    /\ off' = (off /\ ~text')
    /\ UNCHANGED <<queueVars, threadVars, storeVars, adopted, served, restarts,
                   closeVars, dropped, lost>>

Adopt ==
    /\ adopted < MaxAdoptions
    /\ adopted' = adopted + 1
    /\ UNCHANGED <<queueVars, threadVars, storeVars, text, off, served, restarts,
                   closeVars, dropped, lost>>

\* close sets the event; it then joins the thread.
Close ==
    /\ ~stop
    /\ stop' = TRUE
    /\ stopAt' = made
    /\ UNCHANGED <<queueVars, threadVars, storeVars, ownerVars, dropped, lost>>

\* Mutant: the gateway takes up a new config without a new process.
MutantReload ==
    /\ served' = adopted
    /\ UNCHANGED <<queueVars, threadVars, storeVars, text, off, adopted, restarts,
                   closeVars, dropped, lost>>

\* The gateway is restarted, by launchd or by a switch that wrote the adoptions
\* into the served config: the daemon thread and the queue are gone.
Restart ==
    /\ restarts < MaxRestarts
    /\ restarts' = restarts + 1
    /\ served' \in {served, adopted}
    /\ lost' = lost \cup ((q \cup batch) \ stored)
    /\ FreshWriter
    /\ UNCHANGED <<made, servedFor, storeVars, text, off, adopted, stopAt>>

-----------------------------------------------------------------------------
(* The thread: _run.                                                         *)

Go(p) == pc' = p

TopTo(p) ==
    /\ pc = "top"
    /\ stopping' = stop
    /\ off' = ~text
    /\ Go(p)
    /\ UNCHANGED <<queueVars, batch, conn, specs, disabled, keep, loaded, storeVars, text,
                   adopted, served, restarts, closeVars, dropped, lost>>

\* The stop event is read before the queue is drained.  Mutant: a set event ends
\* the thread there.
MutantStopAtOnce == TopTo(IF stop THEN "ended" ELSE "drain")
Top == TopTo("drain")

Take(r) ==
    /\ pc = "drain"
    /\ q' = q \ {r}
    /\ batch' = batch \cup {r}
    /\ UNCHANGED <<made, servedFor, pc, stopping, conn, specs, disabled, keep, loaded,
                   storeVars, ownerVars, closeVars, dropped, lost>>

\* Mutants: a batch one row too long; a queue that gives the newest row first.
MutantLongBatch == \E r \in q : Cardinality(batch) <= BATCH_MAX /\ (\A s \in q : r <= s) /\ Take(r)
MutantNewestFirst == \E r \in q : Cardinality(batch) < BATCH_MAX /\ (\A s \in q : r >= s) /\ Take(r)

\* _drain takes the oldest row, up to BATCH_MAX of them.
Drain == \E r \in q : Cardinality(batch) < BATCH_MAX /\ (\A s \in q : r <= s) /\ Take(r)

\* _drain returns: at BATCH_MAX, or when the queue has nothing (more) for it.
Drained ==
    /\ pc = "drain"
    /\ q = {} \/ Cardinality(batch) >= BATCH_MAX
    /\ Go(IF batch = {} THEN IF stopping THEN "ended" ELSE "top"
          ELSE IF disabled THEN "count" ELSE IF conn THEN "insert" ELSE "open")
    /\ conn' = (conn /\ ~(batch = {} /\ stopping))
    /\ UNCHANGED <<queueVars, stopping, batch, specs, disabled, keep, loaded, storeVars,
                   ownerVars, closeVars, dropped, lost>>

\* Mutant: a refused store raises out of the thread.
MutantOpenRaises ==
    /\ pc = "open"
    /\ Go("ended")
    /\ UNCHANGED <<queueVars, stopping, batch, conn, specs, disabled, keep, loaded,
                   storeVars, ownerVars, closeVars, dropped, lost>>

\* _open and _specs: a connection, and the adoptions of now, or the typed defaults when
\* lane_defaults cannot read them, or no labels when it raises; no connection; or a
\* store this gateway must not write.
Open ==
    /\ pc = "open"
    /\ \/ /\ conn' = TRUE
          /\ specs' \in {adopted, Typed, None}
          /\ Go("insert")
          /\ UNCHANGED disabled
       \/ /\ disabled' \in {disabled, TRUE}
          /\ Go("count")
          /\ UNCHANGED <<conn, specs>>
    /\ UNCHANGED <<queueVars, stopping, batch, keep, loaded, storeVars, ownerVars,
                   closeVars, dropped, lost>>

\* Mutant: the text flag read with the first batch of a connection only.
MutantTextOnce ==
    /\ pc = "insert"
    /\ keep' = (keep \/ text)
    /\ Go("commit")
    /\ UNCHANGED <<queueVars, stopping, batch, conn, specs, disabled, loaded, storeVars,
                   ownerVars, closeVars, dropped, lost>>

\* insert reads the text flag; its own commit comes later.
Insert ==
    /\ pc = "insert"
    /\ keep' = text
    /\ Go("commit")
    /\ UNCHANGED <<queueVars, stopping, batch, conn, specs, disabled, loaded, storeVars,
                   ownerVars, closeVars, dropped, lost>>

\* The newest SAMPLE_ROWS of S: what the DELETE of insert leaves.
Newest(S) == {r \in S : Cardinality({s \in S : s > r}) < SAMPLE_ROWS}

\* The batch is in the store, each row with the label of this connection's specs.
Write ==
    /\ stored' = stored \cup batch
    /\ label' = [r \in Rows |-> IF r \in batch THEN specs ELSE label[r]]
    /\ samples' = IF keep THEN Newest(samples \cup batch) ELSE samples

\* insert writes the batch in one transaction: it commits, or it does not, or it
\* does and the answer is lost with the connection.
Commit ==
    /\ pc = "commit"
    /\ \/ /\ Write /\ batch' = {} /\ Go("top")
          /\ UNCHANGED doubted
       \/ /\ Write /\ doubted' = doubted \cup batch /\ Go("count")
          /\ UNCHANGED batch
       \/ /\ Go("count")
          /\ UNCHANGED <<storeVars, batch>>
    /\ UNCHANGED <<queueVars, stopping, conn, specs, disabled, keep, loaded, ownerVars,
                   closeVars, dropped, lost>>

\* `self.dropped += len(batch)` reads the count ...
Count ==
    /\ pc = "count"
    /\ loaded' = dropped
    /\ Go("counted")
    /\ UNCHANGED <<queueVars, stopping, batch, conn, specs, disabled, keep, storeVars,
                   ownerVars, closeVars, dropped, lost>>

\* ... and writes it back, over what put may have added; the connection is closed.
CountedBy(n, left) ==
    /\ pc = "counted"
    /\ dropped' = loaded + n
    /\ lost' = lost \cup (batch \ stored)
    /\ batch' = left
    /\ conn' = FALSE
    /\ Go("top")
    /\ UNCHANGED <<queueVars, stopping, specs, disabled, keep, loaded, storeVars,
                   ownerVars, closeVars>>

\* Mutants: a batch counted where it fails and again where it is dropped; a batch
\* counted as dropped and kept for another try.
MutantCountTwice == CountedBy(2 * Cardinality(batch), {})
MutantKeepBatch == CountedBy(Cardinality(batch), batch)
Counted == CountedBy(Cardinality(batch), {})

Thread == Top \/ Drain \/ Drained \/ Open \/ Insert \/ Commit \/ Count \/ Counted
Owner  == SetText \/ Adopt \/ Close \/ Restart
Next   == Put \/ Owner \/ Thread

Spec == Init /\ [][Next]_vars

\* The thread is scheduled; its queue read times out, and store calls return or raise.
FairSpec == Spec /\ WF_vars(Thread)

-----------------------------------------------------------------------------
(* Properties.                                                               *)

\* A row is in exactly one place: queued or in the batch, or stored, or lost; rows
\* of the batch whose commit lost its answer are stored already.
Conserved ==
    /\ q \cap (batch \cup stored \cup lost) = {}
    /\ (batch \cup stored) \cap lost = {}
    /\ batch \cap stored \subseteq doubted
    /\ 1..made = q \cup batch \cup stored \cup lost

\* usage.py:275 "Write what is queued, then stop": a thread that ended after close
\* left no row queued that was put before close was called.
WrittenByClose == pc = "ended" => batch = {} /\ \A r \in q : r > stopAt

\* dropped never counts a row the store is known to have: two threads add to it
\* without a lock, so it may fall behind the rows lost, and never runs ahead of
\* them except for rows whose commit lost its answer.
DroppedAtMostLost == dropped <= Cardinality(lost \cup doubted)

\* A stored row that is labelled from the adoptions never has the label of an older
\* one than the gateway was serving when it answered the request (_specs,
\* usage.py:164-171).  A row labelled while the adoptions could not be read has the typed
\* defaults in their place, and those may be older (adopt.py:575).
LabelNotOlder ==
    \A r \in stored : label[r] \in Adoptions => label[r] >= servedFor[r]

\* Prompt text is not kept for a batch the thread begins after text was turned off,
\* whatever an earlier batch of the same connection read.
NoTextWhenOff == [][off => samples' \subseteq samples]_vars

\* Until somebody closes the log, every row on the queue is written or given up: no
\* failure of the store or of the connection leaves a row in hand for ever.
EveryRowSettles ==
    \A r \in Rows : r \in q \cup batch ~> (r \notin q \cup batch \/ stop)

\* The ledger this implements.
Fate(r) == IF r \in stored THEN "stored" ELSE IF r \in lost THEN "lost"
           ELSE IF r <= made THEN "held" ELSE "new"
Ledger == INSTANCE UsageLedger WITH fate <- [r \in Rows |-> Fate(r)]

\* Each row handed to the log is held, then stored or lost, oldest first, and stays
\* so, across drains, failed batches, lost answers and gateway restarts.
ImplementsLedger == Ledger!Spec
=============================================================================
