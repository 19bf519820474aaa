---------------------------- MODULE MachineLock ----------------------------
(***************************************************************************)
(* The machine-wide lock of harness/exclusive.py: runs that load models hold *)
(* a kernel lock on one file, name themselves in a second file, and mark the *)
(* environment their children inherit so that a child does not wait for its  *)
(* own parent.  The router's unload and delegation's busy() take the lock     *)
(* too, without a name or a mark.  The kernel drops a dead process's lock; it *)
(* does not take back the mark its children still carry.                     *)
(***************************************************************************)
EXTENDS Naturals, FiniteSets

CONSTANTS
    Runs,    \* processes somebody starts: a command, a job, with-gpu-lock
    Kids,    \* processes those and their children start
    Probes,  \* router.release and delegate.busy
    Nobody   \* no process

Procs == Runs \cup Kids
Holders == Procs \cup Probes

ASSUME ProcsAssumption ==
    /\ Runs \cap Kids = {} /\ Procs \cap Probes = {}
    /\ Nobody \notin Holders

VARIABLES
    pc,      \* a process's place in held / try_held, or in the block it guards
    env,     \* processes whose environment says LH_GPU_LOCK_HELD=1
    parent,  \* who started a process
    above,   \* history: every process a process descends from
    under,   \* history: the process in whose block a process was started
    lock,    \* who holds generation.lock
    named,   \* who generation.holder names
    freeing  \* marked processes that unload models, without the lock

vars == <<pc, env, parent, above, under, lock, named, freeing>>

\* "unborn": not started; "out": not in held; "waiting": polling for the lock;
\* "took": has the lock and has not named itself; "in": in the block it took the
\* lock for; "nested": in a block its mark let it into; "leaving": unlinked its name;
\* "gone": exited or killed; "probing": a probe that has the lock.
Places == {"unborn", "out", "waiting", "took", "in", "nested", "leaving", "gone"}
Owning == {"took", "in", "leaving"}

TypeOK ==
    /\ pc \in [Holders -> Places \cup {"probing"}]
    /\ \A b \in Probes : pc[b] \in {"out", "probing"}
    /\ \A p \in Procs : pc[p] \in Places
    /\ env \subseteq Procs
    /\ parent \in [Procs -> Procs \cup {Nobody}]
    /\ above \in [Procs -> SUBSET Procs]
    /\ under \in [Procs -> Procs \cup {Nobody}]
    /\ lock \in Holders \cup {Nobody}
    /\ named \in Procs \cup {Nobody}
    /\ freeing \subseteq Procs

Init ==
    /\ pc = [p \in Holders |-> IF p \in Kids THEN "unborn" ELSE "out"]
    /\ env = {}
    /\ parent = [p \in Procs |-> Nobody]
    /\ above = [p \in Procs |-> {}]
    /\ under = [p \in Procs |-> Nobody]
    /\ lock = Nobody
    /\ named = Nobody
    /\ freeing = {}

Alive(p) == pc[p] \notin {"unborn", "gone"}
AtWork(p) == pc[p] \in {"in", "nested"}
Goes(p, place) == pc' = [pc EXCEPT ![p] = place]

-----------------------------------------------------------------------------
(* held and try_held.                                                        *)

\* A marked environment: the block runs without the lock.
Nest(p) ==
    /\ pc[p] = "out" /\ p \in env /\ p \notin freeing
    /\ Goes(p, "nested")
    /\ UNCHANGED <<env, parent, above, under, lock, named, freeing>>

Ask(p) ==
    /\ pc[p] = "out" /\ p \notin env
    /\ Goes(p, "waiting")
    /\ UNCHANGED <<env, parent, above, under, lock, named, freeing>>

Take(p) ==
    /\ pc[p] = "waiting" /\ lock = Nobody
    /\ lock' = p
    /\ Goes(p, "took")
    /\ UNCHANGED <<env, parent, above, under, named, freeing>>

\* try_held does not wait: a lock somebody has turns it away.
TurnedAway(p) ==
    /\ pc[p] = "waiting" /\ lock # Nobody
    /\ Goes(p, "out")
    /\ UNCHANGED <<env, parent, above, under, lock, named, freeing>>

\* _write_holder, and the mark children inherit.
EnterBlock(p) ==
    /\ pc[p] = "took"
    /\ named' = p
    /\ env' = env \cup {p}
    /\ under' = [under EXCEPT ![p] = p]
    /\ Goes(p, "in")
    /\ UNCHANGED <<parent, above, lock, freeing>>

\* The children of a process, and those it started inside its block and waits for.
Children(p) == {k \in Kids : Alive(k) /\ parent[k] = p}
Waited(p) == {k \in Children(p) : under[k] = p}

\* What leaving a block does, up to the lock: the mark is taken out of the
\* environment and the name unlinked.
LeaveWith(p, mark) ==
    /\ pc[p] = "in" /\ Waited(p) = {}
    /\ env' = mark
    /\ named' = Nobody
    /\ Goes(p, "leaving")
    /\ UNCHANGED <<parent, above, under, lock, freeing>>

\* Mutants: the mark left in the environment; the lock given back before the name
\* is unlinked.
MutantKeepsMark(p) == LeaveWith(p, env)
MutantReleaseFirst(p) ==
    \/ /\ pc[p] = "in" /\ Waited(p) = {}
       /\ lock' = Nobody
       /\ env' = env \ {p}
       /\ Goes(p, "leaving")
       /\ UNCHANGED <<parent, above, under, named, freeing>>
    \/ /\ pc[p] = "leaving"
       /\ named' = Nobody
       /\ Goes(p, "out")
       /\ UNCHANGED <<env, parent, above, under, lock, freeing>>

Leave(p) == LeaveWith(p, env \ {p})

Release(p) ==
    /\ pc[p] = "leaving"
    /\ lock' = Nobody
    /\ Goes(p, "out")
    /\ UNCHANGED <<env, parent, above, under, named, freeing>>

Unnest(p) ==
    /\ pc[p] = "nested"
    /\ Goes(p, "out")
    /\ UNCHANGED <<env, parent, above, under, lock, named, freeing>>

-----------------------------------------------------------------------------
(* Processes.                                                                *)

SpawnMarked(p, k, marks) ==
    /\ pc[p] \in {"out", "in", "nested"} /\ p \notin freeing
    /\ pc[k] = "unborn"
    /\ Goes(k, "out")
    /\ parent' = [parent EXCEPT ![k] = p]
    /\ above' = [above EXCEPT ![k] = above[p] \cup {p}]
    /\ env' = env \cup marks
    /\ under' = [under EXCEPT ![k] = IF p \in env THEN under[p] ELSE Nobody]
    /\ UNCHANGED <<lock, named, freeing>>

\* Mutant: a child started with a clean environment.
MutantCleanEnv(p, k) == SpawnMarked(p, k, {})

\* A child inherits the environment, and not the open lock file.
Spawn(p, k) == SpawnMarked(p, k, IF p \in env THEN {k} ELSE {})

\* A process exits, or is killed where it stands; the kernel closes its lock file.
Ends(p) ==
    /\ Goes(p, "gone")
    /\ env' = env \ {p}
    /\ lock' = IF lock = p THEN Nobody ELSE lock
    /\ freeing' = freeing \ {p}
    /\ UNCHANGED <<parent, above, under, named>>

Exit(p) == pc[p] = "out" /\ Ends(p)
Killed(p) == Alive(p) /\ pc[p] # "out" /\ Ends(p)

-----------------------------------------------------------------------------
(* router._no_run_in_flight and delegate.busy: unmarked they take the lock or go   *)
(* away; marked they go on without it, and busy then changes nothing.            *)

\* Mutants: an unload that looks at the lock and does not keep it; a probe that names
\* itself as a run does.
MutantLooks(b) ==
    /\ pc[b] = "out" /\ lock = Nobody
    /\ Goes(b, "probing")
    /\ UNCHANGED <<env, parent, above, under, lock, named, freeing>>

MutantProbeNames(b) ==
    /\ pc[b] = "out" /\ lock = Nobody
    /\ lock' = b /\ named' = b
    /\ Goes(b, "probing")
    /\ UNCHANGED <<env, parent, above, under, freeing>>

Probe(b) ==
    /\ pc[b] = "out" /\ lock = Nobody
    /\ lock' = b
    /\ Goes(b, "probing")
    /\ UNCHANGED <<env, parent, above, under, named, freeing>>

ProbeDone(b) ==
    /\ pc[b] = "probing"
    /\ lock' = IF lock = b THEN Nobody ELSE lock
    /\ Goes(b, "out")
    /\ UNCHANGED <<env, parent, above, under, named, freeing>>

\* router.release in a marked environment: no lock is looked at.  Its callers are in no
\* block of their own and have waited for the commands they started.
Unload(p) ==
    /\ p \in env /\ p \notin freeing
    /\ pc[p] = "out" /\ Children(p) = {}
    /\ freeing' = freeing \cup {p}
    /\ UNCHANGED <<pc, env, parent, above, under, lock, named>>

UnloadDone(p) ==
    /\ p \in freeing
    /\ freeing' = freeing \ {p}
    /\ UNCHANGED <<pc, env, parent, above, under, lock, named>>

Works(p) == \/ Nest(p) \/ Ask(p) \/ Take(p) \/ TurnedAway(p) \/ EnterBlock(p)
            \/ Leave(p) \/ Release(p) \/ Unnest(p)

Next == \/ \E p \in Procs : Works(p) \/ Unload(p) \/ UnloadDone(p) \/ Exit(p) \/ Killed(p)
        \/ \E p \in Procs, k \in Kids : Spawn(p, k)
        \/ \E b \in Probes : Probe(b) \/ ProbeDone(b)

Spec == Init /\ [][Next]_vars

\* A block ends, a probe and an unload are short; a command that is not in a block exits
\* in the end, and a waiter that polls gets the lock when it is free often enough.
Fairness ==
    /\ \A p \in Procs : /\ WF_vars(EnterBlock(p) \/ Leave(p) \/ Release(p) \/ Unnest(p))
                        /\ WF_vars(UnloadDone(p))
                        /\ SF_vars(Take(p) \/ Exit(p))
    /\ \A b \in Probes : WF_vars(ProbeDone(b))

FairSpec == Spec /\ Fairness

-----------------------------------------------------------------------------
(* Properties.                                                               *)

\* A process whose chain of parents is broken: one of them exited or was killed.
Orphan(p) == \E a \in above[p] : ~Alive(a)

\* Of the processes at work, all whose parents still live belong to one run, and
\* that run holds the lock: two runs load models at once only when a process outlived
\* a killed or finished parent and kept its mark (exclusive.py:135).
OneRun ==
    \A p \in Procs : AtWork(p) /\ ~Orphan(p) => lock = under[p] /\ pc[under[p]] = "in"

\* A run in its block is the one generation.holder names: the name is unlinked before
\* the lock is given back, so a leaving run never unlinks its successor's name.
HolderNamed == \A p \in Procs : pc[p] = "in" => named = p

\* No unload takes a model from a run that needs it, orphans apart.  While a run is at
\* work nobody unloads under the lock, for the router keeps it as long as it unloads.
\* Whoever unloads on its mark alone, without the lock, has that mark from the run that
\* is at work, and nothing it started is (router.py:126-141).
NoForeignUnload ==
    \A p \in Procs : AtWork(p) /\ ~Orphan(p) =>
        /\ \A b \in Probes : pc[b] # "probing"
        /\ \A u \in freeing : ~Orphan(u) => under[u] = under[p] /\ u \notin above[p]

\* A run that waits gets in, is turned away or dies: nobody keeps the lock, and no
\* child waits for the parent that waits for it (README.md:2178).
WaiterGetsIn == \A p \in Procs : pc[p] = "waiting" ~> pc[p] # "waiting"
=============================================================================
