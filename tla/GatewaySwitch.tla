--------------------------- MODULE GatewaySwitch ---------------------------
(***************************************************************************)
(* Re-pointing the gateway's lane aliases after an adoption:                 *)
(* harness/gateway_switch.py, the end of adopt.record that starts it, the    *)
(* machine lock of harness/exclusive.py it waits for, and                    *)
(* scripts/serve-gateway.sh, which writes the served config once more every  *)
(* time the gateway starts.                                                  *)
(*                                                                         *)
(* Each adoption starts one detached waiter.  A lane's alias is a function   *)
(* of the spec the lane defaults to, so a served config is a function from   *)
(* lanes to specs; NoAlias is what the base config serves.                   *)
(***************************************************************************)
EXTENDS Naturals, FiniteSets

CONSTANTS
    Lanes,       \* the text lanes
    Specs,       \* what a lane may serve
    Typed,       \* the typed default of each lane
    Waiters,     \* one detached switch per adoption
    Runs,        \* runs that hold the machine lock, once each
    RETRIES,     \* attempts of one switch
    MaxFails,    \* bound: failures and losses together
    MaxLosses,   \* bound: losses, which no process is left to notice
    Free,        \* the machine lock is nobody's
    NoAlias      \* the base config has no sohot-<lane>

ASSUME GatewayAssumption ==
    /\ Typed \in [Lanes -> Specs] /\ NoAlias \notin Specs
    /\ Waiters \cap Runs = {} /\ Free \notin Waiters \cup Runs
    /\ RETRIES \in Nat \ {0} /\ MaxFails \in Nat /\ MaxLosses \in Nat

Configs == [Lanes -> Specs]

\* Where a waiter may be: not started, waiting for the lock, in switch, over.
Places == {"none", "spawned", "read", "compare", "probe", "defaults", "write", "load", "kick",
           "await", "back", "rekick", "leave", "over"}

VARIABLES
    adopted,     \* what the adoptions table says each lane serves
    file,        \* the aliases of the served config on disk
    gw,          \* the gateway: down, read, written (starting) or up
    gwdefs,      \* the lane defaults the starting gateway read
    serving,     \* the aliases the gateway loaded last
    busy,        \* a request is in flight
    lock,        \* who holds the machine lock
    run,         \* a run: before, at work or over
    pc,          \* a waiter's place
    held,        \* LH_GPU_LOCK_HELD in a waiter's environment
    before,      \* the served config a waiter found, to put back
    old,         \* its aliases, to compare with
    defs,        \* the lane defaults it read
    new,         \* the aliases it read back after writing
    attempt,     \* attempts it has finished
    good,        \* gateway_switches: new_spec of a lane's last switched row
    unresolved,  \* gateway_switches: lanes with a failed row since
    mute,        \* history: an attempt failed and had nothing moved to record it for
    fails, losses

table == <<good, unresolved, mute>>
gateway == <<gw, gwdefs, serving>>
locals == <<before, old, defs, new, attempt>>
vars == <<adopted, file, gw, gwdefs, serving, busy, lock, run, pc, held, before, old,
          defs, new, attempt, good, unresolved, mute, fails, losses>>

Init ==
    /\ adopted = Typed /\ file = Typed /\ serving = Typed /\ good = Typed
    /\ gw = "up" /\ gwdefs = Typed /\ busy = FALSE
    /\ lock = Free /\ run = [r \in Runs |-> "before"]
    /\ pc = [w \in Waiters |-> "none"] /\ held = [w \in Waiters |-> FALSE]
    /\ before = [w \in Waiters |-> Typed] /\ old = before /\ defs = before /\ new = before
    /\ attempt = [w \in Waiters |-> 0]
    /\ unresolved = {} /\ mute = FALSE /\ fails = 0 /\ losses = 0

\* A failure the code meets, and one that leaves nobody who would notice.
Fails == fails + losses < MaxFails /\ fails' = fails + 1 /\ UNCHANGED losses
Loses == losses < MaxLosses /\ fails + losses < MaxFails /\ losses' = losses + 1 /\ UNCHANGED fails
Works == UNCHANGED <<fails, losses>>

\* adopt.lane_defaults: the adoptions, or the typed defaults when the store cannot be read.
lane_defaults(d) ==
    \/ d = adopted /\ Works
    \/ d = Typed /\ d # adopted /\ Loses
----------------------------------------------------------------------------
(* The machine lock: an flock, released when its holder ends however it ends. *)

Take(p) == lock = Free /\ lock' = p

RunTakes(r) ==
    /\ run[r] = "before" /\ Take(r)
    /\ run' = [run EXCEPT ![r] = "at work"]
    /\ UNCHANGED <<adopted, file, gateway, busy, pc, held, locals, table, fails, losses>>

RunEnds(r) ==
    /\ run[r] = "at work" /\ lock' = Free
    /\ run' = [run EXCEPT ![r] = "over"]
    /\ UNCHANGED <<adopted, file, gateway, busy, pc, held, locals, table, fails, losses>>

\* Mutant: the waiter keeps the environment of the run that made the adoption.
MutantInherits == lock \in Runs

\* The waiter's environment is the adopting process's without LH_GPU_LOCK_HELD.
WaiterEnv == FALSE

\* adopt.record: the adoption is committed, then the waiter starts, from a run that
\* holds the lock or from a command that does not.  A start that fails is swallowed.
\* Waiters are alike, so any one that is left will do.
Adopt(w, l, s) ==
    /\ pc[w] = "none" /\ w = (CHOOSE v \in Waiters : pc[v] = "none")
    /\ s # adopted[l]
    /\ adopted' = [adopted EXCEPT ![l] = s]
    /\ \/ pc' = [pc EXCEPT ![w] = "spawned"] /\ held' = [held EXCEPT ![w] = WaiterEnv] /\ Works
       \/ pc' = [pc EXCEPT ![w] = "over"] /\ UNCHANGED held /\ Loses
    /\ UNCHANGED <<file, gateway, busy, lock, run, locals, table>>

\* exclusive.held: nothing to take when the environment says it is held.
Enter(w) ==
    /\ pc[w] = "spawned"
    /\ IF held[w] THEN UNCHANGED lock ELSE Take(w)
    /\ held' = [held EXCEPT ![w] = TRUE]
    /\ pc' = [pc EXCEPT ![w] = "read"]
    /\ UNCHANGED <<adopted, file, gateway, busy, run, locals, table, fails, losses>>

\* The waiter ends; its locals are gone.
Gone(w) ==
    /\ pc' = [pc EXCEPT ![w] = "over"] /\ held' = [held EXCEPT ![w] = FALSE]
    /\ lock' = IF lock = w THEN Free ELSE lock
    /\ before' = [before EXCEPT ![w] = Typed] /\ old' = [old EXCEPT ![w] = Typed]
    /\ defs' = [defs EXCEPT ![w] = Typed] /\ new' = [new EXCEPT ![w] = Typed]
    /\ attempt' = [attempt EXCEPT ![w] = 0]
    /\ UNCHANGED <<run, busy>>

Inside(w) == pc[w] \notin {"none", "spawned", "over"}

WaiterDies(w) ==
    /\ pc[w] \notin {"none", "over"} /\ Gone(w) /\ Loses
    /\ UNCHANGED <<adopted, file, gateway, table>>
----------------------------------------------------------------------------
(* switch *)

Steps(w, from, to) == pc[w] = from /\ pc' = [pc EXCEPT ![w] = to]

Read(w) ==
    /\ Steps(w, "read", "compare")
    /\ before' = [before EXCEPT ![w] = file]
    /\ UNCHANGED <<adopted, file, gateway, busy, lock, run, held, old, defs, new, attempt, table,
                   fails, losses>>

\* Nothing moved: leave.  Else go on with the aliases found.
Compare(w) ==
    /\ \E d \in Configs :
          /\ lane_defaults(d)
          /\ \/ /\ d = file /\ pc[w] = "compare" /\ Gone(w)
             \/ /\ d # file /\ Steps(w, "compare", "probe")
                /\ old' = [old EXCEPT ![w] = file]
                /\ UNCHANGED <<busy, lock, run, held, before, defs, new, attempt>>
    /\ UNCHANGED <<adopted, file, gateway, table>>

\* wait_then_restart, quiet for idle_s: a gateway that is not listening has nothing in flight.
Idle(w) ==
    /\ ~busy \/ gw # "up"
    /\ Steps(w, "probe", "defaults")
    /\ UNCHANGED <<adopted, file, gateway, busy, lock, run, held, locals, table, fails, losses>>

\* Mutant: no deadline.
MutantPatient(w) == Idle(w)

\* wait_then_restart, max_wait_s is over.
Forced(w) ==
    /\ Steps(w, "probe", "defaults")
    /\ UNCHANGED <<adopted, file, gateway, busy, lock, run, held, locals, table, fails, losses>>

Defaults(w) ==
    /\ Steps(w, "defaults", "write")
    /\ \E d \in Configs : lane_defaults(d) /\ defs' = [defs EXCEPT ![w] = d]
    /\ UNCHANGED <<adopted, file, gateway, busy, lock, run, held, before, old, new, attempt, table>>

Write(w) ==
    /\ Steps(w, "write", "load") /\ file' = defs[w]
    /\ UNCHANGED <<adopted, gateway, busy, lock, run, held, locals, table, fails, losses>>

Load(w) ==
    /\ Steps(w, "load", "kick") /\ new' = [new EXCEPT ![w] = file]
    /\ UNCHANGED <<adopted, file, gateway, busy, lock, run, held, before, old, defs, attempt, table,
                   fails, losses>>

Moved(w) == {l \in Lanes : new[w][l] # old[w][l]}

\* launchd.sh restart: with-gpu-lock again, then kickstart -k; the old gateway and the
\* requests in flight on it are gone.
Restart(w) ==
    /\ held[w] \/ lock = Free
    /\ gw' = "down" /\ busy' = FALSE
    /\ UNCHANGED <<gwdefs, serving>>

FailedRecording(w, recorded, next) ==
    /\ unresolved' = unresolved \cup recorded /\ UNCHANGED good
    /\ mute' = (mute \/ Moved(w) = {})
    /\ attempt' = [attempt EXCEPT ![w] = @ + 1]
    /\ pc' = [pc EXCEPT ![w] = next]

\* Mutant: only a switch that took is recorded.
MutantSilent(w) == FailedRecording(w, {}, IF attempt[w] + 1 < RETRIES THEN "probe" ELSE "back")

\* Mutant: one attempt too many.
MutantOneMore(w) ==
    FailedRecording(w, Moved(w), IF attempt[w] + 1 <= RETRIES THEN "probe" ELSE "back")

\* _record with failed, a row for each lane that moved, and what the loop does next.
Failed(w) == FailedRecording(w, Moved(w), IF attempt[w] + 1 < RETRIES THEN "probe" ELSE "back")

\* A restart that reports failure may have stopped the old gateway or not.
Kick(w) ==
    /\ \/ /\ Steps(w, "kick", "await") /\ Restart(w) /\ Works
          /\ UNCHANGED <<attempt, table>>
       \/ /\ pc[w] = "kick" /\ Failed(w) /\ Fails
          /\ Restart(w) \/ UNCHANGED <<gateway, busy>>
    /\ UNCHANGED <<adopted, file, lock, run, held, before, old, defs, new>>

Serves(w) == gw = "up" /\ \A l \in Moved(w) : serving[l] = new[w][l]

\* _await_serving, '': _record with switched, and switch returns.
Switched(w) ==
    /\ pc[w] = "await" /\ Serves(w)
    /\ good' = [l \in Lanes |-> IF l \in Moved(w) THEN defs[w][l] ELSE good[l]]
    /\ unresolved' = unresolved \ Moved(w) /\ UNCHANGED mute
    /\ Gone(w)
    /\ UNCHANGED <<adopted, file, gateway, fails, losses>>

\* _await_serving, the deadline: the gateway serves something else, or is not up yet, or
\* did not answer /model/info in all that time.
TimedOut(w) ==
    /\ pc[w] = "await" /\ Failed(w)
    /\ IF gw = "up" /\ ~Serves(w) THEN Works ELSE Fails
    /\ UNCHANGED <<adopted, file, gateway, busy, lock, run, held, before, old, defs, new>>

Restore(w) ==
    /\ Steps(w, "back", "rekick") /\ file' = before[w]
    /\ UNCHANGED <<adopted, gateway, busy, lock, run, held, locals, table, fails, losses>>

Rekick(w) ==
    /\ \/ Steps(w, "rekick", "leave") /\ Restart(w) /\ Works
       \/ /\ Steps(w, "rekick", "leave") /\ Fails
          /\ Restart(w) \/ UNCHANGED <<gateway, busy>>
    /\ UNCHANGED <<adopted, file, lock, run, held, locals, table>>

Leave(w) ==
    /\ pc[w] = "leave" /\ Gone(w)
    /\ UNCHANGED <<adopted, file, gateway, table, fails, losses>>

Switch(w) ==
    \/ Read(w) \/ Compare(w) \/ Idle(w) \/ Forced(w) \/ Defaults(w) \/ Write(w) \/ Load(w)
    \/ Kick(w) \/ Switched(w) \/ TimedOut(w) \/ Restore(w) \/ Rekick(w) \/ Leave(w)
----------------------------------------------------------------------------
(* The gateway.  launchd keeps it running, so one that is down starts. *)

GwUnchanged == UNCHANGED <<adopted, busy, lock, run, pc, held, locals, table>>

\* harness.gateway: read the lane defaults, write the served config.
GwRead ==
    /\ gw = "down" /\ gw' = "read"
    /\ lane_defaults(gwdefs')
    /\ UNCHANGED <<file, serving>> /\ GwUnchanged

GwWrite ==
    /\ gw = "read" /\ gw' = "written" /\ file' = gwdefs
    /\ UNCHANGED <<gwdefs, serving, fails, losses>> /\ GwUnchanged

\* litellm --config: the served config.
GwLoad ==
    /\ gw = "written" /\ gw' = "up" /\ serving' = file
    /\ UNCHANGED <<file, gwdefs, fails, losses>> /\ GwUnchanged

\* The served config could not be written: serve the base config.
GwBare ==
    /\ gw \in {"down", "read"} /\ gw' = "up" /\ Loses
    /\ serving' = [l \in Lanes |-> NoAlias]
    /\ UNCHANGED <<file, gwdefs>> /\ GwUnchanged

\* It stops for a reason of its own, a deploy or a reboot.
GwStops ==
    /\ gw' = "down" /\ gw # "down" /\ Loses /\ busy' = FALSE
    /\ UNCHANGED <<file, gwdefs, serving, adopted, lock, run, pc, held, locals, table>>

Client ==
    /\ gw = "up" /\ busy' = ~busy
    /\ UNCHANGED <<adopted, file, gateway, lock, run, pc, held, locals, table, fails, losses>>

Gateway == GwRead \/ GwWrite \/ GwLoad

Next ==
    \/ \E r \in Runs : RunTakes(r) \/ RunEnds(r)
    \/ \E w \in Waiters, l \in Lanes, s \in Specs : Adopt(w, l, s)
    \/ \E w \in Waiters : Enter(w) \/ Switch(w) \/ WaiterDies(w)
    \/ Gateway \/ GwBare \/ GwStops \/ Client

Spec == Init /\ [][Next]_vars

\* A run ends, a poll for the lock that stays free takes it, every step of a switch and of
\* a gateway start follows the one before, and the wait has a deadline.  Nothing is assumed
\* of clients or of when adoptions come.
Fairness ==
    /\ \A r \in Runs : WF_vars(RunEnds(r))
    /\ \A w \in Waiters : WF_vars(Enter(w)) /\ WF_vars(Switch(w))
    /\ WF_vars(Gateway)

FairSpec == Spec /\ Fairness
----------------------------------------------------------------------------
(* Properties *)

TypeOK ==
    /\ adopted \in Configs /\ file \in Configs /\ gwdefs \in Configs /\ good \in Configs
    /\ serving \in [Lanes -> Specs \cup {NoAlias}]
    /\ gw \in {"down", "read", "written", "up"} /\ busy \in BOOLEAN
    /\ lock \in Waiters \cup Runs \cup {Free}
    /\ run \in [Runs -> {"before", "at work", "over"}]
    /\ pc \in [Waiters -> Places]
    /\ held \in [Waiters -> BOOLEAN]
    /\ before \in [Waiters -> Configs] /\ old \in [Waiters -> Configs]
    /\ defs \in [Waiters -> Configs] /\ new \in [Waiters -> Configs]
    /\ attempt \in [Waiters -> 0..RETRIES]
    /\ unresolved \subseteq Lanes /\ mute \in BOOLEAN
    /\ fails \in 0..MaxFails /\ losses \in 0..MaxLosses

\* A switch never restarts the gateway while a run that loads models is at work: from its
\* first read to its last restart no run is, whoever made the adoption (gateway_switch.main,
\* waiter; exclusive.held).
NeverMidRun == \A w \in Waiters, r \in Runs : ~(Inside(w) /\ run[r] = "at work")

Settled == gw = "up" /\ \A w \in Waiters : pc[w] \in {"none", "over"}

\* A report with no failed switch can be believed: when every switch has ended and no
\* failure stands unresolved, the gateway serves what every lane adopted, unless a switch
\* was lost, the gateway stopped by itself or started without the adoptions, or an attempt
\* failed after the adoption it was for was taken back, which nothing records
\* (switch, _record, unresolved).
CleanReportIsTrue == losses = 0 /\ ~mute /\ Settled /\ unresolved = {} => serving = adopted

\* Once adoptions stop the gateway serves them for good, however busy its clients keep it
\* and whatever runs were in the way, failed attempts included, as long as no switch gives
\* up and nothing is lost of which nobody is told (wait_then_restart, switch,
\* exclusive.held).
AdoptionServed ==
    [](losses = 0 /\ \A w \in Waiters : pc[w] # "back") =>
        <>[](gw = "up" /\ serving = adopted)

\* gateway_switch.py:13 "then the old served config is put back and restarted, so the last
\* good switch stays current": a switch that gave up leaves a gateway that serves, and is
\* configured with, what the switch found.
OldConfigBack ==
    \A w \in Waiters : pc[w] = "leave" /\ gw = "up" => serving = before[w] /\ file = before[w]
=============================================================================
