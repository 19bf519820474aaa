------------------------ MODULE GatewaySwitchProofs ------------------------
(***************************************************************************)
(* Proofs about GatewaySwitch, for any lanes, specs, waiters, runs and       *)
(* bounds: its types, that no switch restarts the gateway during a run, and   *)
(* that a report without a failed switch can be believed.                    *)
(***************************************************************************)
EXTENDS GatewaySwitch, TLAPS

\* Whoever is past the entry of exclusive.held holds the machine lock: a waiter comes
\* with an environment that does not say it is held, so it took the lock itself.
LockInv ==
    /\ \A w \in Waiters : Inside(w) => lock = w
    /\ \A r \in Runs : run[r] = "at work" => lock = r
    /\ \A w \in Waiters : pc[w] = "spawned" => held[w] = FALSE

\* Until it gives up, a switch has an attempt left.
GaveUp == {"back", "rekick", "leave"}
TryInv == \A w \in Waiters : pc[w] \notin GaveUp => attempt[w] < RETRIES

\* What a config covers: the adoptions, or a switch is still to come for what it lacks.
Covered(c) == c = adopted \/ \E w \in Waiters : pc[w] = "spawned"

\* A switch that has not begun or is over has no attempts; one that gave up has.
CountInv ==
    \A w \in Waiters : /\ ~Inside(w) => attempt[w] = 0
                       /\ pc[w] \in GaveUp => attempt[w] # 0

\* A switch that has failed once leaves a failure unresolved, or had nothing to record.
FailedInv == ~mute => \A w \in Waiters : attempt[w] # 0 => unresolved # {}

\* Restarted by a switch, the gateway comes up with what covers the adoptions.
AwaitInv ==
    losses = 0 => \A w \in Waiters : pc[w] = "await" =>
        /\ gw = "read" => Covered(gwdefs)
        /\ gw = "written" => Covered(file)
        /\ gw = "up" => serving = file /\ Covered(file)

\* With nothing unresolved, the gateway serves the config on disk until a switch rewrites
\* it, and between switches that config covers the adoptions.
Early == {"read", "compare", "probe", "defaults", "write"}
ServedInv ==
    losses = 0 /\ ~mute /\ unresolved = {} =>
        /\ (\A w \in Waiters : ~Inside(w)) => gw = "up" /\ serving = file /\ Covered(file)
        /\ \A w \in Waiters : pc[w] \in Early => gw = "up" /\ serving = file

CleanInv == CountInv /\ FailedInv /\ AwaitInv /\ ServedInv

IInv == TypeOK /\ TryInv /\ LockInv /\ CleanInv
-----------------------------------------------------------------------------
\* The first state, with every lane on its typed default, has the types.
LEMMA InitType == Init => TypeOK
<1> SUFFICES ASSUME Init PROVE TypeOK
    OBVIOUS
<1>1. Typed \in Configs
    BY GatewayAssumption DEF Configs
<1>2. /\ adopted \in Configs /\ file \in Configs /\ gwdefs \in Configs /\ good \in Configs
      /\ before \in [Waiters -> Configs] /\ old \in [Waiters -> Configs]
      /\ defs \in [Waiters -> Configs] /\ new \in [Waiters -> Configs]
    BY <1>1 DEF Init
<1>3. serving \in [Lanes -> Specs \cup {NoAlias}]
    BY GatewayAssumption DEF Init
<1>4. 0 \in 0..MaxFails /\ 0 \in 0..MaxLosses /\ 0 \in 0..RETRIES
    BY GatewayAssumption
<1>5. attempt \in [Waiters -> 0..RETRIES] /\ fails \in 0..MaxFails /\ losses \in 0..MaxLosses
    BY <1>4 DEF Init
<1>6. held \in [Waiters -> BOOLEAN] /\ busy \in BOOLEAN /\ mute \in BOOLEAN
    BY DEF Init
<1>7. /\ gw \in {"down", "read", "written", "up"} /\ lock \in Waiters \cup Runs \cup {Free}
      /\ run \in [Runs -> {"before", "at work", "over"}] /\ unresolved \subseteq Lanes
      /\ pc \in [Waiters -> Places]
    BY DEF Init, Places
<1> QED BY <1>2, <1>3, <1>5, <1>6, <1>7 DEF TypeOK

\* The typed defaults are a config.
LEMMA TypedConfig == Typed \in Configs
BY GatewayAssumption DEF Configs

\* The counters stay within their bounds.
LEMMA CountType ==
    ASSUME TypeOK, Works \/ Loses \/ Fails
    PROVE  fails' \in 0..MaxFails /\ losses' \in 0..MaxLosses
<1>1. fails \in 0..MaxFails /\ losses \in 0..MaxLosses
    BY DEF TypeOK
<1>2. MaxFails \in Nat /\ MaxLosses \in Nat
    BY GatewayAssumption
<1>3. CASE Works BY <1>1, <1>3 DEF Works
<1>4. CASE Loses BY <1>1, <1>2, <1>4 DEF Loses
<1>5. CASE Fails BY <1>1, <1>2, <1>5 DEF Fails
<1> QED BY <1>3, <1>4, <1>5

\* Changing one lane of a config gives a config.
LEMMA ConfigExcept ==
    ASSUME NEW c \in Configs, NEW l \in Lanes, NEW s \in Specs
    PROVE  [c EXCEPT ![l] = s] \in Configs
BY DEF Configs

\* A waiter that ends keeps the types of its own variables and of the lock.
LEMMA GoneType ==
    ASSUME TypeOK, NEW w \in Waiters, Gone(w)
    PROVE  /\ pc' \in [Waiters -> Places] /\ held' \in [Waiters -> BOOLEAN]
           /\ lock' \in Waiters \cup Runs \cup {Free}
           /\ before' \in [Waiters -> Configs] /\ old' \in [Waiters -> Configs]
           /\ defs' \in [Waiters -> Configs] /\ new' \in [Waiters -> Configs]
           /\ attempt' \in [Waiters -> 0..RETRIES]
           /\ run' \in [Runs -> {"before", "at work", "over"}] /\ busy' \in BOOLEAN
<1>1. Typed \in Configs
    BY GatewayAssumption DEF Configs
<1>2. /\ before' \in [Waiters -> Configs] /\ old' \in [Waiters -> Configs]
      /\ defs' \in [Waiters -> Configs] /\ new' \in [Waiters -> Configs]
    BY <1>1 DEF Gone, TypeOK
<1>3. 0 \in 0..RETRIES
    BY GatewayAssumption
<1>4. attempt' \in [Waiters -> 0..RETRIES]
    BY <1>3 DEF Gone, TypeOK
<1>5. held' \in [Waiters -> BOOLEAN] /\ busy' \in BOOLEAN
    BY DEF Gone, TypeOK
<1>6. /\ pc' \in [Waiters -> Places] /\ lock' \in Waiters \cup Runs \cup {Free}
      /\ run' \in [Runs -> {"before", "at work", "over"}]
    BY DEF Gone, TypeOK, Places
<1> QED BY <1>2, <1>4, <1>5, <1>6

\* A failed attempt counts up to RETRIES, adds lanes to the unresolved ones and leads back
\* to the wait while an attempt is left.
LEMMA FailedType ==
    ASSUME TypeOK, NEW w \in Waiters, attempt[w] < RETRIES, Failed(w)
    PROVE  /\ attempt' \in [Waiters -> 0..RETRIES] /\ pc' \in [Waiters -> Places]
           /\ unresolved' \subseteq Lanes /\ good' \in Configs /\ mute' \in BOOLEAN
           /\ pc'[w] \notin GaveUp => attempt'[w] < RETRIES
<1>1. attempt[w] \in 0..RETRIES /\ RETRIES \in Nat
    BY GatewayAssumption DEF TypeOK
<1>2. attempt[w] + 1 \in 0..RETRIES
    BY <1>1
<1>3. attempt' \in [Waiters -> 0..RETRIES] /\ attempt'[w] = attempt[w] + 1
    BY <1>2 DEF Failed, FailedRecording, TypeOK
<1>4. /\ pc' \in [Waiters -> Places]
      /\ pc'[w] = IF attempt[w] + 1 < RETRIES THEN "probe" ELSE "back"
    BY DEF Failed, FailedRecording, TypeOK, Places
<1>5. pc'[w] \notin GaveUp => attempt'[w] < RETRIES
    BY <1>3, <1>4 DEF GaveUp
<1>6. mute' \in BOOLEAN
    BY DEF Failed, FailedRecording, TypeOK
<1> QED BY <1>3, <1>4, <1>5, <1>6 DEF Failed, FailedRecording, Moved, TypeOK

\* Every step keeps the types.
LEMMA TypeStep == TypeOK /\ TryInv /\ [Next]_vars => TypeOK'
<1> SUFFICES ASSUME TypeOK, TryInv, [Next]_vars PROVE TypeOK'
    OBVIOUS
<1> USE DEF TypeOK, Places, gateway, locals, table
<1>1. ASSUME NEW r \in Runs, RunTakes(r) PROVE TypeOK'
    BY <1>1 DEF RunTakes, Take
<1>2. ASSUME NEW r \in Runs, RunEnds(r) PROVE TypeOK'
    BY <1>2 DEF RunEnds
<1>3. ASSUME NEW w \in Waiters, NEW l \in Lanes, NEW s \in Specs, Adopt(w, l, s) PROVE TypeOK'
    <2>1. adopted' \in Configs
        BY <1>3, ConfigExcept DEF Adopt
    <2>2. fails' \in 0..MaxFails /\ losses' \in 0..MaxLosses
        BY <1>3, CountType DEF Adopt
    <2>3. pc' \in [Waiters -> Places]
        BY <1>3 DEF Adopt
    <2>4. held' \in [Waiters -> BOOLEAN]
        BY <1>3 DEF Adopt, WaiterEnv
    <2> QED BY <1>3, <2>1, <2>2, <2>3, <2>4 DEF Adopt
<1>4. ASSUME NEW w \in Waiters, Enter(w) PROVE TypeOK'
    BY <1>4 DEF Enter, Take
<1>5. ASSUME NEW w \in Waiters, WaiterDies(w) PROVE TypeOK'
    BY <1>5, GoneType, CountType DEF WaiterDies
<1>6. ASSUME NEW w \in Waiters, Switch(w) PROVE TypeOK'
    <2>1. CASE Read(w) BY <2>1 DEF Read, Steps
    <2>2. CASE Compare(w)
        <3>1. PICK d \in Configs :
                 /\ lane_defaults(d)
                 /\ \/ /\ d = file /\ pc[w] = "compare" /\ Gone(w)
                    \/ /\ d # file /\ Steps(w, "compare", "probe")
                       /\ old' = [old EXCEPT ![w] = file]
                       /\ UNCHANGED <<busy, lock, run, held, before, defs, new, attempt>>
            BY <2>2 DEF Compare
        <3>2. fails' \in 0..MaxFails /\ losses' \in 0..MaxLosses
            BY <3>1, CountType DEF lane_defaults
        <3>3. CASE Gone(w)
            BY <2>2, <3>2, <3>3, GoneType DEF Compare
        <3>4. CASE ~Gone(w)
            BY <2>2, <3>1, <3>2, <3>4 DEF Compare, Steps
        <3> QED BY <3>3, <3>4
    <2>3. CASE Idle(w) BY <2>3 DEF Idle, Steps
    <2>4. CASE Forced(w) BY <2>4 DEF Forced, Steps
    <2>5. CASE Defaults(w) BY <2>5, CountType DEF Defaults, Steps, lane_defaults
    <2>6. CASE Write(w) BY <2>6 DEF Write, Steps
    <2>7. CASE Load(w) BY <2>7 DEF Load, Steps
    <2>8. CASE Kick(w)
        <3>1. fails' \in 0..MaxFails /\ losses' \in 0..MaxLosses
            BY <2>8, CountType DEF Kick
        <3>2. CASE Steps(w, "kick", "await") /\ Restart(w) /\ UNCHANGED <<attempt, table>>
            BY <2>8, <3>1, <3>2 DEF Kick, Steps, Restart
        <3>3. CASE pc[w] = "kick" /\ Failed(w) /\ (Restart(w) \/ UNCHANGED <<gateway, busy>>)
            BY <2>8, <3>1, <3>3, FailedType DEF Kick, Restart, TryInv, GaveUp
        <3> QED BY <2>8, <3>2, <3>3 DEF Kick
    <2>9. CASE Switched(w)
        <3>1. good' \in Configs
            BY <2>9 DEF Switched, Configs
        <3>2. unresolved' \subseteq Lanes
            BY <2>9 DEF Switched
        <3> QED BY <2>9, <3>1, <3>2, GoneType DEF Switched
    <2>10. CASE TimedOut(w)
        <3>1. fails' \in 0..MaxFails /\ losses' \in 0..MaxLosses
            BY <2>10, CountType DEF TimedOut
        <3> QED BY <2>10, <3>1, FailedType DEF TimedOut, TryInv, GaveUp
    <2>11. CASE Restore(w) BY <2>11 DEF Restore, Steps
    <2>12. CASE Rekick(w) BY <2>12, CountType DEF Rekick, Steps, Restart
    <2>13. CASE Leave(w) BY <2>13, GoneType DEF Leave
    <2> QED BY <1>6, <2>1, <2>2, <2>3, <2>4, <2>5, <2>6, <2>7, <2>8, <2>9, <2>10, <2>11, <2>12, <2>13
            DEF Switch
<1>7. CASE GwRead BY <1>7, CountType, TypedConfig DEF GwRead, GwUnchanged, lane_defaults
<1>8. CASE GwWrite BY <1>8 DEF GwWrite, GwUnchanged
<1>9. CASE GwLoad BY <1>9 DEF GwLoad, GwUnchanged, Configs
<1>10. CASE GwBare BY <1>10, CountType DEF GwBare, GwUnchanged
<1>11. CASE GwStops BY <1>11, CountType DEF GwStops
<1>12. CASE Client BY <1>12 DEF Client
<1>13. CASE UNCHANGED vars BY <1>13 DEF vars
<1> QED BY <1>1, <1>2, <1>3, <1>4, <1>5, <1>6, <1>7, <1>8, <1>9, <1>10, <1>11, <1>12, <1>13
        DEF Next, Gateway

\* A waiter that ends keeps TryInv: its count is gone with it.
LEMMA TryGone == ASSUME TypeOK, TryInv, NEW w \in Waiters, Gone(w) PROVE TryInv'
<1>1. 0 < RETRIES
    BY GatewayAssumption
<1> QED BY <1>1 DEF TypeOK, TryInv, Gone, GaveUp

\* Every step keeps an attempt for a switch that has not given up.
LEMMA TryStep == TypeOK /\ TryInv /\ [Next]_vars => TryInv'
<1> SUFFICES ASSUME TypeOK, TryInv, [Next]_vars PROVE TryInv'
    OBVIOUS
<1>1. CASE UNCHANGED <<pc, attempt>>
    BY <1>1 DEF TryInv
<1>2. ASSUME NEW w \in Waiters, NEW l \in Lanes, NEW s \in Specs, Adopt(w, l, s) PROVE TryInv'
    BY <1>2 DEF Adopt, locals, TypeOK, TryInv, GaveUp
<1>3. ASSUME NEW w \in Waiters, Enter(w) PROVE TryInv'
    BY <1>3 DEF Enter, locals, TypeOK, TryInv, GaveUp
<1>4. ASSUME NEW w \in Waiters, WaiterDies(w) PROVE TryInv'
    BY <1>4, TryGone DEF WaiterDies
<1>5. ASSUME NEW w \in Waiters, Switch(w) PROVE TryInv'
    <2>1. CASE Gone(w)
        BY <2>1, TryGone
    <2>2. CASE Failed(w) /\ pc[w] \notin GaveUp
        BY <2>2, FailedType DEF Failed, FailedRecording, TryInv, TypeOK
    <2>3. CASE \E p \in Places, q \in Places : Steps(w, p, q) /\ UNCHANGED attempt /\ q # "over"
                                               /\ (p \in GaveUp => q \in GaveUp)
        BY <2>3 DEF Steps, TypeOK, TryInv, GaveUp
    <2> USE DEF locals, Places, GaveUp
    <2>4. CASE Compare(w)
        BY <2>1, <2>3, <2>4 DEF Compare
    <2>5. CASE Kick(w)
        BY <2>2, <2>3, <2>5 DEF Kick
    <2>6. CASE Switched(w) \/ Leave(w)
        BY <2>1, <2>6 DEF Switched, Leave
    <2>7. CASE TimedOut(w)
        BY <2>2, <2>7 DEF TimedOut
    <2>8. CASE Read(w) \/ Idle(w) \/ Forced(w) \/ Defaults(w) \/ Write(w) \/ Load(w)
        BY <2>3, <2>8 DEF Read, Idle, Forced, Defaults, Write, Load
    <2>9. CASE Restore(w) \/ Rekick(w)
        BY <2>3, <2>9 DEF Restore, Rekick
    <2> QED BY <1>5, <2>4, <2>5, <2>6, <2>7, <2>8, <2>9 DEF Switch
<1>6. ASSUME NEW r \in Runs, RunTakes(r) \/ RunEnds(r) PROVE TryInv'
    BY <1>1, <1>6 DEF RunTakes, RunEnds, locals
<1>7. CASE Gateway \/ GwBare \/ GwStops \/ Client
    BY <1>1, <1>7 DEF Gateway, GwRead, GwWrite, GwLoad, GwBare, GwStops, Client, GwUnchanged, locals
<1>8. CASE UNCHANGED vars
    BY <1>1, <1>8 DEF vars
<1> QED BY <1>2, <1>3, <1>4, <1>5, <1>6, <1>7, <1>8 DEF Next

-----------------------------------------------------------------------------
\* A waiter inside that stays inside, or leaves with the lock, keeps the holder of the lock.
LEMMA LockGone == ASSUME TypeOK, LockInv, NEW w \in Waiters, Gone(w) PROVE LockInv'
<1>1. \A r \in Runs : r # w
    BY GatewayAssumption
<1>2. ASSUME NEW v \in Waiters, Inside(v)' PROVE lock' = v
    BY <1>2 DEF Gone, Inside, LockInv, TypeOK
<1>3. ASSUME NEW r \in Runs, run'[r] = "at work" PROVE lock' = r
    BY <1>1, <1>3 DEF Gone, LockInv
<1>4. ASSUME NEW v \in Waiters, pc'[v] = "spawned" PROVE held'[v] = FALSE
    BY <1>4 DEF Gone, LockInv, TypeOK
<1> QED BY <1>2, <1>3, <1>4 DEF LockInv, Inside

\* A step of a waiter inside switch that leaves the lock, the runs and the environments alone.
LEMMA LockKept ==
    ASSUME TypeOK, LockInv, NEW w \in Waiters, Inside(w), UNCHANGED <<lock, run, held>>,
           NEW q, q # "spawned", pc' = [pc EXCEPT ![w] = q]
    PROVE  LockInv'
<1>1. ASSUME NEW v \in Waiters, Inside(v)' PROVE lock' = v
    BY <1>1 DEF Inside, LockInv, TypeOK
<1>2. ASSUME NEW r \in Runs, run'[r] = "at work" PROVE lock' = r
    BY <1>2 DEF LockInv
<1>3. ASSUME NEW v \in Waiters, pc'[v] = "spawned" PROVE held'[v] = FALSE
    BY <1>3 DEF LockInv, TypeOK
<1> QED BY <1>1, <1>2, <1>3 DEF LockInv, Inside

\* Every step keeps the holder of the lock in step with who is inside.
LEMMA LockStep == TypeOK /\ LockInv /\ [Next]_vars => LockInv'
<1> SUFFICES ASSUME TypeOK, LockInv, [Next]_vars PROVE LockInv'
    OBVIOUS
<1>1. CASE UNCHANGED <<pc, lock, run, held>>
    BY <1>1 DEF LockInv, Inside
<1>2. ASSUME NEW r \in Runs, RunTakes(r) PROVE LockInv'
    <2>1. ASSUME NEW w \in Waiters PROVE ~Inside(w)
        BY <1>2, <2>1, GatewayAssumption DEF RunTakes, Take, LockInv
    <2>2. ASSUME NEW v \in Runs, run'[v] = "at work" PROVE lock' = v
        BY <1>2, <2>2, GatewayAssumption DEF RunTakes, Take, LockInv, TypeOK
    <2> QED BY <1>2, <2>1, <2>2 DEF RunTakes, LockInv, Inside
<1>3. ASSUME NEW r \in Runs, RunEnds(r) PROVE LockInv'
    <2>1. ASSUME NEW w \in Waiters PROVE ~Inside(w)
        BY <1>3, <2>1, GatewayAssumption DEF RunEnds, LockInv
    <2>2. ASSUME NEW v \in Runs, run'[v] = "at work" PROVE FALSE
        BY <1>3, <2>2 DEF RunEnds, LockInv, TypeOK
    <2> QED BY <1>3, <2>1, <2>2 DEF RunEnds, LockInv, Inside
<1>4. ASSUME NEW w \in Waiters, NEW l \in Lanes, NEW s \in Specs, Adopt(w, l, s) PROVE LockInv'
    <2>1. ASSUME NEW v \in Waiters, Inside(v)' PROVE lock' = v
        BY <1>4, <2>1 DEF Adopt, Inside, LockInv, TypeOK
    <2>2. ASSUME NEW v \in Waiters, pc'[v] = "spawned" PROVE held'[v] = FALSE
        BY <1>4, <2>2 DEF Adopt, WaiterEnv, LockInv, TypeOK
    <2> QED BY <1>4, <2>1, <2>2 DEF Adopt, LockInv, Inside
<1>5. ASSUME NEW w \in Waiters, Enter(w) PROVE LockInv'
    <2>1. held[w] = FALSE
        BY <1>5 DEF Enter, LockInv
    <2>2. lock = Free /\ lock' = w
        BY <1>5, <2>1 DEF Enter, Take
    <2>3. ASSUME NEW v \in Waiters, Inside(v)' PROVE lock' = v
        BY <1>5, <2>2, <2>3, GatewayAssumption DEF Enter, Inside, LockInv, TypeOK
    <2>4. ASSUME NEW r \in Runs, run'[r] = "at work" PROVE FALSE
        BY <1>5, <2>2, <2>4, GatewayAssumption DEF Enter, LockInv
    <2>5. ASSUME NEW v \in Waiters, pc'[v] = "spawned" PROVE held'[v] = FALSE
        BY <1>5, <2>5 DEF Enter, LockInv, TypeOK
    <2> QED BY <2>3, <2>4, <2>5 DEF LockInv, Inside
<1>6. ASSUME NEW w \in Waiters, WaiterDies(w) PROVE LockInv'
    BY <1>6, LockGone DEF WaiterDies
<1>7. ASSUME NEW w \in Waiters, Switch(w) PROVE LockInv'
    <2>1. CASE Gone(w)
        BY <2>1, LockGone
    <2>2. CASE /\ Inside(w) /\ UNCHANGED <<lock, run, held>>
               /\ \E q \in Places \ {"spawned"} : pc' = [pc EXCEPT ![w] = q]
        BY <2>2, LockKept
    <2> USE DEF Steps, Inside, Places
    <2>3. CASE Compare(w)
        BY <2>1, <2>2, <2>3 DEF Compare
    <2>4. CASE Switched(w) \/ Leave(w)
        BY <2>1, <2>4 DEF Switched, Leave
    <2>5. CASE Kick(w) \/ TimedOut(w)
        BY <2>2, <2>5 DEF Kick, TimedOut, Failed, FailedRecording
    <2>6. CASE Read(w) \/ Idle(w) \/ Forced(w) \/ Defaults(w) \/ Write(w) \/ Load(w)
        BY <2>2, <2>6 DEF Read, Idle, Forced, Defaults, Write, Load
    <2>7. CASE Restore(w) \/ Rekick(w)
        BY <2>2, <2>7 DEF Restore, Rekick
    <2> QED BY <1>7, <2>3, <2>4, <2>5, <2>6, <2>7 DEF Switch
<1>8. CASE Gateway \/ GwBare \/ GwStops \/ Client
    BY <1>1, <1>8 DEF Gateway, GwRead, GwWrite, GwLoad, GwBare, GwStops, Client, GwUnchanged
<1>9. CASE UNCHANGED vars
    BY <1>1, <1>9 DEF vars
<1> QED BY <1>2, <1>3, <1>4, <1>5, <1>6, <1>7, <1>8, <1>9 DEF Next

-----------------------------------------------------------------------------
\* Two waiters are never inside at once.
LEMMA Alone ==
    ASSUME LockInv, NEW v \in Waiters, NEW w \in Waiters, Inside(v), Inside(w)
    PROVE  v = w
BY DEF LockInv

\* A waiter that takes the lock finds nobody inside.
LEMMA EnterAlone ==
    ASSUME LockInv, NEW w \in Waiters, Enter(w)
    PROVE  \A v \in Waiters : ~Inside(v)
<1>1. lock = Free
    BY DEF Enter, LockInv, Take
<1> QED BY <1>1, GatewayAssumption DEF LockInv

\* Whoever takes a step of switch is inside.
LEMMA SwitchInside == ASSUME NEW w \in Waiters, Switch(w) PROVE Inside(w)
BY DEF Switch, Inside, Read, Compare, Idle, Forced, Defaults, Write, Load, Kick, Switched, TimedOut,
       Restore, Rekick, Leave, Steps

\* After a loss something has been lost.
LEMMA Lost == ASSUME TypeOK, Loses PROVE losses' # 0
<1>1. losses \in 0..MaxLosses /\ MaxLosses \in Nat
    BY GatewayAssumption DEF TypeOK
<1> QED BY <1>1 DEF Loses

\* A waiter that ends keeps CountInv.
LEMMA CountGone == ASSUME TypeOK, CountInv, NEW w \in Waiters, Gone(w) PROVE CountInv'
BY DEF TypeOK, CountInv, Gone, Inside, GaveUp

\* Every step keeps the attempts of a switch in step with its place.
LEMMA CountStep == TypeOK /\ CountInv /\ [Next]_vars => CountInv'
<1> SUFFICES ASSUME TypeOK, CountInv, [Next]_vars PROVE CountInv'
    OBVIOUS
<1>1. CASE UNCHANGED <<pc, attempt>>
    BY <1>1 DEF CountInv, Inside
<1>2. ASSUME NEW w \in Waiters, NEW l \in Lanes, NEW s \in Specs, Adopt(w, l, s) PROVE CountInv'
    BY <1>2 DEF Adopt, locals, TypeOK, CountInv, Inside, GaveUp
<1>3. ASSUME NEW w \in Waiters, Enter(w) PROVE CountInv'
    BY <1>3 DEF Enter, locals, TypeOK, CountInv, Inside, GaveUp
<1>4. ASSUME NEW w \in Waiters, WaiterDies(w) PROVE CountInv'
    BY <1>4, CountGone DEF WaiterDies
<1>5. ASSUME NEW w \in Waiters, Switch(w) PROVE CountInv'
    <2>1. CASE Gone(w)
        BY <2>1, CountGone
    <2>2. CASE Failed(w)
        <3> DEFINE n == attempt[w] + 1
        <3>0. n # 0
            <4>1. attempt[w] \in 0..RETRIES /\ RETRIES \in Nat
                BY GatewayAssumption DEF TypeOK
            <4> QED BY <4>1
        <3>1. attempt' = [attempt EXCEPT ![w] = n]
            BY <2>2 DEF Failed, FailedRecording
        <3> HIDE DEF n
        <3>2. PICK q \in {"probe", "back"} : pc' = [pc EXCEPT ![w] = q]
            BY <2>2 DEF Failed, FailedRecording
        <3> QED BY <3>0, <3>1, <3>2 DEF CountInv, TypeOK, Inside, GaveUp
    <2>3. CASE \E p \in Places, q \in Places :
                  /\ Steps(w, p, q) /\ UNCHANGED attempt
                  /\ q \notin {"none", "spawned", "over"} /\ (q \in GaveUp => p \in GaveUp)
        <3>1. PICK p \in Places, q \in Places :
                  /\ Steps(w, p, q) /\ UNCHANGED attempt
                  /\ q \notin {"none", "spawned", "over"} /\ (q \in GaveUp => p \in GaveUp)
            BY <2>3
        <3>2. ASSUME NEW v \in Waiters, v # w PROVE pc'[v] = pc[v]
            BY <3>1, <3>2 DEF Steps, TypeOK
        <3>3. pc'[w] = q /\ pc[w] = p
            BY <3>1 DEF Steps, TypeOK
        <3>4. ASSUME NEW v \in Waiters, ~Inside(v)' PROVE attempt'[v] = 0
            BY <3>1, <3>2, <3>3, <3>4 DEF CountInv, Inside
        <3>5. ASSUME NEW v \in Waiters, pc'[v] \in GaveUp PROVE attempt'[v] # 0
            BY <3>1, <3>2, <3>3, <3>5 DEF CountInv
        <3> QED BY <3>4, <3>5 DEF CountInv
    <2> USE DEF locals, Places, GaveUp
    <2>4. CASE Compare(w)
        BY <2>1, <2>3, <2>4 DEF Compare
    <2>5. CASE Kick(w)
        BY <2>2, <2>3, <2>5 DEF Kick
    <2>6. CASE Switched(w) \/ Leave(w)
        BY <2>1, <2>6 DEF Switched, Leave
    <2>7. CASE TimedOut(w)
        BY <2>2, <2>7 DEF TimedOut
    <2>8. CASE Read(w) \/ Idle(w) \/ Forced(w) \/ Defaults(w) \/ Write(w) \/ Load(w)
        BY <2>3, <2>8 DEF Read, Idle, Forced, Defaults, Write, Load
    <2>9. CASE Restore(w) \/ Rekick(w)
        BY <2>3, <2>9 DEF Restore, Rekick
    <2> QED BY <1>5, <2>4, <2>5, <2>6, <2>7, <2>8, <2>9 DEF Switch
<1>6. ASSUME NEW r \in Runs, RunTakes(r) \/ RunEnds(r) PROVE CountInv'
    BY <1>1, <1>6 DEF RunTakes, RunEnds, locals
<1>7. CASE Gateway \/ GwBare \/ GwStops \/ Client
    BY <1>1, <1>7 DEF Gateway, GwRead, GwWrite, GwLoad, GwBare, GwStops, Client, GwUnchanged, locals
<1>8. CASE UNCHANGED vars
    BY <1>1, <1>8 DEF vars
<1> QED BY <1>2, <1>3, <1>4, <1>5, <1>6, <1>7, <1>8 DEF Next

\* Every step keeps FailedInv: only the switch that took resolves, and its attempts end with it.
LEMMA FailedStep == TypeOK /\ LockInv /\ CountInv /\ FailedInv /\ [Next]_vars => FailedInv'
<1> SUFFICES ASSUME TypeOK, LockInv, CountInv, FailedInv, [Next]_vars PROVE FailedInv'
    OBVIOUS
<1>1. CASE UNCHANGED <<attempt, table>>
    BY <1>1 DEF FailedInv, table
<1>2. ASSUME NEW w \in Waiters, Gone(w), UNCHANGED table PROVE FailedInv'
    BY <1>2 DEF FailedInv, table, Gone, TypeOK
<1>3. ASSUME NEW w \in Waiters, Failed(w) PROVE FailedInv'
    BY <1>3 DEF FailedInv, Failed, FailedRecording
<1>4. ASSUME NEW w \in Waiters, Switched(w) PROVE FailedInv'
    <2>1. ASSUME NEW v \in Waiters PROVE attempt'[v] = 0
        <3>1. CASE v = w
            BY <1>4, <3>1 DEF Switched, Gone, TypeOK
        <3>2. CASE v # w
            <4>1. ~Inside(v)
                BY <1>4, <3>2, Alone DEF Switched, Inside
            <4> QED BY <1>4, <3>2, <4>1 DEF CountInv, Switched, Gone, TypeOK
        <3> QED BY <3>1, <3>2
    <2> QED BY <2>1 DEF FailedInv
<1>5. ASSUME NEW w \in Waiters, Switch(w) PROVE FailedInv'
    <2> USE DEF locals
    <2>1. CASE Compare(w) BY <1>1, <1>2, <2>1 DEF Compare
    <2>2. CASE Kick(w) BY <1>1, <1>3, <2>2 DEF Kick
    <2>3. CASE TimedOut(w) BY <1>3, <2>3 DEF TimedOut
    <2>4. CASE Leave(w) BY <1>2, <2>4 DEF Leave
    <2>5. CASE Read(w) \/ Idle(w) \/ Forced(w) \/ Defaults(w) \/ Write(w) \/ Load(w)
        BY <1>1, <2>5 DEF Read, Idle, Forced, Defaults, Write, Load
    <2>6. CASE Restore(w) \/ Rekick(w)
        BY <1>1, <2>6 DEF Restore, Rekick
    <2> QED BY <1>4, <1>5, <2>1, <2>2, <2>3, <2>4, <2>5, <2>6 DEF Switch
<1>6. ASSUME NEW w \in Waiters, WaiterDies(w) PROVE FailedInv'
    BY <1>2, <1>6 DEF WaiterDies
<1>7. ASSUME NEW w \in Waiters, NEW l \in Lanes, NEW s \in Specs, Adopt(w, l, s) PROVE FailedInv'
    BY <1>1, <1>7 DEF Adopt, locals
<1>8. ASSUME NEW w \in Waiters, Enter(w) PROVE FailedInv'
    BY <1>1, <1>8 DEF Enter, locals
<1>9. ASSUME NEW r \in Runs, RunTakes(r) \/ RunEnds(r) PROVE FailedInv'
    BY <1>1, <1>9 DEF RunTakes, RunEnds, locals
<1>10. CASE Gateway \/ GwBare \/ GwStops \/ Client
    BY <1>1, <1>10 DEF Gateway, GwRead, GwWrite, GwLoad, GwBare, GwStops, Client, GwUnchanged, locals
<1>11. CASE UNCHANGED vars
    BY <1>1, <1>11 DEF vars, table
<1> QED BY <1>5, <1>6, <1>7, <1>8, <1>9, <1>10, <1>11 DEF Next

\* Every step keeps AwaitInv: only the waiter that awaits writes the config and restarts the
\* gateway, and nothing but an adoption that has a switch to come changes what it should be.
LEMMA AwaitStep == TypeOK /\ LockInv /\ AwaitInv /\ [Next]_vars => AwaitInv'
<1> SUFFICES ASSUME TypeOK, LockInv, AwaitInv, [Next]_vars, losses' = 0,
                    NEW v \in Waiters, pc'[v] = "await"
             PROVE  /\ gw' = "read" => Covered(gwdefs)'
                    /\ gw' = "written" => Covered(file)'
                    /\ gw' = "up" => serving' = file' /\ Covered(file)'
    BY DEF AwaitInv
<1> DEFINE Good == /\ gw' = "read" => Covered(gwdefs)'
                   /\ gw' = "written" => Covered(file)'
                   /\ gw' = "up" => serving' = file' /\ Covered(file)'
<1>0. ~Loses
    BY Lost
<1>1. ASSUME UNCHANGED <<adopted, file, gw, gwdefs, serving, pc, losses>> PROVE Good
    BY <1>1 DEF AwaitInv, Covered
<1>2. ASSUME NEW w \in Waiters, NEW l \in Lanes, NEW s \in Specs, Adopt(w, l, s) PROVE Good
    <2>1. pc' = [pc EXCEPT ![w] = "spawned"] /\ losses' = losses
        BY <1>0, <1>2 DEF Adopt, Works
    <2>2. pc'[w] = "spawned" /\ pc[v] = "await"
        BY <2>1 DEF TypeOK
    <2>3. gw' = "up" => serving' = file'
        BY <1>2, <2>1, <2>2 DEF Adopt, gateway, AwaitInv
    <2> QED BY <2>2, <2>3 DEF Covered
<1>3. ASSUME NEW w \in Waiters, Enter(w) PROVE FALSE
    <2>1. pc[v] = "await"
        BY <1>3 DEF Enter, TypeOK
    <2> QED BY <1>3, <2>1, EnterAlone DEF Inside
<1>4. ASSUME NEW w \in Waiters, Switch(w) PROVE Good
    <2>1. v = w
        <3>1. CASE v # w
            <4>1. pc'[v] = pc[v]
                BY <1>4, <3>1 DEF Switch, Read, Compare, Idle, Forced, Defaults, Write, Load, Kick,
                   Switched, TimedOut, Restore, Rekick, Leave, Steps, Gone, Failed, FailedRecording,
                   TypeOK
            <4> QED BY <1>4, <4>1, SwitchInside, Alone DEF Inside
        <3> QED BY <3>1
    <2>2. Kick(w)
        BY <1>4, <2>1 DEF Switch, Read, Compare, Idle, Forced, Defaults, Write, Load, Switched,
           TimedOut, Restore, Rekick, Leave, Steps, Gone, Failed, FailedRecording, TypeOK
    <2>3. gw' = "down"
        BY <2>1, <2>2 DEF Kick, Restart, Failed, FailedRecording, TypeOK
    <2> QED BY <2>3
<1>5. ASSUME NEW w \in Waiters, WaiterDies(w) PROVE FALSE
    BY <1>0, <1>5 DEF WaiterDies
<1>6. ASSUME NEW r \in Runs, RunTakes(r) \/ RunEnds(r) PROVE Good
    BY <1>1, <1>6 DEF RunTakes, RunEnds, gateway
<1>7. CASE GwRead
    <2>1. gw' = "read" /\ gwdefs' = adopted'
        BY <1>0, <1>7 DEF GwRead, GwUnchanged, lane_defaults
    <2> QED BY <2>1 DEF Covered
<1>8. CASE GwWrite
    BY <1>8 DEF GwWrite, GwUnchanged, AwaitInv, Covered
<1>9. CASE GwLoad
    BY <1>9 DEF GwLoad, GwUnchanged, AwaitInv, Covered
<1>10. CASE GwBare \/ GwStops
    BY <1>0, <1>10 DEF GwBare, GwStops
<1>11. CASE Client
    BY <1>1, <1>11 DEF Client, gateway
<1>12. CASE UNCHANGED vars
    BY <1>1, <1>12 DEF vars
<1> QED BY <1>2, <1>3, <1>4, <1>5, <1>6, <1>7, <1>8, <1>9, <1>10, <1>11, <1>12 DEF Next, Gateway

\* Every step keeps ServedInv: a switch that found nothing to do leaves the gateway as it
\* found it, one that took leaves it as it awaited it, and one that gave up leaves a failure
\* unresolved.
LEMMA ServedStep ==
    TypeOK /\ LockInv /\ CleanInv /\ [Next]_vars => ServedInv'
<1> SUFFICES ASSUME TypeOK, LockInv, CountInv, FailedInv, AwaitInv, ServedInv, [Next]_vars,
                    losses' = 0, ~mute', unresolved' = {}
             PROVE  /\ (\A w \in Waiters : ~Inside(w)') =>
                           gw' = "up" /\ serving' = file' /\ Covered(file)'
                    /\ \A w \in Waiters : pc'[w] \in Early => gw' = "up" /\ serving' = file'
    BY DEF ServedInv, CleanInv
<1> DEFINE Rest == (\A w \in Waiters : ~Inside(w)') =>
                       gw' = "up" /\ serving' = file' /\ Covered(file)'
           Work == \A w \in Waiters : pc'[w] \in Early => gw' = "up" /\ serving' = file'
<1>0. ~Loses
    BY Lost
<1>1. ASSUME UNCHANGED <<adopted, file, gw, serving, pc, losses, table>> PROVE Rest /\ Work
    BY <1>1 DEF ServedInv, Covered, Inside, table
<1>2. ASSUME NEW w \in Waiters, NEW l \in Lanes, NEW s \in Specs, Adopt(w, l, s)
      PROVE  Rest /\ Work
    <2>1. pc' = [pc EXCEPT ![w] = "spawned"] /\ losses' = losses /\ pc[w] = "none"
        BY <1>0, <1>2 DEF Adopt, Works
    <2>2. pc'[w] = "spawned" /\ \A v \in Waiters : v # w => pc'[v] = pc[v]
        BY <2>1 DEF TypeOK
    <2>3. \A v \in Waiters : Inside(v)' <=> Inside(v)
        BY <2>1, <2>2 DEF Inside
    <2>4. UNCHANGED <<file, gw, serving, mute, unresolved>>
        BY <1>2 DEF Adopt, gateway, table
    <2>5. Rest
        BY <2>1, <2>2, <2>3, <2>4 DEF ServedInv, Covered
    <2>6. Work
        BY <2>1, <2>2, <2>4 DEF ServedInv, Early
    <2> QED BY <2>5, <2>6
<1>3. ASSUME NEW w \in Waiters, Enter(w) PROVE Rest /\ Work
    <2>1. gw = "up" /\ serving = file
        BY <1>3, EnterAlone DEF Enter, table, ServedInv
    <2>2. Inside(w)'
        BY <1>3 DEF Enter, TypeOK, Inside
    <2> QED BY <1>3, <2>1, <2>2 DEF Enter, gateway
<1>4. ASSUME NEW w \in Waiters, Switch(w) PROVE Rest /\ Work
    <2>1. ASSUME NEW v \in Waiters, v # w PROVE pc'[v] \notin Early
        <3>1. pc'[v] = pc[v]
            BY <1>4, <2>1 DEF Switch, Read, Compare, Idle, Forced, Defaults, Write, Load, Kick,
               Switched, TimedOut, Restore, Rekick, Leave, Steps, Gone, Failed, FailedRecording,
               TypeOK
        <3> QED BY <1>4, <2>1, <3>1, SwitchInside, Alone DEF Inside, Early
    <2>2. ASSUME pc[w] \in Early, Inside(w)', losses' = losses,
                 UNCHANGED <<file, gw, serving, table>>
          PROVE  Rest /\ Work
        BY <2>2 DEF ServedInv, table
    <2>3. ASSUME Inside(w)', pc'[w] \notin Early PROVE Rest /\ Work
        BY <2>1, <2>3
    <2>4. ~Failed(w)
        BY DEF Failed, FailedRecording
    <2>5. CASE Read(w) \/ Idle(w) \/ Forced(w) \/ Defaults(w)
        <3>1. losses' = losses
            BY <1>0, <2>5 DEF Read, Idle, Forced, Defaults, lane_defaults, Works
        <3>2. pc[w] \in Early /\ Inside(w)'
            BY <2>5 DEF Read, Idle, Forced, Defaults, Steps, Early, Inside, TypeOK
        <3> QED BY <2>2, <2>5, <3>1, <3>2 DEF Read, Idle, Forced, Defaults, gateway
    <2>6. CASE Compare(w)
        <3>1. PICK d \in Configs :
                 /\ lane_defaults(d)
                 /\ \/ /\ d = file /\ pc[w] = "compare" /\ Gone(w)
                    \/ /\ d # file /\ Steps(w, "compare", "probe")
            BY <2>6 DEF Compare
        <3>2. losses' = losses /\ d = adopted
            BY <1>0, <3>1 DEF lane_defaults, Works
        <3>3. UNCHANGED <<adopted, file, gw, serving, table>>
            BY <2>6 DEF Compare, gateway
        <3>4. CASE d # file /\ Steps(w, "compare", "probe")
            <4>1. pc[w] \in Early /\ Inside(w)'
                BY <3>4 DEF Steps, Early, Inside, TypeOK
            <4> QED BY <2>2, <3>2, <3>3, <4>1
        <3>5. CASE d = file /\ pc[w] = "compare" /\ Gone(w)
            <4>1. gw' = "up" /\ serving' = file' /\ file' = adopted'
                BY <3>2, <3>3, <3>5 DEF ServedInv, Early, table
            <4> QED BY <4>1 DEF Covered
        <3> QED BY <3>1, <3>4, <3>5
    <2>7. CASE Write(w) \/ Load(w) \/ Restore(w) \/ Rekick(w)
        BY <2>3, <2>7 DEF Write, Load, Restore, Rekick, Steps, Early, Inside, TypeOK
    <2>8. CASE Kick(w)
        BY <2>3, <2>4, <2>8 DEF Kick, Steps, Early, Inside, TypeOK
    <2>9. CASE TimedOut(w)
        BY <2>4, <2>9 DEF TimedOut
    <2>10. CASE Switched(w)
        <3>1. gw = "up" /\ serving = file /\ Covered(file)
            BY <2>10 DEF Switched, Serves, AwaitInv
        <3>2. pc[w] = "await" /\ pc' = [pc EXCEPT ![w] = "over"]
            BY <2>10 DEF Switched, Gone
        <3>3. Covered(file)'
            BY <2>10, <3>1, <3>2 DEF Switched, Covered, TypeOK
        <3> QED BY <2>10, <3>1, <3>3 DEF Switched, gateway
    <2>11. CASE Leave(w)
        <3>1. attempt[w] # 0
            BY <2>11 DEF Leave, CountInv, GaveUp
        <3> QED BY <2>11, <3>1 DEF Leave, FailedInv, table
    <2> QED BY <1>4, <2>5, <2>6, <2>7, <2>8, <2>9, <2>10, <2>11 DEF Switch
<1>5. ASSUME NEW w \in Waiters, WaiterDies(w) PROVE FALSE
    BY <1>0, <1>5 DEF WaiterDies
<1>6. ASSUME NEW r \in Runs, RunTakes(r) \/ RunEnds(r) PROVE Rest /\ Work
    BY <1>1, <1>6 DEF RunTakes, RunEnds, gateway
<1>7. CASE Gateway
    <2>1. losses' = losses /\ UNCHANGED <<pc, table>> /\ gw # "up"
        BY <1>0, <1>7 DEF Gateway, GwRead, GwWrite, GwLoad, GwUnchanged, lane_defaults, Works
    <2>2. PICK w \in Waiters : Inside(w)
        BY <2>1 DEF ServedInv, table
    <2>3. \A v \in Waiters : pc[v] \notin Early
        BY <2>1 DEF ServedInv, table
    <2> QED BY <2>1, <2>2, <2>3 DEF Inside
<1>8. CASE GwBare \/ GwStops
    BY <1>0, <1>8 DEF GwBare, GwStops
<1>9. CASE Client
    BY <1>1, <1>9 DEF Client, gateway
<1>10. CASE UNCHANGED vars
    BY <1>1, <1>10 DEF vars, table
<1> QED BY <1>2, <1>3, <1>4, <1>5, <1>6, <1>7, <1>8, <1>9, <1>10 DEF Next

\* In the first state nothing has been tried and every lane is served its typed default.
LEMMA InitClean == Init => CleanInv
BY DEF Init, CleanInv, CountInv, FailedInv, AwaitInv, ServedInv, Covered, Inside, GaveUp, Early

-----------------------------------------------------------------------------
\* The inductive invariant holds in every reachable state.
THEOREM Invariant == Spec => []IInv
<1>1. Init => IInv
    <2> SUFFICES ASSUME Init PROVE IInv
        OBVIOUS
    <2>1. TryInv
        BY GatewayAssumption DEF Init, TryInv
    <2>2. LockInv
        BY DEF Init, LockInv, Inside
    <2> QED BY <2>1, <2>2, InitType, InitClean DEF IInv
<1>2. IInv /\ [Next]_vars => IInv'
    <2>1. TypeOK /\ TryInv /\ LockInv /\ CleanInv /\ [Next]_vars => TypeOK' /\ TryInv' /\ LockInv'
        BY TypeStep, TryStep, LockStep
    <2>2. TypeOK /\ LockInv /\ CleanInv /\ [Next]_vars => CleanInv'
        BY CountStep, FailedStep, AwaitStep, ServedStep DEF CleanInv
    <2> QED BY <2>1, <2>2 DEF IInv
<1> QED BY <1>1, <1>2, PTL DEF Spec

\* Every variable of the switch, the gateway and the store keeps its type; in particular a
\* switch makes at most RETRIES attempts.
THEOREM TypeCorrect == Spec => []TypeOK
BY Invariant, PTL DEF IInv

\* No switch, and so no restart of the gateway it makes, overlaps a run that holds the
\* machine lock, for any number of adoptions, waiters and runs and whatever dies.
THEOREM Apart == Spec => []NeverMidRun
<1>1. IInv => NeverMidRun
    BY GatewayAssumption DEF IInv, LockInv, NeverMidRun
<1> QED BY <1>1, Invariant, PTL

\* When every switch has ended and no failure stands unresolved the gateway serves what
\* every lane adopted, unless something was lost or an attempt failed with nothing moved,
\* for any number of adoptions and retries and however runs, adoptions and starts interleave.
THEOREM CleanReport == Spec => []CleanReportIsTrue
<1>1. IInv => CleanReportIsTrue
    BY DEF IInv, CleanInv, ServedInv, Covered, CleanReportIsTrue, Settled, Inside
<1> QED BY <1>1, Invariant, PTL

-----------------------------------------------------------------------------
(* A switch does not wait for itself.                                        *)

\* The mark is in a waiter's environment just while it is inside.
HeldInv == \A w \in Waiters : held[w] <=> Inside(w)

\* Switches are one at a time, and the one that is inside may restart the gateway whenever
\* it comes to it: launchd.sh restart, which takes the machine lock too, finds the mark and
\* does not wait for the lock the switch itself has.
RestartGoesOn ==
    \A w \in Waiters : Inside(w) =>
        /\ held[w]
        /\ \A v \in Waiters : Inside(v) => v = w

\* Every step inside a switch leaves the mark alone or ends it with the switch.
LEMMA HeldStep == TypeOK /\ LockInv /\ HeldInv /\ [Next]_vars => HeldInv'
<1> SUFFICES ASSUME TypeOK, LockInv, HeldInv, [Next]_vars PROVE HeldInv'
    OBVIOUS
<1> USE DEF HeldInv, Inside
<1>1. CASE UNCHANGED <<pc, held>>
    BY <1>1
<1>2. ASSUME NEW w \in Waiters, Gone(w) PROVE HeldInv'
    BY <1>2 DEF Gone, TypeOK
<1>3. ASSUME NEW w \in Waiters, Inside(w), UNCHANGED held,
             \E q \in Places \ {"none", "spawned", "over"} : pc' = [pc EXCEPT ![w] = q]
      PROVE  HeldInv'
    BY <1>3 DEF TypeOK
<1>4. ASSUME NEW w \in Waiters, NEW l \in Lanes, NEW s \in Specs, Adopt(w, l, s) PROVE HeldInv'
    BY <1>4 DEF Adopt, WaiterEnv, TypeOK
<1>5. ASSUME NEW w \in Waiters, Enter(w) PROVE HeldInv'
    BY <1>5 DEF Enter, TypeOK
<1>6. ASSUME NEW w \in Waiters, Switch(w) PROVE HeldInv'
    <2> USE DEF Steps, Places
    <2>1. CASE Compare(w)
        BY <1>2, <1>3, <2>1 DEF Compare
    <2>2. CASE Switched(w) \/ Leave(w)
        BY <1>2, <2>2 DEF Switched, Leave
    <2>3. CASE Kick(w) \/ TimedOut(w)
        BY <1>3, <2>3 DEF Kick, TimedOut, Failed, FailedRecording
    <2>4. CASE Read(w) \/ Idle(w) \/ Forced(w) \/ Defaults(w) \/ Write(w) \/ Load(w)
        BY <1>3, <2>4 DEF Read, Idle, Forced, Defaults, Write, Load
    <2>5. CASE Restore(w) \/ Rekick(w)
        BY <1>3, <2>5 DEF Restore, Rekick
    <2> QED BY <1>6, <2>1, <2>2, <2>3, <2>4, <2>5 DEF Switch
<1>7. ASSUME NEW w \in Waiters, WaiterDies(w) PROVE HeldInv'
    BY <1>2, <1>7 DEF WaiterDies
<1>8. CASE Gateway \/ GwBare \/ GwStops \/ Client \/ \E r \in Runs : RunTakes(r) \/ RunEnds(r)
    BY <1>1, <1>8 DEF Gateway, GwRead, GwWrite, GwLoad, GwBare, GwStops, Client, GwUnchanged,
       RunTakes, RunEnds
<1>9. CASE UNCHANGED vars
    BY <1>1, <1>9 DEF vars
<1> QED BY <1>4, <1>5, <1>6, <1>7, <1>8, <1>9 DEF Next

\* A switch never waits for the lock it holds when it restarts the gateway, and no second
\* switch is inside while it does (exclusive.held, launchd.sh restart under with-gpu-lock).
THEOREM RestartNotBlocked == Spec => []RestartGoesOn
<1>1. Init => HeldInv
    BY DEF Init, HeldInv, Inside
<1>2. IInv /\ HeldInv /\ [Next]_vars => HeldInv'
    BY HeldStep DEF IInv
<1>3. IInv /\ HeldInv => RestartGoesOn
    BY Alone DEF IInv, HeldInv, RestartGoesOn
<1> QED BY Invariant, <1>1, <1>2, <1>3, PTL DEF Spec

-----------------------------------------------------------------------------
(* A switch ends.                                                            *)

\* How many steps of its own a waiter inside has left at most: an attempt is fewer than
\* ten, and the config is put back and the gateway restarted once at the end.
PlaceLeft(place) ==
    CASE place = "read" -> 11    [] place = "compare" -> 10 [] place = "probe" -> 9
      [] place = "defaults" -> 8 [] place = "write" -> 7    [] place = "load" -> 6
      [] place = "kick" -> 5     [] place = "await" -> 4    [] place = "back" -> 3
      [] place = "rekick" -> 2   [] place = "leave" -> 1    [] place = "over" -> 0
SwitchLeft(w) == 10 * (RETRIES - attempt[w]) + PlaceLeft(pc[w])

\* A switch that is inside is over after its next step, or has fewer steps left; nobody
\* else takes it anywhere.
SwitchMoves ==
    \A w \in Waiters : Inside(w) /\ (pc'[w] # pc[w] \/ attempt'[w] # attempt[w]) =>
        pc'[w] = "over" \/ SwitchLeft(w)' < SwitchLeft(w)

\* The places from entry to end, and their order.
Along == Places \ {"none", "spawned"}
LEMMA Order ==
    /\ \A place \in Along : PlaceLeft(place) \in Nat
    /\ PlaceLeft("compare") < PlaceLeft("read") /\ PlaceLeft("probe") < PlaceLeft("compare")
    /\ PlaceLeft("defaults") < PlaceLeft("probe") /\ PlaceLeft("write") < PlaceLeft("defaults")
    /\ PlaceLeft("load") < PlaceLeft("write") /\ PlaceLeft("kick") < PlaceLeft("load")
    /\ PlaceLeft("await") < PlaceLeft("kick") /\ PlaceLeft("rekick") < PlaceLeft("back")
    /\ PlaceLeft("leave") < PlaceLeft("rekick")
BY DEF Along, Places, PlaceLeft

\* The attempts a waiter has left.
LEMMA Attempts ==
    ASSUME TypeOK, NEW w \in Waiters
    PROVE  attempt[w] \in Nat /\ RETRIES \in Nat /\ attempt[w] <= RETRIES
<1>1. attempt \in [Waiters -> 0..RETRIES]
    BY DEF TypeOK
<1>2. RETRIES \in Nat
    BY GatewayAssumption DEF GatewayAssumption
<1>3. attempt[w] \in 0..RETRIES
    BY <1>1
<1> QED BY <1>2, <1>3

\* A step along the switch.
LEMMA StepLess ==
    ASSUME TypeOK, NEW w \in Waiters, NEW from \in Along, NEW to \in Along,
           Steps(w, from, to), UNCHANGED attempt, PlaceLeft(to) < PlaceLeft(from)
    PROVE  SwitchLeft(w)' < SwitchLeft(w)
<1>1. attempt[w] \in Nat /\ RETRIES \in Nat /\ attempt[w] <= RETRIES
    BY Attempts
<1>2. pc[w] = from /\ pc'[w] = to
  <2>1. pc \in [Waiters -> Places]
      BY DEF TypeOK
  <2> QED BY <2>1 DEF Steps
<1>3. PlaceLeft(from) \in Nat /\ PlaceLeft(to) \in Nat
    BY Order
<1>4. 10 * (RETRIES - attempt[w]) \in Nat
    BY <1>1
<1> QED BY <1>2, <1>3, <1>4 DEF SwitchLeft

\* A step to another attempt, or past the last.
LEMMA FailLess ==
    ASSUME TypeOK, TryInv, NEW w \in Waiters, pc[w] \in {"kick", "await"}, Failed(w)
    PROVE  SwitchLeft(w)' < SwitchLeft(w)
<1>1. attempt[w] \in Nat /\ RETRIES \in Nat /\ attempt[w] < RETRIES
    BY Attempts DEF TryInv, GaveUp
<1>2. attempt'[w] = attempt[w] + 1 /\ pc'[w] \in {"probe", "back"}
  <2>1. pc \in [Waiters -> Places] /\ attempt \in [Waiters -> 0..RETRIES]
      BY DEF TypeOK
  <2> QED BY <2>1 DEF Failed, FailedRecording
<1>3. PlaceLeft("probe") = 9 /\ PlaceLeft("back") = 3 /\ PlaceLeft("kick") = 5
      /\ PlaceLeft("await") = 4
    BY DEF PlaceLeft
<1>4. PlaceLeft(pc'[w]) \in {3, 9} /\ PlaceLeft(pc[w]) \in {4, 5}
    BY <1>2, <1>3
<1>5. SwitchLeft(w)' = 10 * (RETRIES - attempt[w] - 1) + PlaceLeft(pc'[w])
    BY <1>1, <1>2 DEF SwitchLeft
<1>6. SwitchLeft(w) = 10 * (RETRIES - attempt[w]) + PlaceLeft(pc[w])
    BY DEF SwitchLeft
<1> QED BY <1>1, <1>4, <1>5, <1>6

\* A waiter's own step.
LEMMA OwnMove ==
    ASSUME TypeOK, TryInv, NEW w \in Waiters, Switch(w)
    PROVE  Gone(w) \/ SwitchLeft(w)' < SwitchLeft(w)
<1> USE Order
<1>0. /\ {"read", "compare", "probe", "defaults", "write", "load"} \subseteq Along
      /\ {"kick", "await", "back", "rekick", "leave"} \subseteq Along
    BY DEF Along, Places
<1>1. CASE Compare(w)
  <2>1. CASE Steps(w, "compare", "probe") /\ UNCHANGED attempt
      BY <1>0, <2>1, StepLess
  <2> QED BY <1>1, <2>1 DEF Compare
<1>2. CASE Switched(w) \/ Leave(w)
    BY <1>2 DEF Switched, Leave
<1>3. CASE TimedOut(w)
    BY <1>3, FailLess DEF TimedOut
<1>4. CASE Kick(w)
  <2>1. CASE Steps(w, "kick", "await") /\ UNCHANGED attempt
      BY <1>0, <2>1, StepLess
  <2>2. CASE pc[w] = "kick" /\ Failed(w)
      BY <2>2, FailLess
  <2> QED BY <1>4, <2>1, <2>2 DEF Kick
<1>5. CASE Read(w)
    BY <1>0, <1>5, StepLess DEF Read
<1>6. CASE Idle(w) \/ Forced(w)
    BY <1>0, <1>6, StepLess DEF Idle, Forced, locals
<1>7. CASE Defaults(w)
    BY <1>0, <1>7, StepLess DEF Defaults
<1>8. CASE Write(w)
    BY <1>0, <1>8, StepLess DEF Write, locals
<1>9. CASE Load(w)
    BY <1>0, <1>9, StepLess DEF Load
<1>10. CASE Restore(w)
    BY <1>0, <1>10, StepLess DEF Restore, locals
<1>11. CASE Rekick(w)
    BY <1>0, <1>11, StepLess DEF Rekick, locals
<1> QED BY <1>1, <1>2, <1>3, <1>4, <1>5, <1>6, <1>7, <1>8, <1>9, <1>10, <1>11 DEF Switch

\* A waiter's own step moves no other waiter.
LEMMA OthersStay ==
    ASSUME TypeOK, NEW w \in Waiters, Switch(w) \/ Gone(w)
    PROVE  \A u \in Waiters : u # w => pc'[u] = pc[u] /\ attempt'[u] = attempt[u]
BY DEF TypeOK, Switch, Gone, Read, Compare, Idle, Forced, Defaults, Write, Load, Kick, Switched,
       TimedOut, Restore, Rekick, Leave, Steps, Failed, FailedRecording, locals

\* Each step of the specification, for each switch that is inside.
LEMMA MovesStep == TypeOK /\ TryInv /\ [Next]_vars => SwitchMoves
<1> SUFFICES ASSUME TypeOK, TryInv, [Next]_vars, NEW u \in Waiters, Inside(u),
                    pc'[u] # pc[u] \/ attempt'[u] # attempt[u]
             PROVE  pc'[u] = "over" \/ SwitchLeft(u)' < SwitchLeft(u)
    BY DEF SwitchMoves
<1>1. ASSUME NEW w \in Waiters, Gone(w) PROVE w = u => pc'[u] = "over"
    BY <1>1 DEF Gone, TypeOK
<1>2. ASSUME NEW w \in Waiters, Switch(w) PROVE pc'[u] = "over" \/ SwitchLeft(u)' < SwitchLeft(u)
    BY <1>1, <1>2, OwnMove, OthersStay
<1>3. ASSUME NEW w \in Waiters, WaiterDies(w) PROVE pc'[u] = "over"
    BY <1>1, <1>3, OthersStay DEF WaiterDies
<1>4. ASSUME NEW w \in Waiters, NEW l \in Lanes, NEW s \in Specs, Adopt(w, l, s) PROVE FALSE
    BY <1>4 DEF Adopt, Inside, TypeOK, locals
<1>5. ASSUME NEW w \in Waiters, Enter(w) PROVE FALSE
    BY <1>5 DEF Enter, Inside, TypeOK, locals
<1>6. CASE UNCHANGED vars \/ Gateway \/ GwBare \/ GwStops \/ Client
           \/ \E r \in Runs : RunTakes(r) \/ RunEnds(r)
    BY <1>6 DEF vars, locals, Gateway, GwRead, GwWrite, GwLoad, GwBare, GwStops, Client,
       GwUnchanged, RunTakes, RunEnds
<1> QED BY <1>2, <1>3, <1>4, <1>5, <1>6 DEF Next

\* A switch ends, whatever fails and however busy the gateway is: it has a bounded number
\* of steps, each attempt among RETRIES has fewer than ten, and no other process's step
\* prolongs it (gateway_switch.switch, wait_then_restart's deadline).
THEOREM SwitchEnds == Spec => [][SwitchMoves]_vars
<1>1. IInv /\ [Next]_vars => SwitchMoves
    BY MovesStep DEF IInv
<1> QED BY <1>1, Invariant, PTL DEF Spec
=============================================================================
