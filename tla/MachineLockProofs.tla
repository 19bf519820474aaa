------------------------- MODULE MachineLockProofs -------------------------
(***************************************************************************)
(* Proofs about MachineLock, for any runs, children and probes: its types,   *)
(* that orphans apart one run is at work, whom the holder file names, that no  *)
(* run loses a model to another's unload, and that whoever has the lock can    *)
(* go on.                                                                    *)
(***************************************************************************)
EXTENDS MachineLock, TLAPS

\* Who is past taking the lock and has not given it back has it.
OwnerInv ==
    /\ \A p \in Procs : pc[p] \in Owning <=> lock = p
    /\ \A b \in Probes : pc[b] = "probing" <=> lock = b

\* Whose environment is marked: a process in its own block, or one that was started
\* with the mark, which never asks for the lock.
MarkInv ==
    /\ \A p \in env : pc[p] \in {"out", "in", "nested"}
    /\ \A p \in Procs : /\ pc[p] = "in" => p \in env /\ under[p] = p
                        /\ pc[p] = "nested" => p \in env
    /\ \A p \in env : under[p] = p => pc[p] = "in"

\* Nobody descends from a process that was never started, or has its mark from one.
BirthInv ==
    /\ \A p \in Procs : \A a \in above[p] : pc[a] # "unborn"
    /\ \A p \in env : under[p] \in Procs /\ pc[under[p]] # "unborn"

\* While its parents live, the run a mark came from is in its block, and waits for a
\* marked child of its own in the chain from it to the process.
CoverInv ==
    \A p \in env : ~Orphan(p) =>
        /\ under[p] \in Procs /\ lock = under[p] /\ pc[under[p]] = "in"
        /\ under[p] # p =>
              /\ under[p] \in above[p]
              /\ \E k \in Kids : /\ k \in env /\ parent[k] = under[p] /\ under[k] = under[p]
                                 /\ k # under[p] /\ k \in above[p] \cup {p}

IInv == TypeOK /\ OwnerInv /\ MarkInv /\ BirthInv /\ CoverInv /\ HolderNamed
-----------------------------------------------------------------------------
\* A step of one process in its own place, which starts, ends and marks nobody.
Local(p) == Nest(p) \/ Ask(p) \/ Take(p) \/ TurnedAway(p) \/ Release(p) \/ Unnest(p)

\* A step that moves no process and no lock: an unload without the lock begins or ends,
\* or nothing happens.
Still == UNCHANGED <<pc, env, parent, above, under, lock, named>>

\* Where the processes are: each action in the terms the invariants use.
LEMMA LocalFacts ==
    ASSUME TypeOK, NEW p \in Procs, Local(p)
    PROVE  /\ UNCHANGED <<env, parent, above, under, named>>
           /\ \A r \in Holders : r # p => pc'[r] = pc[r]
           /\ freeing' = freeing /\ pc'[p] \in Places
           /\ pc[p] # "in" /\ pc'[p] # "in" /\ pc[p] # "unborn" /\ pc[p] # "gone"
           /\ pc'[p] # "unborn" /\ pc'[p] # "gone"
BY ProcsAssumption DEF Local, Nest, Ask, Take, TurnedAway, Release, Unnest, Goes, TypeOK, Places,
                       Holders, Procs

LEMMA TypeNext == ASSUME TypeOK, [Next]_vars PROVE TypeOK'
<1> USE ProcsAssumption DEF TypeOK, Holders, Procs, Goes
<1>1. ASSUME NEW p \in Procs, Local(p) \/ EnterBlock(p) \/ Leave(p) PROVE TypeOK'
  <2>1. p \notin Probes
      OBVIOUS
  <2> QED BY <1>1, <2>1 DEF Local, Nest, Ask, Take, TurnedAway, EnterBlock, Leave, LeaveWith, Release,
                    Unnest, Places
<1>2. ASSUME NEW p \in Procs, Exit(p) \/ Killed(p) PROVE TypeOK'
  <2>1. p \notin Probes /\ Ends(p)
      BY <1>2 DEF Exit, Killed
  <2> QED BY <2>1 DEF Ends, Places
<1>3. ASSUME NEW p \in Procs, NEW k \in Kids, Spawn(p, k) PROVE TypeOK'
  <2>1. k \in Procs /\ k \notin Probes
      OBVIOUS
  <2>2. env' \subseteq Procs /\ lock' = lock /\ named' = named /\ freeing' = freeing
      BY <1>3, <2>1 DEF Spawn, SpawnMarked
  <2>3. pc' = [pc EXCEPT ![k] = "out"] /\ parent' = [parent EXCEPT ![k] = p]
        /\ above' = [above EXCEPT ![k] = above[p] \cup {p}]
      BY <1>3 DEF Spawn, SpawnMarked
  <2>4. under' \in [Procs -> Procs \cup {Nobody}]
      BY <1>3, <2>1 DEF Spawn, SpawnMarked
  <2>5. above' \in [Procs -> SUBSET Procs]
      BY <2>1, <2>3
  <2>6. pc' \in [Holders -> Places \cup {"probing"}] /\ (\A b \in Probes : pc'[b] \in {"out", "probing"})
        /\ (\A r \in Procs : pc'[r] \in Places)
      BY <2>1, <2>3 DEF Places
  <2> QED BY <2>1, <2>2, <2>3, <2>4, <2>5, <2>6
<1>4. ASSUME NEW b \in Probes, Probe(b) \/ ProbeDone(b) PROVE TypeOK'
  <2>1. b \notin Procs /\ lock' \in Holders \cup {Nobody}
      BY <1>4 DEF Probe, ProbeDone
  <2>2. pc' = [pc EXCEPT ![b] = "probing"] \/ pc' = [pc EXCEPT ![b] = "out"]
      BY <1>4 DEF Probe, ProbeDone
  <2>3. pc' \in [Holders -> Places \cup {"probing"}] /\ (\A c \in Probes : pc'[c] \in {"out", "probing"})
        /\ (\A r \in Procs : pc'[r] \in Places)
      BY <2>1, <2>2 DEF Places
  <2> QED BY <1>4, <2>1, <2>3 DEF Probe, ProbeDone
<1>5. ASSUME NEW p \in Procs, Unload(p) \/ UnloadDone(p) PROVE TypeOK'
  <2>1. Still /\ freeing' \subseteq Procs
      BY <1>5 DEF Unload, UnloadDone, Still
  <2> QED BY <2>1 DEF Still
<1>6. CASE UNCHANGED vars
    BY <1>6 DEF vars
<1> QED BY <1>1, <1>2, <1>3, <1>4, <1>5, <1>6 DEF Next, Works, Local

LEMMA InitInv == Init => IInv
BY ProcsAssumption DEF Init, IInv, TypeOK, OwnerInv, MarkInv, BirthInv, CoverInv, HolderNamed,
                       Owning, Places, Holders, Procs

\* The lock is with who is past taking it.
LEMMA OwnerNext == ASSUME TypeOK, OwnerInv, [Next]_vars PROVE OwnerInv'
<1> USE ProcsAssumption DEF TypeOK, Holders, Procs, Goes, OwnerInv, Owning
<1>1. ASSUME NEW p \in Procs, Local(p) \/ EnterBlock(p) \/ Leave(p) PROVE OwnerInv'
  <2>1. p \notin Probes
      OBVIOUS
  <2> QED BY <1>1, <2>1 DEF Local, Nest, Ask, Take, TurnedAway, EnterBlock, Leave, LeaveWith, Release, Unnest
<1>2. ASSUME NEW p \in Procs, Exit(p) \/ Killed(p) PROVE OwnerInv'
  <2>1. p \notin Probes /\ Ends(p)
      BY <1>2 DEF Exit, Killed
  <2> QED BY <2>1 DEF Ends
<1>3. ASSUME NEW p \in Procs, NEW k \in Kids, Spawn(p, k) PROVE OwnerInv'
  <2>1. k \in Procs /\ k \notin Probes /\ pc[k] = "unborn" /\ lock' = lock
        /\ pc' = [pc EXCEPT ![k] = "out"]
      BY <1>3 DEF Spawn, SpawnMarked
  <2> QED BY <2>1
<1>4. ASSUME NEW b \in Probes, Probe(b) \/ ProbeDone(b) PROVE OwnerInv'
  <2>1. b \notin Procs
      OBVIOUS
  <2> QED BY <1>4, <2>1 DEF Probe, ProbeDone
<1>5. CASE Still
    BY <1>5 DEF Still
<1> QED BY <1>1, <1>2, <1>3, <1>4, <1>5 DEF Next, Works, Local, Still, vars, Unload, UnloadDone

-----------------------------------------------------------------------------
\* A step that starts, ends and marks nobody leaves everybody's parents as they were.
LEMMA SameOrphans ==
    ASSUME TypeOK, UNCHANGED above, \A r \in Procs : Alive(r)' = Alive(r)
    PROVE  \A r \in Procs : Orphan(r)' = Orphan(r)
BY DEF Orphan, TypeOK

\* A probe's step, in the terms the invariants use.
LEMMA ProbeFacts ==
    ASSUME TypeOK, NEW b \in Probes, Probe(b) \/ ProbeDone(b)
    PROVE  /\ UNCHANGED <<env, parent, above, under, named>>
           /\ \A r \in Procs : pc'[r] = pc[r]
           /\ lock' = lock \/ lock = Nobody \/ lock = b
BY ProcsAssumption DEF Probe, ProbeDone, Goes, TypeOK, Holders, Procs

\* The mark and the name move with the block.
LEMMA MarkNext ==
    ASSUME TypeOK, OwnerInv, MarkInv, BirthInv, CoverInv, HolderNamed, [Next]_vars
    PROVE  MarkInv' /\ HolderNamed'
<1> USE ProcsAssumption DEF MarkInv, HolderNamed
<1>1. ASSUME NEW p \in Procs, Local(p) PROVE MarkInv' /\ HolderNamed'
  <2>1. /\ UNCHANGED <<env, under, named>> /\ pc[p] # "in" /\ pc'[p] # "in"
        /\ \A r \in Procs : r # p => pc'[r] = pc[r]
      BY <1>1, LocalFacts DEF Holders
  <2>2. /\ pc'[p] = "nested" => p \in env
        /\ p \in env => pc'[p] \in {"out", "nested"}
      BY <1>1 DEF Local, Nest, Ask, Take, TurnedAway, Release, Unnest, Goes, TypeOK, Holders
  <2> QED BY <2>1, <2>2 DEF TypeOK
<1>2. ASSUME NEW p \in Procs, EnterBlock(p) PROVE MarkInv' /\ HolderNamed'
  <2>1. /\ pc' = [pc EXCEPT ![p] = "in"] /\ env' = env \cup {p} /\ pc[p] = "took"
        /\ under' = [under EXCEPT ![p] = p] /\ named' = p
      BY <1>2 DEF EnterBlock, Goes
  <2>2. \A r \in Procs : r # p => pc[r] # "in"
      BY <2>1 DEF OwnerInv, Owning
  <2> QED BY <2>1, <2>2 DEF TypeOK, Holders
<1>3. ASSUME NEW p \in Procs, Leave(p) PROVE MarkInv' /\ HolderNamed'
  <2>1. /\ pc' = [pc EXCEPT ![p] = "leaving"] /\ env' = env \ {p} /\ pc[p] = "in"
        /\ under' = under /\ named' = Nobody
      BY <1>3 DEF Leave, LeaveWith, Goes
  <2>2. \A r \in Procs : r # p => pc[r] # "in"
      BY <2>1 DEF OwnerInv, Owning
  <2> QED BY <2>1, <2>2 DEF TypeOK, Holders
<1>4. ASSUME NEW p \in Procs, Exit(p) \/ Killed(p) PROVE MarkInv' /\ HolderNamed'
  <2>1. /\ pc' = [pc EXCEPT ![p] = "gone"] /\ env' = env \ {p} /\ under' = under /\ named' = named
      BY <1>4 DEF Exit, Killed, Ends, Goes
  <2> QED BY <2>1 DEF TypeOK, Holders
<1>5. ASSUME NEW p \in Procs, NEW k \in Kids, Spawn(p, k) PROVE MarkInv' /\ HolderNamed'
  <2>1. /\ pc' = [pc EXCEPT ![k] = "out"] /\ pc[k] = "unborn" /\ k \in Procs /\ named' = named
        /\ env' = env \cup (IF p \in env THEN {k} ELSE {})
        /\ under' = [under EXCEPT ![k] = IF p \in env THEN under[p] ELSE Nobody]
        /\ pc[p] \in {"out", "in", "nested"}
      BY <1>5 DEF Spawn, SpawnMarked, Goes, Procs
  <2>2. k # p /\ k \notin env
      BY <2>1
  <2>3. p \in env => under[p] # k
      BY <2>1 DEF BirthInv
  <2> QED BY <2>1, <2>2, <2>3 DEF TypeOK, Holders
<1>6. ASSUME NEW b \in Probes, Probe(b) \/ ProbeDone(b) PROVE MarkInv' /\ HolderNamed'
    BY <1>6, ProbeFacts DEF TypeOK
<1>7. CASE Still
    BY <1>7 DEF Still
<1> QED BY <1>1, <1>2, <1>3, <1>4, <1>5, <1>6, <1>7 DEF Next, Works, Local, Still, vars, Unload, UnloadDone

\* Nobody is born twice, and every mark comes from somebody who was.
LEMMA BirthNext ==
    ASSUME TypeOK, OwnerInv, MarkInv, BirthInv, [Next]_vars
    PROVE  BirthInv'
<1> USE ProcsAssumption DEF BirthInv
<1>1. ASSUME NEW p \in Procs, Local(p) PROVE BirthInv'
  <2>1. /\ UNCHANGED <<env, above, under>> /\ pc[p] # "unborn" /\ pc'[p] # "unborn"
        /\ \A r \in Procs : r # p => pc'[r] = pc[r]
      BY <1>1, LocalFacts DEF Holders
  <2> QED BY <2>1 DEF TypeOK
<1>2. ASSUME NEW p \in Procs, EnterBlock(p) \/ Leave(p) \/ Exit(p) \/ Killed(p) PROVE BirthInv'
  <2>1. /\ \A r \in Procs : pc'[r] = "unborn" => pc[r] = "unborn"
        /\ above' = above /\ env' \subseteq env \cup {p}
        /\ \A r \in env' : under'[r] = under[r] \/ (r = p /\ under'[r] = p)
      BY <1>2 DEF EnterBlock, Leave, LeaveWith, Exit, Killed, Ends, Goes, TypeOK, Holders
  <2>2. p \in env' \ env => under'[p] = p /\ pc'[p] = "in"
      BY <1>2 DEF EnterBlock, Leave, LeaveWith, Exit, Killed, Ends, Goes, TypeOK, Holders
  <2>3. CASE EnterBlock(p)
      BY <2>1, <2>3 DEF EnterBlock, Goes, TypeOK, Holders
  <2>4. CASE Leave(p) \/ Exit(p) \/ Killed(p)
    <3>1. env' \subseteq env /\ under' = under
        BY <2>4 DEF Leave, LeaveWith, Exit, Killed, Ends
    <3> QED BY <2>1, <3>1 DEF TypeOK
  <2> QED BY <1>2, <2>3, <2>4
<1>3. ASSUME NEW p \in Procs, NEW k \in Kids, Spawn(p, k) PROVE BirthInv'
  <2>1. /\ pc' = [pc EXCEPT ![k] = "out"] /\ pc[k] = "unborn" /\ k \in Procs
        /\ env' = env \cup (IF p \in env THEN {k} ELSE {})
        /\ under' = [under EXCEPT ![k] = IF p \in env THEN under[p] ELSE Nobody]
        /\ above' = [above EXCEPT ![k] = above[p] \cup {p}]
        /\ pc[p] # "unborn"
      BY <1>3 DEF Spawn, SpawnMarked, Goes, Procs
  <2>2. \A r \in Procs : pc'[r] = "unborn" => pc[r] = "unborn"
      BY <2>1 DEF TypeOK, Holders
  <2>3. \A r \in Procs : \A a \in above'[r] : pc'[a] # "unborn"
      BY <2>1, <2>2 DEF TypeOK
  <2>4. \A r \in env' : under'[r] \in Procs /\ pc'[under'[r]] # "unborn"
    <3> SUFFICES ASSUME NEW r \in env' PROVE under'[r] \in Procs /\ pc'[under'[r]] # "unborn"
        OBVIOUS
    <3>1. CASE r = k
        BY <2>1, <2>2, <3>1 DEF TypeOK, MarkInv
    <3>2. CASE r # k
        BY <2>1, <2>2, <3>2 DEF TypeOK
    <3> QED BY <3>1, <3>2
  <2> QED BY <2>3, <2>4
<1>4. ASSUME NEW b \in Probes, Probe(b) \/ ProbeDone(b) PROVE BirthInv'
    BY <1>4, ProbeFacts DEF TypeOK
<1>5. CASE Still
    BY <1>5 DEF Still
<1> QED BY <1>1, <1>2, <1>3, <1>4, <1>5 DEF Next, Works, Local, Still, vars, Unload, UnloadDone

-----------------------------------------------------------------------------
\* What CoverInv says of one process.
Covered(p) ==
    /\ under[p] \in Procs /\ lock = under[p] /\ pc[under[p]] = "in"
    /\ under[p] # p =>
          /\ under[p] \in above[p]
          /\ \E k \in Kids : /\ k \in env /\ parent[k] = under[p] /\ under[k] = under[p]
                             /\ k # under[p] /\ k \in above[p] \cup {p}

\* A run is covered by no other process than itself when its block ends: the child
\* in the chain would still be alive, and waited for.
LEMMA LeaveAlone ==
    ASSUME TypeOK, MarkInv, CoverInv, NEW r \in Procs, Leave(r),
           NEW p \in env, p # r, ~Orphan(p)
    PROVE  under[p] # r
<1> SUFFICES ASSUME under[p] = r PROVE FALSE
    OBVIOUS
<1>1. PICK k \in Kids : k \in env /\ parent[k] = r /\ under[k] = r
    BY DEF CoverInv
<1>2. Alive(k)
    BY <1>1 DEF MarkInv, Alive
<1> QED BY <1>1, <1>2 DEF Leave, LeaveWith, Waited, Children

LEMMA CoverNext ==
    ASSUME TypeOK, OwnerInv, MarkInv, BirthInv, CoverInv, [Next]_vars
    PROVE  CoverInv'
<1> USE ProcsAssumption
<1>0. SUFFICES ASSUME NEW q \in env', ~Orphan(q)' PROVE Covered(q)'
    BY DEF CoverInv, Covered
<1>c. \A r \in env : ~Orphan(r) => Covered(r)
    BY DEF CoverInv, Covered
<1>q. q \in Procs
  <2>1. env' \subseteq Procs
      BY TypeNext DEF TypeOK
  <2> QED BY <2>1
<1>1. ASSUME NEW p \in Procs, Local(p) PROVE Covered(q)'
  <2>1. /\ UNCHANGED <<env, parent, above, under>> /\ pc[p] # "in" /\ pc'[p] # "in"
        /\ \A r \in Procs : r # p => pc'[r] = pc[r]
        /\ \A r \in Procs : Alive(r)' = Alive(r)
      BY <1>1, LocalFacts DEF Holders, Alive
  <2>2. ~Orphan(q) /\ q \in env
      BY <1>0, <1>q, <2>1, SameOrphans
  <2>3. Covered(q)
      BY <1>c, <2>2
  <2>4. lock' = lock
    <3>1. lock \in Procs /\ pc[lock] = "in"
        BY <2>3 DEF Covered
    <3> QED BY <1>1, <3>1 DEF Local, Nest, Ask, Take, TurnedAway, Release, Unnest, OwnerInv, Owning, Holders
  <2> QED BY <2>1, <2>3, <2>4 DEF Covered
<1>2. ASSUME NEW p \in Procs, EnterBlock(p) PROVE Covered(q)'
  <2>1. /\ pc' = [pc EXCEPT ![p] = "in"] /\ env' = env \cup {p} /\ pc[p] = "took" /\ lock' = lock
        /\ under' = [under EXCEPT ![p] = p] /\ UNCHANGED <<parent, above>>
      BY <1>2 DEF EnterBlock, Goes
  <2>2. lock = p
      BY <2>1 DEF OwnerInv, Owning
  <2>3. \A r \in Procs : Alive(r)' = Alive(r)
      BY <2>1 DEF Alive, TypeOK, Holders
  <2>4. ~Orphan(q)
      BY <1>0, <1>q, <2>1, <2>3, SameOrphans
  <2>5. q = p
    <3>1. q \in env => Covered(q)
        BY <1>c, <2>4
    <3> QED BY <2>1, <2>2, <3>1 DEF Covered
  <2> QED BY <2>1, <2>2, <2>5 DEF Covered, TypeOK, Holders
<1>3. ASSUME NEW p \in Procs, Leave(p) PROVE Covered(q)'
  <2>1. /\ pc' = [pc EXCEPT ![p] = "leaving"] /\ env' = env \ {p} /\ pc[p] = "in" /\ lock' = lock
        /\ UNCHANGED <<parent, above, under>>
      BY <1>3 DEF Leave, LeaveWith, Goes
  <2>2. \A r \in Procs : Alive(r)' = Alive(r)
      BY <2>1 DEF Alive, TypeOK, Holders
  <2>3. ~Orphan(q) /\ q \in env /\ q # p
      BY <1>0, <1>q, <2>1, <2>2, SameOrphans
  <2>4. Covered(q) /\ under[q] # p
      BY <1>c, <1>3, <2>3, LeaveAlone
  <2>5. lock = p
      BY <2>1 DEF OwnerInv, Owning
  <2> QED BY <2>4, <2>5 DEF Covered
<1>4. ASSUME NEW p \in Procs, Exit(p) \/ Killed(p) PROVE Covered(q)'
  <2>1. /\ pc' = [pc EXCEPT ![p] = "gone"] /\ env' = env \ {p}
        /\ lock' = (IF lock = p THEN Nobody ELSE lock)
        /\ UNCHANGED <<parent, above, under>>
      BY <1>4 DEF Exit, Killed, Ends, Goes
  <2>2. \A r \in Procs : Alive(r)' => Alive(r) /\ r # p
      BY <2>1 DEF Alive, TypeOK, Holders
  <2>3. \A r \in above[q] : Alive(r)' /\ r # p /\ Alive(r)
      BY <1>0, <1>q, <2>1, <2>2 DEF Orphan, TypeOK
  <2>4. ~Orphan(q) /\ q \in env /\ q # p
      BY <2>1, <2>3 DEF Orphan
  <2>5. Covered(q)
      BY <1>c, <2>4
  <2>6. under[q] # p
      BY <2>3, <2>4, <2>5 DEF Covered
  <2>7. lock' = lock /\ pc'[under[q]] = "in"
      BY <2>1, <2>5, <2>6 DEF Covered, TypeOK, Holders
  <2> QED BY <2>1, <2>3, <2>4, <2>5, <2>7 DEF Covered
<1>5. ASSUME NEW p \in Procs, NEW k \in Kids, Spawn(p, k) PROVE Covered(q)'
  <2>1. /\ pc' = [pc EXCEPT ![k] = "out"] /\ pc[k] = "unborn" /\ k \in Procs /\ lock' = lock
        /\ env' = env \cup (IF p \in env THEN {k} ELSE {})
        /\ parent' = [parent EXCEPT ![k] = p]
        /\ under' = [under EXCEPT ![k] = IF p \in env THEN under[p] ELSE Nobody]
        /\ above' = [above EXCEPT ![k] = above[p] \cup {p}]
        /\ pc[p] \in {"out", "in", "nested"} /\ k # p /\ k \notin env
      BY <1>5 DEF Spawn, SpawnMarked, Goes, Procs, MarkInv
  <2>2. \A r \in Procs : r # k => Alive(r)' = Alive(r) /\ pc'[r] = pc[r]
      BY <2>1 DEF Alive, TypeOK, Holders
  <2>3. k # q => ~Orphan(q) /\ q \in env /\ above'[q] = above[q]
    <3> SUFFICES ASSUME k # q PROVE ~Orphan(q) /\ q \in env /\ above'[q] = above[q]
        OBVIOUS
    <3>1. above'[q] = above[q] /\ above[q] \subseteq Procs
        BY <1>q, <2>1 DEF TypeOK
    <3>2. k \notin above[q]
        BY <1>q, <2>1 DEF BirthInv
    <3>3. \A a \in above[q] : Alive(a)
        BY <1>0, <2>2, <3>1, <3>2 DEF Orphan
    <3> QED BY <2>1, <3>1, <3>3 DEF Orphan
  <2>4. CASE q # k
    <3>1. Covered(q) /\ q \in env
        BY <1>c, <2>3, <2>4
    <3>2. under'[q] = under[q] /\ pc'[under[q]] = "in" /\ under[q] # k
        BY <1>q, <2>1, <2>4, <3>1 DEF Covered, TypeOK, Holders
    <3>3. \A j \in env : j # k /\ j \in env' /\ parent'[j] = parent[j] /\ under'[j] = under[j]
        BY <2>1 DEF TypeOK
    <3> QED BY <2>1, <2>3, <2>4, <3>1, <3>2, <3>3 DEF Covered
  <2>5. CASE q = k
    <3>1. p \in env /\ under'[k] = under[p] /\ above'[k] = above[p] \cup {p} /\ parent'[k] = p /\ k \in env'
        BY <1>0, <2>1, <2>5 DEF TypeOK
    <3>2. ~Orphan(p)
      <4>1. k \notin above[p] /\ above[p] \subseteq Procs
          BY <2>1 DEF BirthInv, TypeOK
      <4>2. \A a \in above[p] : Alive(a)
          BY <1>0, <2>2, <2>5, <3>1, <4>1 DEF Orphan
      <4> QED BY <4>2 DEF Orphan
    <3>3. Covered(p)
        BY <1>c, <3>1, <3>2
    <3>4. under[p] \in Procs /\ under[p] # k /\ pc'[under[p]] = "in" /\ lock' = under[p]
        BY <2>1, <3>3 DEF Covered, TypeOK, Holders
    <3>5. CASE under[p] = p
        BY <2>1, <2>5, <3>1, <3>4, <3>5 DEF Covered
    <3>6. CASE under[p] # p
      <4>1. PICK j \in Kids : /\ j \in env /\ parent[j] = under[p] /\ under[j] = under[p]
                              /\ j # under[p] /\ j \in above[p] \cup {p}
          BY <3>3, <3>6 DEF Covered
      <4>2. j # k /\ j \in env' /\ parent'[j] = parent[j] /\ under'[j] = under[j]
          BY <2>1, <4>1 DEF TypeOK
      <4>3. under[p] \in above[p]
          BY <3>3, <3>6 DEF Covered
      <4> QED BY <2>5, <3>1, <3>4, <4>1, <4>2, <4>3 DEF Covered
    <3> QED BY <3>5, <3>6
  <2> QED BY <2>4, <2>5
<1>6. ASSUME NEW b \in Probes, Probe(b) \/ ProbeDone(b) PROVE Covered(q)'
  <2>1. /\ UNCHANGED <<env, parent, above, under>> /\ \A r \in Procs : pc'[r] = pc[r]
        /\ lock' = lock \/ lock = Nobody \/ lock = b
      BY <1>6, ProbeFacts
  <2>2. \A r \in Procs : Alive(r)' = Alive(r)
      BY <2>1 DEF Alive
  <2>3. ~Orphan(q) /\ q \in env
      BY <1>0, <1>q, <2>1, <2>2, SameOrphans
  <2>4. Covered(q)
      BY <1>c, <2>3
  <2> QED BY <2>1, <2>4 DEF Covered, Holders
<1>7. CASE Still
  <2>1. UNCHANGED <<env, parent, above, under, pc, lock>>
      BY <1>7 DEF Still
  <2>2. \A r \in Procs : Alive(r)' = Alive(r)
      BY <2>1 DEF Alive
  <2>3. ~Orphan(q) /\ q \in env
      BY <1>0, <1>q, <2>1, <2>2, SameOrphans
  <2> QED BY <1>c, <2>1, <2>3 DEF Covered
<1> QED BY <1>1, <1>2, <1>3, <1>4, <1>5, <1>6, <1>7 DEF Next, Works, Local, Still, vars, Unload, UnloadDone

-----------------------------------------------------------------------------
LEMMA InvNext == ASSUME IInv, [Next]_vars PROVE IInv'
BY TypeNext, OwnerNext, MarkNext, BirthNext, CoverNext DEF IInv

\* A process at work whose parents live is covered by the run that holds the lock.
LEMMA InvOneRun == IInv => OneRun
BY DEF IInv, OneRun, AtWork, MarkInv, CoverInv

\* Whoever unloads on its mark is marked, in no block of its own, and has no child.
FreeInv == \A u \in freeing : u \in env /\ pc[u] = "out" /\ Children(u) = {}

\* From a process down to one that descends from it there is a child of it on the way.
ChainInv ==
    \A p \in Procs : \A u \in above[p] : \E k \in Kids : parent[k] = u /\ k \in above[p] \cup {p}

LEMMA FreeNext ==
    ASSUME TypeOK, MarkInv, FreeInv, [Next]_vars
    PROVE  FreeInv'
<1> USE ProcsAssumption DEF FreeInv
<1>1. ASSUME NEW p \in Procs, Local(p) PROVE FreeInv'
  <2>1. UNCHANGED <<env, parent, freeing>> /\ \A r \in Procs : Alive(r)' = Alive(r)
      BY <1>1, LocalFacts DEF Holders, Alive
  <2>2. \A u \in freeing : pc'[u] = "out"
      BY <1>1 DEF Local, Nest, Ask, Take, TurnedAway, Release, Unnest, Goes, TypeOK, Holders
  <2>3. Kids \subseteq Procs
      BY DEF Procs
  <2> QED BY <2>1, <2>2, <2>3 DEF Children
<1>2. ASSUME NEW p \in Procs, EnterBlock(p) \/ Leave(p) PROVE FreeInv'
  <2>1. /\ UNCHANGED <<parent, freeing>> /\ env \ {p} \subseteq env' /\ pc[p] \in {"took", "in"}
        /\ \A r \in Procs : (r # p => pc'[r] = pc[r]) /\ Alive(r)' = Alive(r)
      BY <1>2 DEF EnterBlock, Leave, LeaveWith, Goes, Alive, TypeOK, Holders
  <2>2. p \notin freeing /\ freeing \subseteq Procs /\ Kids \subseteq Procs
      BY <2>1 DEF TypeOK, Procs
  <2> QED BY <2>1, <2>2 DEF Children
<1>3. ASSUME NEW p \in Procs, Exit(p) \/ Killed(p) PROVE FreeInv'
  <2>1. /\ parent' = parent /\ freeing' = freeing \ {p} /\ env' = env \ {p}
        /\ \A r \in Procs : (r # p => pc'[r] = pc[r]) /\ (Alive(r)' => Alive(r))
      BY <1>3 DEF Exit, Killed, Ends, Goes, Alive, TypeOK, Holders
  <2>2. freeing \subseteq Procs /\ Kids \subseteq Procs
      BY DEF TypeOK, Procs
  <2> QED BY <2>1, <2>2 DEF Children
<1>4. ASSUME NEW p \in Procs, NEW k \in Kids, Spawn(p, k) PROVE FreeInv'
  <2>1. /\ parent' = [parent EXCEPT ![k] = p] /\ freeing' = freeing /\ env \subseteq env'
        /\ p \notin freeing /\ pc[k] = "unborn" /\ k \in Procs
        /\ \A r \in Procs : r # k => pc'[r] = pc[r] /\ Alive(r)' = Alive(r)
      BY <1>4 DEF Spawn, SpawnMarked, Goes, Alive, TypeOK, Holders, Procs
  <2>2. k \notin freeing /\ freeing \subseteq Procs /\ Kids \subseteq Procs
      BY <2>1 DEF TypeOK, Procs
  <2> QED BY <2>1, <2>2 DEF Children, TypeOK
<1>5. ASSUME NEW b \in Probes, Probe(b) \/ ProbeDone(b) PROVE FreeInv'
  <2>1. /\ UNCHANGED <<env, parent>> /\ \A r \in Procs : pc'[r] = pc[r]
      BY <1>5, ProbeFacts
  <2>2. freeing' = freeing /\ freeing \subseteq Procs /\ Kids \subseteq Procs
      BY <1>5 DEF Probe, ProbeDone, TypeOK, Procs
  <2> QED BY <2>1, <2>2 DEF Children, Alive
<1>6. ASSUME NEW p \in Procs, Unload(p) \/ UnloadDone(p) PROVE FreeInv'
  <2>1. Still /\ \A u \in freeing' : u \in env /\ pc[u] = "out" /\ Children(u) = {}
      BY <1>6 DEF Unload, UnloadDone, Still
  <2> QED BY <2>1 DEF Still, Children, Alive
<1>7. CASE UNCHANGED vars
    BY <1>7 DEF vars, Children, Alive
<1> QED BY <1>1, <1>2, <1>3, <1>4, <1>5, <1>6, <1>7 DEF Next, Works, Local

\* Only a birth changes who descends from whom.
LEMMA ChainNext ==
    ASSUME TypeOK, BirthInv, ChainInv, [Next]_vars
    PROVE  ChainInv'
<1> USE DEF ChainInv
<1>1. ASSUME NEW p \in Procs, NEW k \in Kids, Spawn(p, k) PROVE ChainInv'
  <2>1. /\ parent' = [parent EXCEPT ![k] = p] /\ above' = [above EXCEPT ![k] = above[p] \cup {p}]
        /\ pc[k] = "unborn" /\ pc[p] # "unborn" /\ k \in Procs
      BY <1>1 DEF Spawn, SpawnMarked, Procs
  <2> SUFFICES ASSUME NEW r \in Procs, NEW u \in above'[r]
               PROVE  \E j \in Kids : parent'[j] = u /\ j \in above'[r] \cup {r}
      OBVIOUS
  <2>2. CASE r # k
    <3>1. above'[r] = above[r] /\ u \in above[r]
        BY <2>1, <2>2 DEF TypeOK
    <3>2. PICK j \in Kids : parent[j] = u /\ j \in above[r] \cup {r}
        BY <3>1
    <3>3. j # k
        BY <2>1, <2>2, <3>2 DEF BirthInv
    <3> QED BY <2>1, <3>1, <3>2, <3>3 DEF TypeOK
  <2>3. CASE r = k /\ u = p
      BY <2>1, <2>3 DEF TypeOK
  <2>4. CASE r = k /\ u # p
    <3>1. above'[r] = above[p] \cup {p} /\ u \in above[p]
        BY <2>1, <2>4 DEF TypeOK
    <3>2. PICK j \in Kids : parent[j] = u /\ j \in above[p] \cup {p}
        BY <3>1
    <3>3. j # k
        BY <2>1, <3>2 DEF BirthInv
    <3> QED BY <2>1, <3>1, <3>2, <3>3 DEF TypeOK
  <2> QED BY <2>2, <2>3, <2>4
<1>2. CASE UNCHANGED <<parent, above>>
    BY <1>2
<1>3. ASSUME NEW p \in Procs, Works(p) \/ Unload(p) \/ UnloadDone(p) \/ Exit(p) \/ Killed(p)
      PROVE  UNCHANGED <<parent, above>>
    BY <1>3 DEF Works, Nest, Ask, Take, TurnedAway, EnterBlock, Leave, LeaveWith, Release, Unnest,
                Unload, UnloadDone, Exit, Killed, Ends
<1>4. ASSUME NEW b \in Probes, Probe(b) \/ ProbeDone(b) PROVE UNCHANGED <<parent, above>>
    BY <1>4 DEF Probe, ProbeDone
<1> QED BY <1>1, <1>2, <1>3, <1>4 DEF Next, vars

\* A probe that has the lock finds no run at work; a process that unloads on its mark
\* is covered by the same run as whoever is at work, and a child of it would be alive.
LEMMA InvUnload == IInv /\ FreeInv /\ ChainInv => NoForeignUnload
<1> SUFFICES ASSUME IInv, FreeInv, ChainInv, NEW p \in Procs, AtWork(p), ~Orphan(p)
             PROVE  /\ \A b \in Probes : pc[b] # "probing"
                    /\ \A u \in freeing : ~Orphan(u) => under[u] = under[p] /\ u \notin above[p]
    BY DEF NoForeignUnload
<1>1. p \in env /\ lock = under[p] /\ under[p] \in Procs
    BY DEF IInv, AtWork, MarkInv, CoverInv
<1>2. ASSUME NEW b \in Probes, pc[b] = "probing" PROVE FALSE
    BY <1>1, <1>2, ProcsAssumption DEF IInv, OwnerInv
<1>3. ASSUME NEW u \in freeing, ~Orphan(u) PROVE under[u] = under[p] /\ u \notin above[p]
  <2>1. u \in env /\ Children(u) = {}
      BY DEF FreeInv
  <2>2. lock = under[u]
      BY <1>3, <2>1 DEF IInv, CoverInv
  <2>3. ASSUME u \in above[p] PROVE FALSE
    <3>1. PICK k \in Kids : parent[k] = u /\ k \in above[p] \cup {p}
        BY <2>3 DEF ChainInv
    <3>2. Alive(k)
        BY <3>1 DEF Orphan, AtWork, Alive
    <3> QED BY <2>1, <3>1, <3>2 DEF Children
  <2> QED BY <1>1, <2>2, <2>3
<1> QED BY <1>2, <1>3

\* Processes, marks, names and the lock are of the right kind.
THEOREM TypeCorrect == Spec => []TypeOK
<1>1. IInv => TypeOK
    BY DEF IInv
<1>2. IInv /\ [Next]_vars => IInv'
    BY InvNext
<1> QED BY InitInv, <1>1, <1>2, PTL DEF Spec

\* Processes at work whose parents all live belong to the one run that holds the lock,
\* however many runs, children and kills there are.
THEOREM OneRunAtATime == Spec => []OneRun
<1>1. IInv /\ [Next]_vars => IInv'
    BY InvNext
<1> QED BY InitInv, InvOneRun, <1>1, PTL DEF Spec

\* The holder file names the run that is in its block.
THEOREM HolderIsNamed == Spec => []HolderNamed
<1>1. IInv => HolderNamed
    BY DEF IInv
<1>2. IInv /\ [Next]_vars => IInv'
    BY InvNext
<1> QED BY InitInv, <1>1, <1>2, PTL DEF Spec

\* No unload takes a model from another's run, under the lock or on a mark.
THEOREM NoUnloadOfOthers == Spec => []NoForeignUnload
<1>1. Init => FreeInv /\ ChainInv
    BY DEF Init, FreeInv, ChainInv
<1>2. IInv /\ FreeInv /\ ChainInv /\ [Next]_vars => IInv' /\ FreeInv' /\ ChainInv'
    BY InvNext, FreeNext, ChainNext DEF IInv
<1> QED BY InitInv, InvUnload, <1>1, <1>2, PTL DEF Spec

-----------------------------------------------------------------------------
(* Nobody waits in a circle.                                                 *)

\* Nobody is its own parent, and a live process that was started in another's block has
\* its mark, whatever happened to that block since.
UnderInv ==
    \A p \in Procs : /\ Alive(p) /\ under[p] \notin {Nobody, p} => p \in env
                     /\ parent[p] # p

\* Whoever has the machine lock is alive and has a next step that waits for nobody who
\* waits for the lock: the children its block waits for are marked, so they take no lock
\* and leave their own blocks without one.
HolderGoesOn ==
    lock # Nobody =>
        \/ lock \in Probes /\ pc[lock] = "probing"
        \/ lock \in Procs /\ pc[lock] \in {"took", "leaving"}
        \/ /\ lock \in Procs /\ pc[lock] = "in"
           /\ \A k \in Waited(lock) : k \in env /\ pc[k] \in {"out", "nested"}

\* A child is marked when it is started in a marked process, and no mark but a block's
\* own is taken back.
LEMMA UnderNext ==
    ASSUME TypeOK, MarkInv, BirthInv, UnderInv, [Next]_vars
    PROVE  UnderInv'
<1> USE ProcsAssumption DEF UnderInv
<1>1. ASSUME NEW p \in Procs, Local(p) PROVE UnderInv'
  <2>1. UNCHANGED <<env, under, parent>> /\ \A r \in Procs : Alive(r)' = Alive(r)
      BY <1>1, LocalFacts DEF Holders, Alive
  <2> QED BY <2>1
<1>2. ASSUME NEW p \in Procs, EnterBlock(p) PROVE UnderInv'
  <2>1. /\ pc' = [pc EXCEPT ![p] = "in"] /\ env' = env \cup {p} /\ pc[p] = "took"
        /\ under' = [under EXCEPT ![p] = p] /\ parent' = parent
      BY <1>2 DEF EnterBlock, Goes
  <2> QED BY <2>1 DEF Alive, TypeOK, Holders
<1>3. ASSUME NEW p \in Procs, Leave(p) PROVE UnderInv'
  <2>1. /\ pc' = [pc EXCEPT ![p] = "leaving"] /\ env' = env \ {p} /\ pc[p] = "in"
        /\ UNCHANGED <<under, parent>>
      BY <1>3 DEF Leave, LeaveWith, Goes
  <2>2. under[p] = p
      BY <2>1 DEF MarkInv
  <2> QED BY <2>1, <2>2 DEF Alive, TypeOK, Holders
<1>4. ASSUME NEW p \in Procs, Exit(p) \/ Killed(p) PROVE UnderInv'
  <2>1. /\ pc' = [pc EXCEPT ![p] = "gone"] /\ env' = env \ {p} /\ UNCHANGED <<under, parent>>
      BY <1>4 DEF Exit, Killed, Ends, Goes
  <2> QED BY <2>1 DEF Alive, TypeOK, Holders
<1>5. ASSUME NEW p \in Procs, NEW k \in Kids, Spawn(p, k) PROVE UnderInv'
  <2>1. /\ pc' = [pc EXCEPT ![k] = "out"] /\ k \in Procs
        /\ env' = env \cup (IF p \in env THEN {k} ELSE {})
        /\ under' = [under EXCEPT ![k] = IF p \in env THEN under[p] ELSE Nobody]
        /\ parent' = [parent EXCEPT ![k] = p] /\ p # k
      BY <1>5 DEF Spawn, SpawnMarked, Goes, Procs
  <2> QED BY <2>1 DEF Alive, TypeOK, Holders
<1>6. ASSUME NEW b \in Probes, Probe(b) \/ ProbeDone(b) PROVE UnderInv'
  <2>1. UNCHANGED <<env, under, parent>> /\ \A r \in Procs : Alive(r)' = Alive(r)
      BY <1>6, ProbeFacts DEF Alive
  <2> QED BY <2>1
<1>7. CASE Still
    BY <1>7 DEF Still, Alive
<1> QED BY <1>1, <1>2, <1>3, <1>4, <1>5, <1>6, <1>7 DEF Next, Works, Local, Still, vars, Unload, UnloadDone

LEMMA InvGoesOn == ASSUME IInv, UnderInv, lock # Nobody PROVE HolderGoesOn
<1> USE ProcsAssumption DEF IInv, TypeOK, OwnerInv
<1>1. CASE lock \in Probes
    BY <1>1 DEF HolderGoesOn
<1>2. CASE lock \in Procs
  <2>1. pc[lock] \in Owning
      BY <1>2
  <2>2. ASSUME pc[lock] = "in", NEW k \in Waited(lock)
        PROVE  k \in env /\ pc[k] \in {"out", "nested"}
    <3>1. k \in Procs /\ Alive(k) /\ under[k] = lock /\ parent[k] = lock
        BY <2>2 DEF Waited, Children, Procs
    <3>2. CASE k = lock
        BY <3>1, <3>2 DEF UnderInv
    <3>3. CASE k # lock
      <4>1. k \in env
          BY <1>2, <3>1, <3>3 DEF UnderInv
      <4>2. pc[k] # "in"
          BY <2>2, <3>1, <3>3 DEF Owning
      <4> QED BY <4>1, <4>2 DEF MarkInv
    <3> QED BY <3>2, <3>3
  <2> QED BY <1>2, <2>1, <2>2 DEF HolderGoesOn, Owning
<1> QED BY <1>1, <1>2 DEF Holders

\* No holder of the machine lock waits for a process that waits for the lock, so no run,
\* child and parent can wait for each other (exclusive.held, README.md:2178).
THEOREM NoCircle == Spec => []HolderGoesOn
<1>1. Init => UnderInv
    BY ProcsAssumption DEF Init, UnderInv, Holders
<1>2. IInv /\ UnderInv /\ [Next]_vars => IInv' /\ UnderInv'
    BY InvNext, UnderNext DEF IInv
<1>3. IInv /\ UnderInv => HolderGoesOn
    BY InvGoesOn DEF HolderGoesOn
<1> QED BY InitInv, <1>1, <1>2, <1>3, PTL DEF Spec
=============================================================================
