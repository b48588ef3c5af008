------------------------- MODULE PeerPermitsProofs -------------------------
(***************************************************************************)
(* Proofs about PeerPermits for any sessions, torrents, limits and number  *)
(* of configurations.  The inductive invariant is TypeOK and Accounted;    *)
(* WithinLimits follows from it because the sessions that are open on a    *)
(* pool are among its owners, and those that in_use counts as well.        *)
(***************************************************************************)
EXTENDS PeerPermits, FiniteSetTheorems, TLAPS

\* The two pools of a session are pools, and not the same one.
LEMMA TwoPools ==
  ASSUME TypeOK, NEW s \in Sessions
  PROVE  /\ Pool(s, 1) \in Pools
         /\ Pool(s, 2) \in Pools
         /\ Pool(s, 1) # Pool(s, 2)
  BY PermitAssumption DEF TypeOK, Pool, Pools

\* Limits are natural numbers.
LEMMA LimitIsNat == ASSUME NEW p \in Pools PROVE Limit(p) \in Nat
  BY Zenon, PermitAssumption
     DEF Pools, Limit, effective_per_torrent_peer_limit,
         DefaultPerTorrentPeerLimit

\* The owners and the counted sessions of a pool are finitely many.
LEMMA OwnersFinite ==
  ASSUME NEW p \in Pools
  PROVE  /\ IsFiniteSet(Owners(p)) /\ Cardinality(Owners(p)) \in Nat
         /\ IsFiniteSet(Counters(p)) /\ Cardinality(Counters(p)) \in Nat
<1>1. Owners(p) \subseteq Sessions /\ Counters(p) \subseteq Sessions
  BY Zenon DEF Owners, Counters
<1> QED
  BY Zenon, <1>1, PermitAssumption, FS_Subset, FS_CardinalityType

\* What a pool's accounts say about one pool.
Balanced(p) ==
  /\ Bounded(p) => permits[p] + Cardinality(Owners(p)) = Limit(p)
  /\ in_use[p] = Cardinality(Counters(p))

\* A step that changes neither the sets nor the counters of a pool keeps its
\* accounts.
LEMMA NothingMoves ==
  ASSUME NEW p \in Pools, Balanced(p),
         permits'[p] = permits[p], in_use'[p] = in_use[p],
         \A x \in Sessions : Owns(x, p)' <=> Owns(x, p),
         \A x \in Sessions : Counts(x, p)' <=> Counts(x, p)
  PROVE  Balanced(p)'
<1>1. Owners(p)' = Owners(p) /\ Counters(p)' = Counters(p)
  BY Zenon DEF Owners, Counters
<1>2. Limit(p)' = Limit(p) /\ (Bounded(p)' <=> Bounded(p))
  BY Zenon DEF Limit, Bounded
<1> QED
  BY Zenon, <1>1, <1>2 DEF Balanced

\* Type correctness of the sessions, the pools and the replacement.
LEMMA TypeStep == Accounted /\ TypeOK /\ [Next]_vars => TypeOK'
<1> SUFFICES ASSUME Accounted, TypeOK, [Next]_vars PROVE TypeOK'
  BY Zenon
<1> USE DEF TypeOK, HeldMatchesStep, SessionSteps, AdminSteps, poolVars,
            sessionVars, adminVars, Generations
<1>1. ASSUME NEW s \in Sessions, Begin(s) PROVE TypeOK'
  BY Zenon, <1>1 DEF Begin
<1>2. ASSUME NEW s \in Sessions, Acquire(s) PROVE TypeOK'
  <2>1. Wanted(s) \in Pools
    BY <1>2, TwoPools DEF Acquire, Wanted
  <2>2. Bounded(Wanted(s)) => permits[Wanted(s)] > 0
    BY Zenon, <1>2 DEF Acquire, Available
  <2>3. permits' \in [Pools -> Nat]
    BY SMTT(40), <1>2, <2>1, <2>2 DEF Acquire
  <2> QED
    BY Zenon, <1>2, <2>3 DEF Acquire
<1>3. ASSUME NEW s \in Sessions, Enqueue(s) PROVE TypeOK'
  BY Zenon, <1>3 DEF Enqueue, Waiters
<1>4. ASSUME NEW s \in Sessions, Denied(s) PROVE TypeOK'
  BY Zenon, <1>4 DEF Denied, Unwind
<1>5. ASSUME NEW s \in Sessions, Poll(s) PROVE TypeOK'
  BY Zenon, <1>5 DEF Poll
<1>6. ASSUME NEW s \in Sessions, Count(s) PROVE TypeOK'
  <2>1. Wanted(s) \in Pools
    BY <1>6, TwoPools DEF Count, Wanted
  <2> QED
    BY <1>6, <2>1 DEF Count
<1>7. ASSUME NEW s \in Sessions, CancelWait(s) PROVE TypeOK'
  BY Zenon, <1>7 DEF CancelWait, Unwind
<1>8. ASSUME NEW s \in Sessions, End(s) PROVE TypeOK'
  BY Zenon, <1>8 DEF End
<1>9. ASSUME NEW s \in Sessions, Uncount(s) PROVE TypeOK'
  <2> DEFINE p == Pool(s, held[s])
  <2>1. p \in Pools /\ Counts(s, p)
    BY <1>9, TwoPools DEF Uncount, Counts
  <2>2. s \in Counters(p)
    BY Zenon, <2>1 DEF Counters
  <2>3. Cardinality(Counters(p)) # 0
    BY Zenon, <2>1, <2>2, OwnersFinite, FS_EmptySet
  <2>4. in_use[p] \in Nat \ {0}
    BY Zenon, <2>1, <2>3, OwnersFinite DEF Accounted
  <2>5. in_use' \in [Pools -> Nat]
    BY <1>9, <2>1, <2>4 DEF Uncount
  <2> QED
    BY Zenon, <1>9, <2>5 DEF Uncount
<1>10. ASSUME NEW s \in Sessions, NEW p \in Pools, NEW step \in SessionSteps,
              GiveBack(p, s, step)
       PROVE  /\ permits' \in [Pools -> Nat]
              /\ pc' \in [Sessions -> SessionSteps]
              /\ ahead' \in [Sessions -> SUBSET Sessions]
              /\ \A x \in Sessions : x # s =>
                   \/ pc'[x] = pc[x]
                   \/ pc[x] = "wait" /\ pc'[x] = "granted"
              /\ pc'[s] = step \/ (pc[s] = "wait" /\ pc'[s] = "granted")
  BY <1>10 DEF GiveBack, First, Waiters
<1>11. ASSUME NEW s \in Sessions, Release(s) PROVE TypeOK'
  <2>1. Pool(s, held[s]) \in Pools
    BY Zenon, <1>11, TwoPools DEF Release
  <2>2. (IF held[s] = 1 THEN "idle" ELSE "uncount") \in SessionSteps
    BY Zenon
  <2> HIDE DEF SessionSteps
  <2>3. /\ permits' \in [Pools -> Nat]
        /\ pc' \in [Sessions -> SessionSteps]
        /\ ahead' \in [Sessions -> SUBSET Sessions]
        /\ \A x \in Sessions : x # s =>
             \/ pc'[x] = pc[x]
             \/ pc[x] = "wait" /\ pc'[x] = "granted"
        /\ pc'[s] = IF held[s] = 1 THEN "idle" ELSE "uncount"
    BY <1>10, <1>11, <2>1, <2>2 DEF Release
  <2>4. held' \in [Sessions -> 0..2]
    BY <1>11 DEF Release
  <2>5. HeldMatchesStep'
    BY <1>11, <2>3 DEF Release
  <2> QED
    BY Zenon, <1>11, <2>3, <2>4, <2>5 DEF Release
<1>12. ASSUME NEW s \in Sessions, CancelGranted(s) PROVE TypeOK'
  <2>1. Wanted(s) \in Pools
    BY <1>12, TwoPools DEF CancelGranted, Wanted
  <2>2. Unwind(s) \in SessionSteps
    BY Zenon DEF Unwind
  <2> HIDE DEF SessionSteps
  <2>3. /\ permits' \in [Pools -> Nat]
        /\ pc' \in [Sessions -> SessionSteps]
        /\ ahead' \in [Sessions -> SUBSET Sessions]
        /\ \A x \in Sessions : x # s =>
             \/ pc'[x] = pc[x]
             \/ pc[x] = "wait" /\ pc'[x] = "granted"
        /\ pc'[s] = Unwind(s)
    BY SMTT(40), <1>10, <1>12, <2>1, <2>2 DEF CancelGranted
  <2>4. HeldMatchesStep'
    BY Zenon, <1>12, <2>3 DEF CancelGranted, Unwind
  <2> QED
    BY Zenon, <1>12, <2>3, <2>4 DEF CancelGranted
<1>13. ASSUME ReplaceBegin \/ AdminStep PROVE TypeOK'
  <2> USE DEF AdminStep, DrainGlobal, DrainTorrents, DrainTimesOut, Install,
              Reconstruct, Commit, ReplaceFails, Rollback
  <2>1. admin' \in AdminSteps
    BY Zenon, <1>13 DEF ReplaceBegin
  <2>0. /\ installed \in Generations /\ previous \in Generations
        /\ candidate \in Generations /\ owner \in Generations \cup {0}
    BY Zenon
  <2>2. /\ installed' \in Generations /\ previous' \in Generations
        /\ owner' \in Generations \cup {0}
    BY Zenon, <1>13, <2>0 DEF ReplaceBegin
  <2>4. candidate' \in Generations
    <3>1. CASE ReplaceBegin
      <4>1. candidate' = candidate + 1 /\ candidate < MaxGeneration
        BY Zenon, <3>1 DEF ReplaceBegin
      <4>2. MaxGeneration \in Nat
        BY Zenon, PermitAssumption
      <4> QED
        BY <2>0, <4>1, <4>2
    <3>2. CASE AdminStep
      BY Zenon, <2>0, <3>2
    <3> QED
      BY Zenon, <1>13, <3>1, <3>2
  <2>3. UNCHANGED <<poolVars, sessionVars>>
    BY Zenon, <1>13 DEF ReplaceBegin
  <2> QED
    BY Zenon, <2>1, <2>2, <2>3, <2>4
<1>14. ASSUME UNCHANGED vars PROVE TypeOK'
  BY Zenon, <1>14 DEF vars
<1> QED
  BY Zenon, <1>1, <1>2, <1>3, <1>4, <1>5, <1>6, <1>7, <1>8, <1>9, <1>11, <1>12,
     <1>13, <1>14 DEF Next, SessionStep, Cancel

\* A session joins the owners of a pool it does not own.
LEMMA OwnerJoins ==
  ASSUME NEW p \in Pools, NEW s \in Sessions, ~Owns(s, p), Owns(s, p)',
         \A x \in Sessions \ {s} : Owns(x, p)' <=> Owns(x, p)
  PROVE  Cardinality(Owners(p)') = Cardinality(Owners(p)) + 1
<1>1. Owners(p)' = Owners(p) \cup {s} /\ s \notin Owners(p)
  BY Zenon DEF Owners
<1> QED
  BY Zenon, <1>1, OwnersFinite, FS_AddElement

\* A session leaves the owners of a pool it owns.
LEMMA OwnerLeaves ==
  ASSUME NEW p \in Pools, NEW s \in Sessions, Owns(s, p), ~Owns(s, p)',
         \A x \in Sessions \ {s} : Owns(x, p)' <=> Owns(x, p)
  PROVE  Cardinality(Owners(p)') = Cardinality(Owners(p)) - 1
<1>1. Owners(p)' = Owners(p) \ {s} /\ s \in Owners(p)
  BY Zenon DEF Owners
<1> QED
  BY Zenon, <1>1, OwnersFinite, FS_RemoveElement

\* A permit passes from one session to another.
LEMMA OwnerChanges ==
  ASSUME NEW p \in Pools, NEW s \in Sessions, NEW w \in Sessions,
         Owns(s, p), ~Owns(s, p)', ~Owns(w, p), Owns(w, p)',
         \A x \in Sessions \ {s, w} : Owns(x, p)' <=> Owns(x, p)
  PROVE  Cardinality(Owners(p)') = Cardinality(Owners(p))
<1> DEFINE R == Owners(p) \ {s}
<1>1. Owners(p)' = R \cup {w} /\ s \in Owners(p) /\ w \notin R
  BY Zenon DEF Owners
<1>2. IsFiniteSet(R) /\ Cardinality(R) = Cardinality(Owners(p)) - 1
  BY Zenon, <1>1, OwnersFinite, FS_RemoveElement
<1>3. Cardinality(R \cup {w}) = Cardinality(R) + 1
  BY Zenon, <1>1, <1>2, FS_AddElement
<1> QED
  BY <1>1, <1>2, <1>3, OwnersFinite

\* The counted sessions of a pool gain or lose one.
LEMMA CounterMoves ==
  ASSUME NEW p \in Pools, NEW s \in Sessions,
         \A x \in Sessions \ {s} : Counts(x, p)' <=> Counts(x, p)
  PROVE  /\ ~Counts(s, p) /\ Counts(s, p)' =>
              Cardinality(Counters(p)') = Cardinality(Counters(p)) + 1
         /\ Counts(s, p) /\ ~Counts(s, p)' =>
              Cardinality(Counters(p)') = Cardinality(Counters(p)) - 1
<1>1. ~Counts(s, p) /\ Counts(s, p)' =>
        Counters(p)' = Counters(p) \cup {s} /\ s \notin Counters(p)
  BY Zenon DEF Counters
<1>2. Counts(s, p) /\ ~Counts(s, p)' =>
        Counters(p)' = Counters(p) \ {s} /\ s \in Counters(p)
  BY Zenon DEF Counters
<1> QED
  BY <1>1, <1>2, OwnersFinite, FS_AddElement, FS_RemoveElement

\* Every step keeps the accounts of every pool.
LEMMA AccountedStep == Accounted /\ TypeOK /\ [Next]_vars => Accounted'
<1> SUFFICES ASSUME Accounted, TypeOK, [Next]_vars, NEW p \in Pools
             PROVE  Balanced(p)'
  BY Zenon DEF Accounted, Balanced
<1>0. Balanced(p) /\ Limit(p)' = Limit(p) /\ (Bounded(p)' <=> Bounded(p))
  BY Zenon DEF Accounted, Balanced, Limit, Bounded
<1>n. /\ Limit(p) \in Nat /\ permits[p] \in Nat /\ in_use[p] \in Nat
      /\ Cardinality(Owners(p)) \in Nat /\ Cardinality(Counters(p)) \in Nat
  BY Zenon, LimitIsNat, OwnersFinite DEF TypeOK
<1>t. \A s \in Sessions : /\ Pool(s, 1) \in Pools
                          /\ Pool(s, 2) \in Pools
                          /\ Pool(s, 1) # Pool(s, 2)
  BY Zenon, TwoPools
<1>1. ASSUME NEW s \in Sessions, Begin(s) PROVE Balanced(p)'
  <2>1. \A x \in Sessions : Owns(x, p)' <=> Owns(x, p)
    BY SMTT(40), <1>1 DEF Begin, TypeOK, HeldMatchesStep, Owns, Pool, Wanted
  <2>2. \A x \in Sessions : Counts(x, p)' <=> Counts(x, p)
    BY <1>1 DEF Begin, TypeOK, HeldMatchesStep, Counts, Pool
  <2> QED
    BY Zenon, <1>0, <1>1, <2>1, <2>2, NothingMoves DEF Begin, poolVars
<1>2. ASSUME NEW s \in Sessions, Acquire(s) PROVE Balanced(p)'
  <2>1. \A x \in Sessions \ {s} : Owns(x, p)' <=> Owns(x, p)
    BY Zenon, <1>2 DEF Acquire, TypeOK, Owns, Pool, Wanted
  <2>2. \A x \in Sessions : Counts(x, p)' <=> Counts(x, p)
    BY Zenon, <1>2 DEF Acquire, TypeOK, Counts, Pool
  <2>3. held[s] \in {0, 1} /\ pc[s] = "acquire" /\ pc'[s] = "count"
    BY Zenon, <1>2 DEF Acquire, TypeOK, HeldMatchesStep
  <2>4. /\ Pool(s, 1)' = Pool(s, 1) /\ Pool(s, 2)' = Pool(s, 2)
        /\ held' = held /\ Wanted(s)' = Wanted(s)
    BY Zenon, <1>2 DEF Acquire, Pool, Wanted
  <2>5. CASE p = Wanted(s)
    <3>1. ~Owns(s, p) /\ Owns(s, p)'
      BY <1>t, <2>3, <2>4, <2>5 DEF Owns, Wanted
    <3>2. Cardinality(Owners(p)') = Cardinality(Owners(p)) + 1
      BY Zenon, <2>1, <3>1, OwnerJoins
    <3>3. Bounded(p) => permits[p] > 0 /\ permits'[p] = permits[p] - 1
      BY Zenon, <1>2, <2>5 DEF Acquire, Available, TypeOK
    <3>4. Counters(p)' = Counters(p) /\ in_use' = in_use
      BY Zenon, <1>2, <2>2 DEF Acquire, Counters
    <3> QED
      BY SMTT(40), <1>0, <1>n, <3>2, <3>3, <3>4 DEF Balanced
  <2>6. CASE p # Wanted(s)
    <3>1. Owns(s, p)' <=> Owns(s, p)
      BY Zenon, <2>3, <2>4, <2>6 DEF Owns
    <3>2. permits'[p] = permits[p] /\ in_use' = in_use
      BY Zenon, <1>2, <2>6 DEF Acquire, TypeOK
    <3> QED
      BY Zenon, <1>0, <2>1, <2>2, <3>1, <3>2, NothingMoves
  <2> QED
    BY Zenon, <2>5, <2>6
<1>3. ASSUME NEW s \in Sessions,
             Enqueue(s) \/ Denied(s) \/ Poll(s) \/ CancelWait(s) \/ End(s)
      PROVE  Balanced(p)'
  <2> USE DEF Enqueue, Denied, Poll, CancelWait, End, Unwind, poolVars
  <2>1. UNCHANGED <<permits, in_use, held, gen>>
    BY Zenon, <1>3
  <2>2. \A x \in Sessions \ {s} : pc'[x] = pc[x]
    BY Zenon, <1>3 DEF TypeOK
  <2>3. /\ pc[s] # "release" /\ pc'[s] # "release"
        /\ pc[s] \in {"granted", "count"} <=> pc'[s] \in {"granted", "count"}
    BY Zenon, <1>3 DEF TypeOK
  <2> HIDE DEF Enqueue, Denied, Poll, CancelWait, End, Unwind, poolVars
  <2>4. \A x \in Sessions : Owns(x, p)' <=> Owns(x, p)
    BY Zenon, <2>1, <2>2, <2>3 DEF Owns, Pool, Wanted
  <2>5. \A x \in Sessions : Counts(x, p)' <=> Counts(x, p)
    BY Zenon, <2>1, <2>2, <2>3 DEF Counts, Pool
  <2> QED
    BY Zenon, <1>0, <2>1, <2>4, <2>5, NothingMoves
<1>4. ASSUME NEW s \in Sessions, Count(s) PROVE Balanced(p)'
  <2>1. held[s] \in {0, 1} /\ pc[s] = "count" /\ pc'[s] \in {"acquire", "open"}
    BY Zenon, <1>4 DEF Count, TypeOK, HeldMatchesStep
  <2>2. /\ Pool(s, 1)' = Pool(s, 1) /\ Pool(s, 2)' = Pool(s, 2)
        /\ held'[s] = held[s] + 1 /\ permits' = permits
    BY Zenon, <1>4 DEF Count, Pool, TypeOK
  <2>3. \A x \in Sessions \ {s} : /\ Owns(x, p)' <=> Owns(x, p)
                                  /\ Counts(x, p)' <=> Counts(x, p)
    BY Zenon, <1>4 DEF Count, TypeOK, Owns, Counts, Pool, Wanted
  <2>4. Owns(s, p)' <=> Owns(s, p)
    BY SMTT(40), <2>1, <2>2 DEF Owns, Wanted
  <2>5. CASE p = Wanted(s)
    <3>1. ~Counts(s, p) /\ Counts(s, p)'
      BY <1>t, <2>1, <2>2, <2>5 DEF Counts, Wanted
    <3>2. Cardinality(Counters(p)') = Cardinality(Counters(p)) + 1
      BY Zenon, <2>3, <3>1, CounterMoves
    <3>3. in_use'[p] = in_use[p] + 1
      BY Zenon, <1>4, <2>5 DEF Count, TypeOK
    <3>4. Owners(p)' = Owners(p)
      BY Zenon, <2>3, <2>4 DEF Owners
    <3> QED
      BY Zenon, <1>0, <1>n, <2>2, <3>2, <3>3, <3>4 DEF Balanced
  <2>6. CASE p # Wanted(s)
    <3>1. Counts(s, p)' <=> Counts(s, p)
      BY SMTT(40), <2>1, <2>2, <2>6 DEF Counts, Wanted
    <3>2. in_use'[p] = in_use[p]
      BY Zenon, <1>4, <2>6 DEF Count, TypeOK
    <3> QED
      BY Zenon, <1>0, <2>2, <2>3, <2>4, <3>1, <3>2, NothingMoves
  <2> QED
    BY Zenon, <2>5, <2>6
<1>5. ASSUME NEW s \in Sessions, Uncount(s) PROVE Balanced(p)'
  <2>1. held[s] \in {1, 2} /\ pc[s] = "uncount" /\ pc'[s] = "release"
    BY Zenon, <1>5 DEF Uncount, TypeOK, HeldMatchesStep
  <2>2. /\ Pool(s, 1)' = Pool(s, 1) /\ Pool(s, 2)' = Pool(s, 2)
        /\ held' = held /\ permits' = permits
    BY Zenon, <1>5 DEF Uncount, Pool
  <2>3. \A x \in Sessions \ {s} : /\ Owns(x, p)' <=> Owns(x, p)
                                  /\ Counts(x, p)' <=> Counts(x, p)
    BY Zenon, <1>5 DEF Uncount, TypeOK, Owns, Counts, Pool, Wanted
  <2>4. Owns(s, p)' <=> Owns(s, p)
    BY Zenon, <2>1, <2>2 DEF Owns
  <2>5. CASE p = Pool(s, held[s])
    <3>1. Counts(s, p) /\ ~Counts(s, p)'
      BY <1>t, <2>1, <2>2, <2>5 DEF Counts
    <3>2. Cardinality(Counters(p)') = Cardinality(Counters(p)) - 1
      BY Zenon, <2>3, <3>1, CounterMoves
    <3>3. in_use'[p] = in_use[p] - 1
      BY Zenon, <1>5, <2>5 DEF Uncount, TypeOK
    <3>4. Owners(p)' = Owners(p)
      BY Zenon, <2>3, <2>4 DEF Owners
    <3> QED
      BY ZenonT(40), <1>0, <1>n, <2>2, <3>2, <3>3, <3>4 DEF Balanced
  <2>6. CASE p # Pool(s, held[s])
    <3>1. Counts(s, p)' <=> Counts(s, p)
      BY Zenon, <2>1, <2>2, <2>6 DEF Counts
    <3>2. in_use'[p] = in_use[p]
      BY Zenon, <1>5, <2>6 DEF Uncount, TypeOK
    <3> QED
      BY Zenon, <1>0, <2>2, <2>3, <2>4, <3>1, <3>2, NothingMoves
  <2> QED
    BY Zenon, <2>5, <2>6
\* A permit of q comes back from s, which owned it and now does not, while
\* its other pool and all counters stay; a waiter may receive it.
<1>6. ASSUME NEW s \in Sessions, NEW q \in Pools, NEW step,
             pc[s] # "wait", GiveBack(q, s, step), in_use' = in_use,
             gen' = gen, \A x \in Sessions \ {s} : held'[x] = held[x],
             Owns(s, q), ~Owns(s, q)',
             q # p => (Owns(s, p)' <=> Owns(s, p)),
             Counts(s, p)' <=> Counts(s, p)
      PROVE  Balanced(p)'
  <2>1. \A x \in Sessions \ {s} :
           \/ pc'[x] = pc[x]
           \/ /\ pc[x] = "wait" /\ pc'[x] = "granted"
              /\ Wanted(x) = q /\ Bounded(q)
    BY Zenon, <1>6 DEF GiveBack, First, Waiters, TypeOK
  <2>2. \A x \in Sessions : Counts(x, p)' <=> Counts(x, p)
    BY <1>6, <2>1 DEF Counts, Pool
  <2>3. Counters(p)' = Counters(p)
    BY Zenon, <2>2 DEF Counters
  <2>4. CASE q # p
    <3>a. \A x \in Sessions \ {s} : Owns(x, p)' <=> Owns(x, p)
      <4> SUFFICES ASSUME NEW x \in Sessions \ {s} PROVE Owns(x, p)' <=> Owns(x, p)
        BY Zenon
      <4>1. held'[x] = held[x] /\ gen' = gen
        BY Zenon, <1>6
      <4>2. CASE pc'[x] = pc[x]
        BY Zenon, <4>1, <4>2 DEF Owns, Pool, Wanted
      <4>3. CASE pc[x] = "wait" /\ pc'[x] = "granted" /\ Wanted(x) = q
        BY Zenon, <2>4, <4>1, <4>3 DEF Owns, Pool, Wanted
      <4> QED
        BY Zenon, <2>1, <4>2, <4>3
    <3>1. \A x \in Sessions : Owns(x, p)' <=> Owns(x, p)
      BY Zenon, <1>6, <2>4, <3>a
    <3>2. permits'[p] = permits[p]
      BY Zenon, <1>6, <2>4 DEF GiveBack, TypeOK
    <3> QED
      BY Zenon, <1>0, <1>6, <2>2, <3>1, <3>2, NothingMoves
  <2>5. CASE q = p /\ ~Bounded(p)
    BY Zenon, <1>0, <1>6, <2>3, <2>5 DEF Balanced
  <2>6. CASE q = p /\ Bounded(p) /\ Waiters(p) = {}
    <3>1. permits'[p] = permits[p] + 1 /\ pc' = [pc EXCEPT ![s] = step]
      BY Zenon, <1>6, <2>6 DEF GiveBack, First, TypeOK
    <3>2. \A x \in Sessions \ {s} : Owns(x, p)' <=> Owns(x, p)
      <4> SUFFICES ASSUME NEW x \in Sessions \ {s} PROVE Owns(x, p)' <=> Owns(x, p)
        BY Zenon
      <4>1. pc'[x] = pc[x] /\ held'[x] = held[x] /\ gen' = gen
        BY Zenon, <1>6, <3>1 DEF TypeOK
      <4> QED
        BY Zenon, <4>1 DEF Owns, Pool, Wanted
    <3>3. Cardinality(Owners(p)') = Cardinality(Owners(p)) - 1
      BY Zenon, <1>6, <2>6, <3>2, OwnerLeaves
    <3> QED
      BY SMTT(40), <1>0, <1>6, <1>n, <2>3, <3>1, <3>3 DEF Balanced
  <2>7. CASE q = p /\ Bounded(p) /\ Waiters(p) # {}
    <3>1. PICK w \in First(p) :
             /\ pc' = [pc EXCEPT ![s] = step, ![w] = "granted"]
             /\ permits' = permits
      BY Zenon, <1>6, <2>7 DEF GiveBack
    <3>2. w \in Sessions /\ pc[w] = "wait" /\ Wanted(w) = p /\ w # s
      BY Zenon, <1>6, <3>1 DEF First, Waiters
    <3>a. \A x \in Sessions \ {s, w} : pc'[x] = pc[x] /\ held'[x] = held[x]
      BY Zenon, <1>6, <3>1 DEF TypeOK
    <3>3. \A x \in Sessions \ {s, w} : Owns(x, p)' <=> Owns(x, p)
      <4> SUFFICES ASSUME NEW x \in Sessions \ {s, w} PROVE Owns(x, p)' <=> Owns(x, p)
        BY Zenon
      <4>1. pc'[x] = pc[x] /\ held'[x] = held[x] /\ gen' = gen
        BY Zenon, <1>6, <3>a
      <4> QED
        BY Zenon, <4>1 DEF Owns, Pool, Wanted
    <3>4. held[w] \in {0, 1} /\ pc'[w] = "granted" /\ held'[w] = held[w]
      BY Zenon, <1>6, <3>1, <3>2 DEF TypeOK, HeldMatchesStep
    <3>5. Wanted(w)' = Wanted(w)
      BY Zenon, <1>6, <3>4 DEF Wanted, Pool
    <3>6. ~Owns(w, p) /\ Owns(w, p)'
      BY SMTT(40), <1>t, <3>2, <3>4, <3>5 DEF Owns, Wanted
    <3>7. Cardinality(Owners(p)') = Cardinality(Owners(p))
      BY Zenon, <1>6, <2>7, <3>2, <3>3, <3>6, OwnerChanges
    <3> QED
      BY Zenon, <1>0, <1>6, <2>3, <3>1, <3>7 DEF Balanced
  <2> QED
    BY Zenon, <2>4, <2>5, <2>6, <2>7
<1>7. ASSUME NEW s \in Sessions, Release(s) PROVE Balanced(p)'
  <2>0. held[s] \in {1, 2}
    BY Zenon, <1>7 DEF Release, TypeOK, HeldMatchesStep
  <2>q. PICK q \in Pools : q = Pool(s, held[s])
    BY Zenon, <1>t, <2>0
  <2>s. PICK step \in SessionSteps :
           step = IF held[s] = 1 THEN "idle" ELSE "uncount"
    BY Zenon DEF SessionSteps
  <2>1. /\ held[s] \in {1, 2} /\ pc[s] = "release"
        /\ held'[s] = held[s] - 1
        /\ \A x \in Sessions \ {s} : held'[x] = held[x]
    BY Zenon, <1>7, <1>t DEF Release, TypeOK, HeldMatchesStep
  <2>2. GiveBack(q, s, step) /\ in_use' = in_use /\ gen' = gen
    BY Zenon, <1>7, <2>q, <2>s DEF Release
  <2>3. pc'[s] = step
    BY Zenon, <2>1, <2>2 DEF GiveBack, First, Waiters, TypeOK
  <2>4. Pool(s, 1)' = Pool(s, 1) /\ Pool(s, 2)' = Pool(s, 2)
    BY Zenon, <2>2 DEF Pool
  <2>5. Owns(s, q) /\ ~Owns(s, q)'
    BY SMTT(40), <1>t, <2>q, <2>s, <2>1, <2>3, <2>4 DEF Owns
  <2>6. q # p => (Owns(s, p)' <=> Owns(s, p))
    BY SMTT(40), <2>q, <2>s, <2>1, <2>3, <2>4 DEF Owns
  <2>7. Counts(s, p)' <=> Counts(s, p)
    BY SMTT(40), <2>q, <2>s, <2>1, <2>3, <2>4 DEF Counts
  <2> QED
    BY Zenon, <1>6, <2>1, <2>2, <2>5, <2>6, <2>7
<1>8. ASSUME NEW s \in Sessions, CancelGranted(s) PROVE Balanced(p)'
  <2>1. held[s] \in {0, 1} /\ pc[s] = "granted" /\ held' = held
    BY Zenon, <1>8 DEF CancelGranted, TypeOK, HeldMatchesStep
  <2>q. PICK q \in Pools : q = Wanted(s)
    BY <1>t, <2>1 DEF Wanted
  <2>s. PICK step \in SessionSteps : step = Unwind(s)
    BY Zenon DEF Unwind, SessionSteps
  <2>2. GiveBack(q, s, step) /\ in_use' = in_use /\ gen' = gen
    BY Zenon, <1>8, <2>q, <2>s DEF CancelGranted
  <2>3. pc'[s] = step
    BY Zenon, <2>1, <2>2 DEF GiveBack, First, Waiters, TypeOK
  <2>4. Pool(s, 1)' = Pool(s, 1) /\ Pool(s, 2)' = Pool(s, 2)
    BY Zenon, <2>2 DEF Pool
  <2>5. Owns(s, q) /\ ~Owns(s, q)'
    BY SMTT(40), <1>t, <2>1, <2>q, <2>s, <2>3, <2>4 DEF Owns, Wanted, Unwind
  <2>6. q # p => (Owns(s, p)' <=> Owns(s, p))
    BY Zenon, <2>1, <2>q, <2>s, <2>3, <2>4 DEF Owns, Unwind
  <2>7. Counts(s, p)' <=> Counts(s, p)
    BY Zenon, <2>1, <2>q, <2>s, <2>3, <2>4 DEF Counts, Unwind
  <2> QED
    BY Zenon, <1>6, <2>1, <2>2, <2>5, <2>6, <2>7
<1>9. ASSUME ReplaceBegin \/ AdminStep \/ UNCHANGED vars PROVE Balanced(p)'
  <2>1. UNCHANGED <<permits, in_use, pc, held, gen>>
    BY Zenon, <1>9 DEF ReplaceBegin, AdminStep, DrainGlobal, DrainTorrents,
       DrainTimesOut, Install, Reconstruct, Commit, ReplaceFails, Rollback,
       vars, poolVars, sessionVars
  <2> QED
    BY Zenon, <1>0, <2>1, NothingMoves DEF Owns, Counts, Pool, Wanted
<1> QED
  BY Zenon, <1>1, <1>2, <1>3, <1>4, <1>5, <1>7, <1>8, <1>9
     DEF Next, SessionStep, Cancel

\* At the start every permit is free and nobody is counted.
LEMMA PermitsStart == Init => TypeOK /\ Accounted
<1>1. Init => TypeOK
  <2> SUFFICES ASSUME Init PROVE TypeOK
    BY Zenon
  <2>1. permits \in [Pools -> Nat] /\ in_use \in [Pools -> Nat]
    BY Zenon, LimitIsNat DEF Init
  <2>2. 1 \in Generations
    BY PermitAssumption DEF Generations
  <2> QED
    BY <2>1, <2>2 DEF Init, TypeOK, HeldMatchesStep, SessionSteps, AdminSteps
<1>2. Init => Accounted
  <2> SUFFICES ASSUME Init, NEW p \in Pools PROVE Balanced(p)
    BY Zenon DEF Accounted, Balanced
  <2>1. Owners(p) = {} /\ Counters(p) = {}
    BY DEF Init, Owners, Owns, Counters, Counts
  <2>2. Cardinality(Owners(p)) = 0 /\ Cardinality(Counters(p)) = 0
    BY Zenon, <2>1, FS_EmptySet
  <2> QED
    BY SMTT(40), <2>2, LimitIsNat DEF Init, Balanced
<1> QED
  BY Zenon, <1>1, <1>2

\* No permit is lost or invented: free and owned permits make up every limit,
\* and in_use counts the sessions between their two counter updates.
THEOREM PermitsAccounted == Spec => [](TypeOK /\ Accounted)
<1>1. Init => TypeOK /\ Accounted
  BY Zenon, PermitsStart
<1>2. TypeOK /\ Accounted /\ [Next]_vars => (TypeOK /\ Accounted)'
  BY Zenon, TypeStep, AccountedStep
<1> QED
  BY <1>1, <1>2, PTL DEF Spec

-----------------------------------------------------------------------------
(* CandidateAfterDrain.  The drain reads the process-wide counter and then  *)
(* the others, so when it ends the first reading is old: what has held      *)
(* since is that every session counted there later was late.  It also needs *)
(* the order of a replacement: nobody holds the old configuration between   *)
(* its drain and the next replacement.                                      *)

Draining == {"drain_global", "drain_torrents", "install"}

ReplacementOrder ==
  /\ installed <= candidate /\ previous <= candidate
  /\ admin = "idle" => owner = installed
  /\ admin \in Draining => owner = 0 /\ installed = previous /\ previous < candidate
  /\ admin = "reconstruct" => owner = 0 /\ installed = candidate /\ previous < candidate
  /\ admin = "verify" => owner = candidate /\ installed = candidate /\ previous < candidate
  /\ admin = "rollback" => owner = 0 \/ (owner = installed /\ installed # previous)
  /\ admin = "restore" => owner = 0 /\ installed = previous

GlobalDrained ==
  admin = "drain_torrents" =>
    \A s \in Sessions :
      gen[s] = previous /\ Counts(s, <<previous, Global>>) => late[s]

DrainInv == ReplacementOrder /\ GlobalDrained /\ CandidateAfterDrain

LEMMA SessionsLeaveAdmin ==
  ASSUME NEW s \in Sessions, Begin(s) \/ SessionStep(s) \/ Cancel(s)
  PROVE  UNCHANGED adminVars
  BY Zenon DEF Begin, SessionStep, Cancel, Acquire, Enqueue, Denied, Poll, Count,
     CancelWait, End, Uncount, Release, CancelGranted

LEMMA OrderStep == TypeOK /\ ReplacementOrder /\ [Next]_vars => ReplacementOrder'
<1> SUFFICES ASSUME TypeOK, ReplacementOrder, [Next]_vars PROVE ReplacementOrder'
  BY Zenon
<1>0. /\ installed \in Nat \ {0} /\ previous \in Nat \ {0} /\ candidate \in Nat \ {0}
      /\ owner \in Nat
  BY SMTT(40), PermitAssumption DEF TypeOK, Generations
<1>1. ASSUME UNCHANGED adminVars PROVE ReplacementOrder'
  BY Zenon, <1>1 DEF adminVars, ReplacementOrder, Draining
<1>2. CASE ReplaceBegin \/ AdminStep
  <2> USE DEF ReplacementOrder, Draining
  <2>1. CASE ReplaceBegin
    BY SMTT(40), <1>0, <2>1 DEF ReplaceBegin
  <2>2. CASE DrainGlobal \/ DrainTorrents \/ DrainTimesOut
    BY Zenon, <2>2 DEF DrainGlobal, DrainTorrents, DrainTimesOut
  <2>3. CASE Install \/ Reconstruct
    BY SMTT(40), <1>0, <2>3 DEF Install, Reconstruct
  <2>4. CASE Commit \/ ReplaceFails
    BY SMTT(40), <1>0, <2>4 DEF Commit, ReplaceFails
  <2>5. CASE Rollback
    BY Zenon, <1>0, <2>5 DEF Rollback
  <2> QED
    BY Zenon, <1>2, <2>1, <2>2, <2>3, <2>4, <2>5 DEF AdminStep
<1> QED
  BY Zenon, <1>1, <1>2, SessionsLeaveAdmin DEF Next, vars

\* A session counted after a step of some session was counted before it, or
\* counted in this step: then it is late unless its owner still runs.
LEMMA CountedBefore ==
  ASSUME TypeOK, NEW x \in Sessions, Begin(x) \/ SessionStep(x) \/ Cancel(x),
         NEW s \in Sessions, NEW p \in Pools, Counts(s, p)'
  PROVE  /\ gen'[s] = gen[s]
         /\ (Counts(s, p) /\ late'[s] = late[s]) \/ late'[s] \/ gen[s] = owner
<1> USE DEF poolVars, adminVars
<1>1. CASE Begin(x)
  <2>1. s # x
    BY SMTT(40), <1>1 DEF Begin, TypeOK, HeldMatchesStep, Counts
  <2>2. pc'[s] = pc[s] /\ held'[s] = held[s] /\ gen'[s] = gen[s]
    BY Zenon, <1>1, <2>1 DEF Begin, TypeOK
  <2>3. late'[s] = late[s]
    BY Zenon, <1>1, <2>1 DEF Begin, TypeOK
  <2> QED
    BY Zenon, <2>2, <2>3 DEF Counts, Pool
<1>2. CASE Acquire(x) \/ Enqueue(x) \/ Denied(x) \/ Poll(x) \/ CancelWait(x) \/ End(x)
  <2>1. UNCHANGED <<held, gen, late>>
    BY Zenon, <1>2 DEF Acquire, Enqueue, Denied, Poll, CancelWait, End
  <2>2. pc[s] = "release" => pc'[s] = "release"
    BY Zenon, <1>2 DEF Acquire, Enqueue, Denied, Poll, CancelWait, End, TypeOK
  <2> QED
    BY Zenon, <2>1, <2>2 DEF Counts, Pool
<1>3. CASE Count(x)
  <2>1. gen' = gen
    BY Zenon, <1>3 DEF Count
  <2>2. CASE s = x
    <3>1. late'[s] <=> (late[s] \/ gen[s] # owner)
      BY <1>3, <2>2, ZenonT(40) DEF Count, TypeOK
    <3> QED
      BY Zenon, <2>1, <3>1
  <2>3. CASE s # x
    <3>1. held'[s] = held[s] /\ pc'[s] = pc[s]
      BY Zenon, <1>3, <2>3 DEF Count, TypeOK
    <3>2. late'[s] = late[s]
      BY <1>3, <2>3, Zenon DEF Count, TypeOK
    <3> QED
      BY Zenon, <2>1, <3>1, <3>2 DEF Counts, Pool
  <2> QED
    BY Zenon, <2>2, <2>3
<1>4. CASE Uncount(x)
  BY Zenon, <1>4 DEF Uncount, TypeOK, HeldMatchesStep, Counts, Pool
<1>5. CASE Release(x)
  <2>1. gen' = gen /\ late' = late
    BY Zenon, <1>5 DEF Release
  <2>2. CASE s = x
    <3>1. held[s] \in {1, 2} /\ pc[s] = "release" /\ held'[s] = held[s] - 1
      BY Zenon, <1>5, <2>2 DEF Release, TypeOK, HeldMatchesStep
    <3>2. held[s] = 2
      BY SMTT(40), <3>1 DEF Counts
    <3> QED
      BY SMTT(40), <2>1, <3>1, <3>2 DEF Counts, Pool
  <2>3. CASE s # x
    <3>1. held'[s] = held[s] /\ (pc[s] = "release" => pc'[s] = "release")
      BY Zenon, <1>5, <2>3 DEF Release, GiveBack, First, Waiters, TypeOK
    <3> QED
      BY Zenon, <2>1, <3>1 DEF Counts, Pool
  <2> QED
    BY Zenon, <2>2, <2>3
<1>6. CASE CancelGranted(x)
  <2>1. UNCHANGED <<held, gen, late>>
    BY Zenon, <1>6 DEF CancelGranted
  <2>2. pc[s] = "release" => pc'[s] = "release"
    BY Zenon, <1>6 DEF CancelGranted, GiveBack, First, Waiters, TypeOK
  <2> QED
    BY Zenon, <2>1, <2>2 DEF Counts, Pool
<1> QED
  BY Zenon, <1>1, <1>2, <1>3, <1>4, <1>5, <1>6 DEF SessionStep, Cancel

\* A pool whose counter reads zero counts nobody.
LEMMA NobodyCounted ==
  ASSUME Accounted, NEW p \in Pools, in_use[p] = 0, NEW s \in Sessions
  PROVE  ~Counts(s, p)
<1>1. Counters(p) = {}
  BY Zenon, OwnersFinite, FS_EmptySet DEF Accounted
<1> QED
  BY Zenon, <1>1 DEF Counters

LEMMA DrainStep == TypeOK /\ Accounted /\ DrainInv /\ [Next]_vars => DrainInv'
<1> SUFFICES ASSUME TypeOK, Accounted, DrainInv, [Next]_vars PROVE DrainInv'
  BY Zenon
<1>o. ReplacementOrder' /\ ReplacementOrder
  BY Zenon, OrderStep DEF DrainInv
<1>g. /\ installed \in Generations /\ previous \in Generations /\ candidate \in Generations
      /\ \A s \in Sessions : gen[s] \in Generations /\ gen[s] # 0
  BY PermitAssumption DEF TypeOK, Generations
<1>1. ASSUME NEW x \in Sessions, Begin(x) \/ SessionStep(x) \/ Cancel(x)
      PROVE  GlobalDrained' /\ CandidateAfterDrain'
  <2>1. UNCHANGED <<installed, owner, previous, candidate, admin>>
    BY Zenon, <1>1, SessionsLeaveAdmin DEF adminVars
  <2>2. GlobalDrained'
    <3>q. PICK q \in Pools : q = <<previous, Global>>
      BY Zenon, <1>g DEF Pools
    <3> SUFFICES ASSUME admin = "drain_torrents", NEW s \in Sessions, gen'[s] = previous,
                        Counts(s, q)'
                 PROVE  late'[s]
      BY Zenon, <2>1, <3>q DEF GlobalDrained, Counts
    <3>1. owner = 0
      BY Zenon, <1>o DEF ReplacementOrder, Draining
    <3>2. /\ gen[s] = previous /\ gen[s] # owner
          /\ (Counts(s, q) /\ late'[s] = late[s]) \/ late'[s]
      BY Zenon, <1>1, <1>g, <3>1, CountedBefore
    <3>3. Counts(s, q) => late[s]
      BY Zenon, <3>2, <3>q DEF DrainInv, GlobalDrained
    <3> QED
      BY Zenon, <3>2, <3>3
  <2>3. CandidateAfterDrain'
    <3> SUFFICES ASSUME admin \in {"install", "reconstruct", "verify"} \/ installed # previous,
                        NEW s \in Sessions, gen'[s] = previous,
                        NEW p \in Pools, Counts(s, p)'
                 PROVE  late'[s]
      BY Zenon, <2>1 DEF CandidateAfterDrain
    <3>1. owner # previous
      BY SMTT(40), <1>o, <1>g DEF ReplacementOrder, Draining, Generations, TypeOK, AdminSteps
    <3> QED
      BY Zenon, <1>1, <3>1, CountedBefore DEF DrainInv, CandidateAfterDrain
  <2> QED
    BY Zenon, <2>2, <2>3
<1>2. ASSUME UNCHANGED <<poolVars, sessionVars>>
      PROVE  /\ \A s \in Sessions, p \in Pools : Counts(s, p)' <=> Counts(s, p)
             /\ gen' = gen /\ late' = late
  BY Zenon, <1>2 DEF poolVars, sessionVars, Counts, Pool
<1>3. CASE DrainGlobal
  <2>1. <<previous, Global>> \in Pools
    BY Zenon, <1>g DEF Pools
  <2>2. \A s \in Sessions : ~Counts(s, <<previous, Global>>)
    BY Zenon, <1>3, <2>1, NobodyCounted DEF DrainGlobal
  <2>3. GlobalDrained'
    BY Zenon, <1>3, <2>2 DEF DrainGlobal, GlobalDrained, sessionVars, Counts, Pool
  <2>4. CandidateAfterDrain'
    BY Zenon, <1>3, <1>o DEF DrainGlobal, CandidateAfterDrain, ReplacementOrder, Draining
  <2> QED
    BY Zenon, <1>o, <2>3, <2>4 DEF DrainInv
<1>4. CASE DrainTorrents
  <2>1. GlobalDrained'
    BY Zenon, <1>4 DEF DrainTorrents, GlobalDrained
  <2>2. ASSUME admin' = "install" PROVE CandidateAfterDrain'
    <3>1. \A t \in Torrents : in_use[<<previous, t>>] = 0
      BY Zenon, <1>4, <2>2 DEF DrainTorrents
    <3>2. ASSUME NEW s \in Sessions, gen[s] = previous, NEW p \in Pools, Counts(s, p)
          PROVE  late[s]
      <4>1. p = <<previous, Global>> \/ p = <<previous, TorrentOf[s]>>
        BY Zenon, <3>2 DEF Counts, Pool
      <4>2. <<previous, TorrentOf[s]>> \in Pools /\ in_use[<<previous, TorrentOf[s]>>] = 0
        BY Zenon, <1>g, <3>1, PermitAssumption DEF Pools
      <4>3. p # <<previous, TorrentOf[s]>>
        BY Zenon, <3>2, <4>2, NobodyCounted
      <4> QED
        BY Zenon, <1>4, <3>2, <4>1, <4>3 DEF DrainTorrents, DrainInv, GlobalDrained
    <3> QED
      BY Zenon, <1>2, <1>4, <3>2 DEF DrainTorrents, CandidateAfterDrain
  <2>3. ASSUME admin' # "install" PROVE CandidateAfterDrain'
    BY Zenon, <1>4, <1>o, <2>3 DEF DrainTorrents, CandidateAfterDrain, ReplacementOrder, Draining
  <2> QED
    BY Zenon, <1>o, <2>1, <2>2, <2>3 DEF DrainInv
<1>5. CASE ReplaceBegin \/ DrainTimesOut \/ Rollback
  <2>1. GlobalDrained'
    BY Zenon, <1>5 DEF ReplaceBegin, DrainTimesOut, Rollback, GlobalDrained
  <2>2. CandidateAfterDrain'
    BY Zenon, <1>5, <1>o DEF ReplaceBegin, DrainTimesOut, Rollback, CandidateAfterDrain,
       ReplacementOrder, Draining
  <2> QED
    BY Zenon, <1>o, <2>1, <2>2 DEF DrainInv
<1>6. CASE Install \/ Reconstruct \/ Commit \/ ReplaceFails
  <2>1. GlobalDrained'
    BY Zenon, <1>6 DEF Install, Reconstruct, Commit, ReplaceFails, GlobalDrained
  <2>2. UNCHANGED <<poolVars, sessionVars>> /\ previous' = previous
    BY Zenon, <1>6 DEF Install, Reconstruct, Commit, ReplaceFails
  <2>3. (admin \in {"install", "reconstruct", "verify"} \/ installed # previous)
          \/ ~(admin' \in {"install", "reconstruct", "verify"} \/ installed' # previous')
    BY Zenon, <1>6, <1>o DEF Install, Reconstruct, Commit, ReplaceFails, ReplacementOrder, Draining
  <2>4. CandidateAfterDrain'
    BY Zenon, <1>2, <2>2, <2>3 DEF CandidateAfterDrain, DrainInv
  <2> QED
    BY Zenon, <1>o, <2>1, <2>4 DEF DrainInv
<1>7. CASE UNCHANGED vars
  <2>1. UNCHANGED <<installed, owner, previous, candidate, admin>> /\ UNCHANGED <<poolVars, sessionVars>>
    BY Zenon, <1>7 DEF vars, adminVars
  <2> QED
    BY Zenon, <1>o, <2>1 DEF DrainInv, GlobalDrained, CandidateAfterDrain, sessionVars, Counts, Pool
<1> QED
  BY Zenon, <1>1, <1>3, <1>4, <1>5, <1>6, <1>7, <1>o DEF Next, AdminStep, DrainInv

LEMMA DrainStarts == Init => DrainInv
  BY DEF Init, DrainInv, ReplacementOrder, GlobalDrained, CandidateAfterDrain, Draining

\* The sessions open on a pool, inbound and outbound, never exceed its limit,
\* and neither does the observed counter; and once the drain of replaced pools
\* has passed, no session counted before its owner was stopped is left in them,
\* whatever was counted or cancelled while the counters were read.
THEOREM LimitsAlwaysHold == Spec => []LimitsHold
<1>1. TypeOK /\ Accounted => WithinLimits
  <2> SUFFICES ASSUME TypeOK, Accounted, NEW p \in Pools, Bounded(p)
               PROVE  /\ Cardinality({s \in Sessions : pc[s] = "open" /\ p \in {Pool(s, 1), Pool(s, 2)}})
                           <= Limit(p)
                      /\ in_use[p] <= Limit(p)
    BY Zenon DEF WithinLimits
  <2> DEFINE O == {s \in Sessions : pc[s] = "open" /\ p \in {Pool(s, 1), Pool(s, 2)}}
  <2>1. O \subseteq Owners(p)
    BY SMTT(40) DEF Owners, Owns, TypeOK, HeldMatchesStep
  <2>2. Counters(p) \subseteq Owners(p)
    BY Zenon DEF Owners, Owns, Counters, Counts
  <2>3. /\ Cardinality(O) <= Cardinality(Owners(p))
        /\ Cardinality(O) \in Nat
        /\ Cardinality(Counters(p)) <= Cardinality(Owners(p))
    BY Zenon, <2>1, <2>2, OwnersFinite, FS_Subset, FS_CardinalityType
  <2>4. permits[p] + Cardinality(Owners(p)) = Limit(p) /\ permits[p] \in Nat
    BY Zenon DEF Accounted, TypeOK
  <2> QED
    BY SMTT(40), <2>3, <2>4, LimitIsNat, OwnersFinite DEF Accounted
<1>2. DrainInv => CandidateAfterDrain
  BY Zenon DEF DrainInv
<1> QED
  BY <1>1, <1>2, DrainStarts, DrainStep, PermitsAccounted, PTL DEF Spec, LimitsHold
=============================================================================
