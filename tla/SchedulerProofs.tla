--------------------------- MODULE SchedulerProofs ---------------------------
(***************************************************************************)
(* The caches of the queue are exact and its plan is the best one, for any *)
(* number of torrents, callers and events, any priorities and any limits.  *)
(*                                                                         *)
(* A step of Scheduler composes methods of QueueState, each of which keeps *)
(* the caches exact (QueueStateProofs).  A failed addition also uses       *)
(* positions it remembered many steps ago, which is why the invariant has  *)
(* a conjunct on the snapshots.  On an exact queue the scan of             *)
(* desired_download_hashes gives each pool its best-ranked torrents.       *)
(***************************************************************************)
EXTENDS Scheduler, QueueStateProofs

-----------------------------------------------------------------------------
(*****************************************************************************)
(* The ranks of the members of a queue.                                      *)
(*****************************************************************************)

\* The members of an exact queue have one rank each.
LEMMA RanksOrder ==
  ASSUME NEW q, Queue(q, Torrents), NEW B \in SUBSET (q.order_set \cup q.bypass_set), NEW R,
         \A a, b \in B : <<a, b>> \in R <=> Outranks(q, a, b)
  PROVE  Orders(R, B)
<1>1. /\ q.order \in Seq(Torrents) /\ q.bypass \in Seq(Torrents)
      /\ IsInjective(q.order) /\ IsInjective(q.bypass)
      /\ q.order_set = Range(q.order) /\ q.bypass_set = Range(q.bypass)
      /\ q.order_index = Positions(q.order)
  BY Zenon DEF Queue, Exact
<1> DEFINE bs == q.bypass_set
           bp == Positions(q.bypass)
           ix == Positions(q.order)
<1>2. \A a \in bs : bp[a] \in Nat /\ \A b \in bs : bp[a] = bp[b] => a = b
  <2>1. \A a \in bs : bp[a] \in Nat /\ q.bypass[bp[a]] = a
    BY Zenon, <1>1, PlaceOf
  <2> QED BY Zenon, <2>1
<1>3. \A a \in q.order_set : /\ ix[a] \in Nat /\ Priority[a] \in Nat
                             /\ \A b \in q.order_set : ix[a] = ix[b] => a = b
  <2>1. \A a \in q.order_set : ix[a] \in Nat /\ q.order[ix[a]] = a
    BY Zenon, <1>1, PlaceOf
  <2>2. \A a \in q.order_set : a \in Torrents
    BY <1>1 DEF Range
  <2> QED BY Zenon, <2>1, <2>2, SchedulerAssumption
<1>4. ASSUME NEW a \in bs, NEW b \in bs PROVE Outranks(q, a, b) <=> bp[a] < bp[b]
  <2>1. PICK i \in DOMAIN q.bypass : q.bypass[i] = a /\ bp[a] = i
    BY ZenonT(40), <1>1, PlaceOf
  <2>2. PICK j \in DOMAIN q.bypass : q.bypass[j] = b /\ bp[b] = j
    BY ZenonT(40), <1>1, PlaceOf
  <2>3. Outranks(q, a, b) <=> \E m, n \in DOMAIN q.bypass : m < n /\ q.bypass[m] = a /\ q.bypass[n] = b
    BY Zenon DEF Outranks
  <2> QED BY <1>1, <2>1, <2>2, <2>3 DEF IsInjective
<1>5. ASSUME NEW a, NEW b, a \notin bs \/ b \notin bs
      PROVE  Outranks(q, a, b) <=>
               a \in bs \/ (b \notin bs /\ IF Priority[a] # Priority[b] THEN Priority[a] > Priority[b]
                                          ELSE ix[a] < ix[b])
  BY Zenon, <1>1, <1>5 DEF Outranks, ByWeight
<1> HIDE DEF bs, bp, ix
<1>6. \A a \in B : a \in bs \/ a \in q.order_set
  BY Zenon DEF bs
<1>7. \A a, b \in B : a # b => <<a, b>> \in R \/ <<b, a>> \in R
  <2> SUFFICES ASSUME NEW a \in B, NEW b \in B, a # b PROVE <<a, b>> \in R \/ <<b, a>> \in R
    BY Zenon
  <2>1. CASE a \in bs /\ b \in bs
    BY <1>2, <1>4, <2>1
  <2>2. CASE a \notin bs \/ b \notin bs
    BY <1>3, <1>5, <1>6, <2>2
  <2> QED BY Zenon, <2>1, <2>2
<1>8. \A a \in B : <<a, a>> \notin R
  BY <1>2, <1>3, <1>4, <1>5, <1>6
<1>9. \A a, b, c \in B : <<a, b>> \in R /\ <<b, c>> \in R => <<a, c>> \in R
  <2> SUFFICES ASSUME NEW a \in B, NEW b \in B, NEW c \in B, Outranks(q, a, b), Outranks(q, b, c)
               PROVE  Outranks(q, a, c)
    BY Zenon
  <2>1. CASE c \in bs
    <3>1. b \in bs
      BY Zenon, <1>5, <2>1
    <3>2. a \in bs
      BY Zenon, <1>5, <3>1
    <3> QED BY <1>2, <1>4, <2>1, <3>1, <3>2
  <2>2. CASE c \notin bs /\ a \in bs
    BY Zenon, <1>5, <2>2
  <2>3. CASE c \notin bs /\ a \notin bs
    <3>1. b \notin bs
      BY Zenon, <1>5, <2>3
    <3> QED BY <1>3, <1>5, <1>6, <2>3, <3>1
  <2> QED BY Zenon, <2>1, <2>2, <2>3
<1> QED BY Zenon, <1>7, <1>8, <1>9 DEF Orders

\* So a choice of them can be listed by rank.
LEMMA ByRank ==
  ASSUME NEW q, Queue(q, Torrents), NEW B \in SUBSET (q.order_set \cup q.bypass_set)
  PROVE  LET s == InRank(q, B)
         IN  /\ s \in Listings(B) /\ IsFiniteSet(B) /\ s \in Seq(Torrents)
             /\ \A i, j \in DOMAIN s : i < j => Outranks(q, s[i], s[j])
<1> DEFINE R == {x \in B \X B : Outranks(q, x[1], x[2])}
<1>1. \A a, b \in B : <<a, b>> \in R <=> Outranks(q, a, b)
  BY Zenon
<1> HIDE DEF R
<1>2. Orders(R, B)
  BY Zenon, <1>1, RanksOrder
<1>3. B \subseteq Torrents /\ IsFiniteSet(B)
  <2>1. B \subseteq Torrents
    BY DEF Queue, Exact, Range
  <2> QED BY Zenon, <2>1, FS_Subset, SchedulerAssumption
<1>4. PICK s \in Listings(B) : \A i, j \in DOMAIN s : i < j => <<s[i], s[j]>> \in R
  BY Zenon, <1>2, <1>3, SortExists
<1>5. \A i \in DOMAIN s : s[i] \in B
  BY <1>3, Listing
<1>6. \A i, j \in DOMAIN s : i < j => Outranks(q, s[i], s[j])
  BY Zenon, <1>1, <1>4, <1>5
<1>7. PICK z : z = InRank(q, B)
  BY Zenon
<1>8. z \in Listings(B) /\ \A i, j \in DOMAIN z : i < j => Outranks(q, z[i], z[j])
  BY Zenon, <1>6, <1>7 DEF InRank, SortedSeq
<1>9. z \in Seq(Torrents)
  BY <1>3, <1>8, Listing
<1> QED BY Zenon, <1>3, <1>7, <1>8, <1>9

-----------------------------------------------------------------------------
(*****************************************************************************)
(* The scan: what it takes of the first n places of the ranking.             *)
(*****************************************************************************)

\* The pool of a torrent: those that share its limit.
Pool(t) == {u \in Torrents : needs_metadata[u] = needs_metadata[t]}

\* Of the first n places of a ranking, those that hold an eligible torrent
\* for the first time.
Firsts(ranked, eligible, n) ==
  {i \in 1 .. n : ranked[i] \in eligible /\ \A j \in 1 .. n : j < i => ranked[j] # ranked[i]}

\* Of these the ones in a pool.
Rivals(ranked, eligible, n, t) == {i \in Firsts(ranked, eligible, n) : ranked[i] \in Pool(t)}

\* Those that find room in their pool: what the scan takes.
Taken(ranked, eligible, n) ==
  {i \in Firsts(ranked, eligible, n) :
     ~Full(Limit(ranked[i]), Cardinality(Rivals(ranked, eligible, i - 1, ranked[i])))}

\* A longer part of the ranking has the same beginning.
LEMMA FirstsGrow ==
  ASSUME NEW T, NEW L \in Seq(T), NEW e, NEW n \in 0 .. Len(L), NEW i \in 1 .. n
  PROVE  /\ i \in Firsts(L, e, n) <=> L[i] \in e /\ \A j \in 1 .. Len(L) : j < i => L[j] # L[i]
         /\ Firsts(L, e, i - 1) = {j \in Firsts(L, e, n) : j < i}
<1>1. Len(L) \in Nat /\ n \in Nat /\ i \in Nat
  OBVIOUS
<1>2. ASSUME NEW m \in 0 .. Len(L), NEW h \in 1 .. m
      PROVE  h \in Firsts(L, e, m) <=> L[h] \in e /\ \A j \in 1 .. Len(L) : j < h => L[j] # L[h]
  BY <1>1 DEF Firsts
<1>3. ASSUME NEW m \in 0 .. Len(L), NEW h \in Firsts(L, e, m) PROVE h \in 1 .. m
  BY Zenon DEF Firsts
<1>4. i - 1 \in 0 .. Len(L)
  BY <1>1
<1>5. \A j \in Firsts(L, e, i - 1) : j \in Firsts(L, e, n) /\ j < i
  <2> SUFFICES ASSUME NEW j \in Firsts(L, e, i - 1) PROVE j \in Firsts(L, e, n) /\ j < i
    BY Zenon
  <2>1. j \in 1 .. i - 1
    BY Zenon, <1>3, <1>4
  <2>2. j \in 1 .. n /\ j < i
    BY <1>1, <2>1
  <2> QED BY Zenon, <1>2, <1>4, <2>1, <2>2
<1>6. \A j \in Firsts(L, e, n) : j < i => j \in Firsts(L, e, i - 1)
  <2> SUFFICES ASSUME NEW j \in Firsts(L, e, n), j < i PROVE j \in Firsts(L, e, i - 1)
    BY Zenon
  <2>1. j \in 1 .. n
    BY Zenon, <1>3
  <2>2. j \in 1 .. i - 1
    BY <1>1, <2>1
  <2> QED BY Zenon, <1>2, <1>4, <2>1, <2>2
<1> QED BY Zenon, <1>2, <1>5, <1>6

\* The limit of a pool.
LEMMA Limits ==
  ASSUME NEW t
  PROVE  /\ Limit(t) \in Nat
         /\ \A u \in Pool(t) : u \in Torrents /\ Limit(u) = Limit(t) /\ Pool(u) = Pool(t)
  BY Zenon, SchedulerAssumption DEF Limit, Pool

\* A pool is full of what the scan took exactly when it is full of what the
\* scan saw.
LEMMA FullOfTaken ==
  ASSUME NEW L \in Seq(Torrents), NEW e, NEW n \in 0 .. Len(L), NEW t
  PROVE  /\ IsFiniteSet(Rivals(L, e, n, t))
         /\ Full(Limit(t), Cardinality({i \in Taken(L, e, n) : L[i] \in Pool(t)}))
              <=> Full(Limit(t), Cardinality(Rivals(L, e, n, t)))
<1>0. PICK l \in Nat : l = Limit(t)
  BY Zenon, Limits
<1>1. PICK P : P = Rivals(L, e, n, t)
  BY Zenon
<1>2. P \in SUBSET (1 .. n) /\ P \subseteq Nat /\ IsFiniteSet(P)
  <2>1. P \in SUBSET (1 .. n)
    BY Zenon, <1>1 DEF Rivals, Firsts
  <2>2. n \in Nat
    OBVIOUS
  <2>3. IsFiniteSet(1 .. n) /\ 1 .. n \subseteq Nat
    BY <2>2, FS_Interval
  <2>4. IsFiniteSet(P)
    BY Zenon, <2>1, <2>3, FS_Subset
  <2> QED BY Zenon, <2>1, <2>3, <2>4
<1>3. PICK C : C = {i \in P : ~Full(l, Cardinality({j \in P : j < i}))}
  BY Zenon
<1>4. {i \in Taken(L, e, n) : L[i] \in Pool(t)} = C
  <2>1. ASSUME NEW i \in P
        PROVE  /\ Limit(L[i]) = l
               /\ Rivals(L, e, i - 1, L[i]) = {j \in P : j < i}
    <3>1. L[i] \in Pool(t) /\ i \in 1 .. n
      BY Zenon, <1>1, <1>2 DEF Rivals
    <3>2. Limit(L[i]) = l /\ Pool(L[i]) = Pool(t)
      BY Zenon, <1>0, <3>1, Limits
    <3>3. Firsts(L, e, i - 1) = {j \in Firsts(L, e, n) : j < i}
      BY ZenonT(40), <3>1, FirstsGrow
    <3> QED BY Zenon, <1>1, <3>2, <3>3 DEF Rivals
  <2>2. \A i : i \in Taken(L, e, n) /\ L[i] \in Pool(t)
               <=> i \in P /\ ~Full(Limit(L[i]), Cardinality(Rivals(L, e, i - 1, L[i])))
    BY Zenon, <1>1 DEF Taken, Rivals
  <2> QED BY <1>3, <2>1, <2>2
<1>5. C \in SUBSET P /\ IsFiniteSet(C) /\ Cardinality(C) \in Nat /\ Cardinality(P) \in Nat
      /\ Cardinality(C) <= Cardinality(P)
  <2>1. C \in SUBSET P
    BY Zenon, <1>3
  <2> QED BY Zenon, <1>2, <2>1, FS_Subset, FS_CardinalityType
<1>6. ASSUME l > 0, Cardinality(P) >= l PROVE Cardinality(C) >= l
  <2>1. \A i \in P : Cardinality({j \in P : j < i}) \in Nat
    <3> SUFFICES ASSUME NEW i \in P PROVE Cardinality({j \in P : j < i}) \in Nat
      BY Zenon
    <3>1. {j \in P : j < i} \in SUBSET P
      BY Zenon
    <3> QED BY Zenon, <1>2, <3>1, FS_Subset, FS_CardinalityType
  <2>2. C = {i \in P : Cardinality({j \in P : j < i}) < l}
    BY <1>3, <1>6, <2>1 DEF Full
  <2> QED BY Zenon, <1>2, <1>6, <2>2, FirstFew
<1>7. Full(l, Cardinality(C)) <=> Full(l, Cardinality(P))
  BY <1>5, <1>6 DEF Full
<1> QED BY Zenon, <1>0, <1>1, <1>2, <1>4, <1>7

\* One step of the scan.
LEMMA ScanStep ==
  ASSUME NEW L \in Seq(Torrents), NEW e, NEW n \in 1 .. Len(L)
  PROVE  Consider(e, Picked(L, Taken(L, e, n - 1)), L[n]) = Picked(L, Taken(L, e, n))
<1>0. n \in Nat /\ n - 1 \in 0 .. Len(L) /\ n \in 0 .. Len(L) /\ Len(L) \in Nat /\ n \in DOMAIN L
      /\ DOMAIN L = 1 .. Len(L)
  OBVIOUS
<1>1. PICK I : I = Taken(L, e, n - 1)
  BY Zenon
<1>2. PICK A : A = Picked(L, I)
  BY Zenon
<1>3. PICK t \in Torrents : t = L[n]
  OBVIOUS
<1>4. PICK l \in Nat : l = Limit(t)
  BY Zenon, Limits
<1>5. I \in SUBSET DOMAIN L /\ \A i \in I : i < n /\ i \in Firsts(L, e, n - 1)
  <2>1. ASSUME NEW i \in I PROVE i \in 1 .. n - 1 /\ i \in Firsts(L, e, n - 1)
    BY Zenon, <1>1 DEF Taken, Firsts
  <2>2. ASSUME NEW i \in I PROVE i < n /\ i \in 1 .. Len(L)
    BY <1>0, <2>1
  <2> QED BY Zenon, <1>0, <2>1, <2>2
<1>6. Range(A) = {L[i] : i \in I}
  BY Zenon, <1>2, <1>5, Picking
<1>7. PICK seen : seen = Cardinality(Rivals(L, e, n - 1, t))
  BY Zenon
<1>8. Full(l, Cardinality({i \in DOMAIN A : needs_metadata[A[i]] = needs_metadata[t]})) <=> Full(l, seen)
  <2>1. A \in Seq(Torrents)
    BY Zenon, <1>2, <1>5, Picking
  <2>2. {i \in DOMAIN A : needs_metadata[A[i]] = needs_metadata[t]} = {i \in DOMAIN A : A[i] \in Pool(t)}
    BY <2>1 DEF Pool
  <2>3. PICK M : M = Pool(t)
    BY Zenon
  <2>4. Cardinality({i \in DOMAIN A : A[i] \in M}) = Cardinality({i \in I : L[i] \in M})
    <3>1. Cardinality(Within(A, DOMAIN A, M)) = Cardinality(Within(L, I, M))
      BY Zenon, <1>2, <1>5, PickedCount
    <3> QED BY Zenon, <3>1 DEF Within
  <2>5. Full(l, Cardinality({i \in I : L[i] \in M})) <=> Full(l, seen)
    <3>1. PICK m \in 0 .. Len(L) : m = n - 1
      BY Zenon, <1>0
    <3>2. Full(Limit(t), Cardinality({i \in Taken(L, e, m) : L[i] \in Pool(t)}))
            <=> Full(Limit(t), Cardinality(Rivals(L, e, m, t)))
      BY Zenon, FullOfTaken
    <3> QED BY Zenon, <1>1, <1>4, <1>7, <2>3, <3>1, <3>2
  <2> QED BY Zenon, <2>2, <2>3, <2>4, <2>5
<1>9. Consider(e, A, t) = IF t \in Range(A) \/ t \notin e \/ Full(l, seen) THEN A ELSE Append(A, t)
  BY Zenon, <1>4, <1>8 DEF Consider
<1>10. \A i \in 1 .. n - 1 : i \in Taken(L, e, n) <=> i \in I
  <2> SUFFICES ASSUME NEW i \in 1 .. n - 1 PROVE i \in Taken(L, e, n) <=> i \in I
    BY Zenon
  <2>1. i \in 1 .. n
    BY <1>0
  <2>2. i \in Firsts(L, e, n) <=> i \in Firsts(L, e, n - 1)
    BY Zenon, <1>0, <2>1, FirstsGrow
  <2> QED BY Zenon, <1>1, <2>2 DEF Taken
<1>11. Taken(L, e, n) \subseteq 1 .. n /\ I \subseteq 1 .. n - 1 /\ 1 .. n = 1 .. n - 1 \cup {n}
  <2>1. 1 .. n = 1 .. n - 1 \cup {n}
    BY <1>0
  <2> QED BY Zenon, <1>1, <2>1 DEF Taken, Firsts
<1>12. n \in Firsts(L, e, n) <=> t \in e /\ \A j \in 1 .. n - 1 : L[j] # t
  BY <1>0, <1>3 DEF Firsts
<1>13. n \in Taken(L, e, n) <=> n \in Firsts(L, e, n) /\ ~Full(l, seen)
  BY Zenon, <1>3, <1>4, <1>7 DEF Taken
<1>14. CASE n \in Taken(L, e, n)
  <2>1. Taken(L, e, n) = I \cup {n}
    BY Zenon, <1>10, <1>11, <1>14
  <2>2. t \notin Range(A)
    BY Zenon, <1>6, <1>11, <1>12, <1>13, <1>14
  <2>3. Picked(L, I \cup {n}) = Append(A, t)
    BY Zenon, <1>0, <1>2, <1>3, <1>5, PickedGrown
  <2> QED BY Zenon, <1>1, <1>2, <1>3, <1>9, <1>12, <1>13, <1>14, <2>1, <2>2, <2>3
<1>15. CASE n \notin Taken(L, e, n)
  <2>1. Taken(L, e, n) = I
    <3>1. n \notin 1 .. n - 1
      BY <1>0
    <3> QED BY Zenon, <1>10, <1>11, <1>15, <3>1
  <2>2. ASSUME t \in e, ~Full(l, seen) PROVE t \in Range(A)
    <3> DEFINE D == {j \in 1 .. n - 1 : L[j] = t}
    <3>1. D # {} /\ D \subseteq Nat
      BY <1>12, <1>13, <1>15, <2>2
    <3>2. PICK j \in D : \A m \in D : j <= m
      BY Zenon, <3>1, Least
    <3>3. j \in 1 .. n - 1 /\ L[j] = t /\ \A m \in 1 .. n - 1 : m < j => L[m] # t
      BY <1>0, <3>2
    <3>4. j \in Firsts(L, e, n - 1)
      BY Zenon, <2>2, <3>3 DEF Firsts
    <3>5. PICK B : B = Rivals(L, e, j - 1, t)
      BY Zenon
    <3>6. PICK G : G = Rivals(L, e, n - 1, t)
      BY Zenon
    <3>7. B \in SUBSET G
      <4>1. Firsts(L, e, j - 1) \subseteq Firsts(L, e, n - 1)
        BY <1>0, <3>3, FirstsGrow
      <4> QED BY Zenon, <3>5, <3>6, <4>1 DEF Rivals
    <3>8. IsFiniteSet(G)
      BY Zenon, <1>0, <3>6, FullOfTaken
    <3>9. Cardinality(B) <= Cardinality(G) /\ Cardinality(B) \in Nat /\ Cardinality(G) \in Nat
      BY Zenon, <3>7, <3>8, FS_Subset, FS_CardinalityType
    <3>10. ~Full(l, Cardinality(B))
      BY <1>7, <2>2, <3>6, <3>9 DEF Full
    <3>11. j \in I
      BY Zenon, <1>1, <1>4, <3>3, <3>4, <3>5, <3>10 DEF Taken
    <3> QED BY Zenon, <1>6, <3>3, <3>11
  <2> QED BY Zenon, <1>1, <1>2, <1>3, <1>9, <2>1, <2>2
<1> QED BY Zenon, <1>14, <1>15

-----------------------------------------------------------------------------
(*****************************************************************************)
(* The whole scan, and the ranking.                                          *)
(*****************************************************************************)

\* What the scan returns.  The closed form satisfies the recursion, so the
\* recursion has a solution; a solution that differs from it has a first place
\* where it does, and there is none.
LEMMA ScanIs ==
  ASSUME NEW q, Ranked(q) \in Seq(Torrents)
  PROVE  desired_download_hashes(q)
           = Picked(Ranked(q), Taken(Ranked(q), Eligible(q), Len(Ranked(q))))
<1>1. PICK L \in Seq(Torrents) : L = Ranked(q)
  BY Zenon
<1>2. PICK e : e = Eligible(q)
  BY Zenon
<1>3. PICK N \in Nat : N = Len(L)
  OBVIOUS
<1> DEFINE g == [n \in 0 .. N |-> Picked(L, Taken(L, e, n))]
           Body(s) == [n \in 0 .. N |-> IF n = 0 THEN <<>> ELSE Consider(e, s[n - 1], L[n])]
<1>4. Picked(L, Taken(L, e, 0)) = <<>>
  <2>1. Taken(L, e, 0) = {}
    BY DEF Taken, Firsts
  <2> QED BY Zenon, <2>1, PickedNone
<1>5. \A n \in 0 .. N : n # 0 => Consider(e, g[n - 1], L[n]) = Picked(L, Taken(L, e, n))
  <2> SUFFICES ASSUME NEW n \in 0 .. N, n # 0
               PROVE  Consider(e, g[n - 1], L[n]) = Picked(L, Taken(L, e, n))
    BY Zenon
  <2>1. n \in 1 .. Len(L) /\ n - 1 \in 0 .. N
    BY <1>3
  <2>2. g[n - 1] = Picked(L, Taken(L, e, n - 1))
    BY Zenon, <2>1
  <2> HIDE DEF g
  <2> QED BY Zenon, <2>1, <2>2, ScanStep
<1>6. g = Body(g)
  <2>1. PICK h : h = g
    BY Zenon
  <2>2. \A n \in 0 .. N : g[n] = IF n = 0 THEN <<>> ELSE Consider(e, h[n - 1], L[n])
    BY Zenon, <1>4, <1>5, <2>1
  <2>3. g = [n \in 0 .. N |-> IF n = 0 THEN <<>> ELSE Consider(e, h[n - 1], L[n])]
    BY Zenon, <2>2
  <2> QED BY Zenon, <2>1, <2>3
<1> HIDE DEF g
<1>7. PICK f : f = Body(f) /\ desired_download_hashes(q) = f[N]
  <2>1. desired_download_hashes(q) = (CHOOSE s : s = Body(s))[N]
    BY Zenon, <1>1, <1>2, <1>3 DEF desired_download_hashes
  <2>2. PICK f : f = CHOOSE s : s = Body(s)
    BY Zenon
  <2>3. f = Body(f)
    BY Zenon, <1>6, <2>2
  <2> HIDE DEF Body
  <2>4. desired_download_hashes(q) = f[N]
    BY Zenon, <2>1, <2>2
  <2> QED BY Zenon, <2>3, <2>4
<1>8. \A n \in 0 .. N : /\ f[n] = IF n = 0 THEN <<>> ELSE Consider(e, f[n - 1], L[n])
                        /\ g[n] = IF n = 0 THEN <<>> ELSE Consider(e, g[n - 1], L[n])
  BY Zenon, <1>6, <1>7
<1> HIDE DEF Body
<1> DEFINE D == {n \in 0 .. N : f[n] # g[n]}
<1>9. ASSUME D # {} PROVE FALSE
  <2>1. D \subseteq Nat
    OBVIOUS
  <2>2. PICK n \in D : \A m \in D : n <= m
    BY Zenon, <1>9, <2>1, Least
  <2>3. n \in 0 .. N /\ f[n] # g[n]
    BY Zenon
  <2>4. n # 0
    BY Zenon, <1>8, <2>3
  <2>5. n - 1 \in 0 .. N /\ n - 1 < n /\ n - 1 \in Nat
    BY <2>3, <2>4
  <2>6. f[n - 1] = g[n - 1]
    BY <2>2, <2>5
  <2> QED BY Zenon, <1>8, <2>3, <2>4, <2>6
<1>10. f[N] = g[N]
  BY <1>9
<1>11. g[N] = Picked(L, Taken(L, e, N))
  BY SMTT(20) DEF g
<1> QED BY Zenon, <1>1, <1>2, <1>3, <1>7, <1>10, <1>11

\* The part of the ranking that is sorted by weight.
LEMMA HeavierIs ==
  ASSUME NEW q, Queue(q, Torrents)
  PROVE  /\ Heavier(q) \in Listings(q.order_set) /\ IsFiniteSet(q.order_set)
         /\ Heavier(q) \in Seq(Torrents) /\ Range(Heavier(q)) = q.order_set
         /\ \A i, j \in DOMAIN Heavier(q) : i < j => ByWeight(q, Heavier(q)[i], Heavier(q)[j])
<1>1. PICK z : z = [order |-> q.order, bypass |-> <<>>, order_set |-> q.order_set,
                    bypass_set |-> {}, order_index |-> q.order_index]
  BY Zenon
<1>2. /\ z.order = q.order /\ z.bypass = <<>> /\ z.order_set = q.order_set
      /\ z.bypass_set = {} /\ z.order_index = q.order_index
  BY Zenon, <1>1
<1>3. Queue(z, Torrents)
  <2>1. Shape(z)
    BY Zenon, <1>1, <1>2 DEF Shape
  <2>2. Exact(z)
    BY <1>2 DEF Exact, Queue, IsInjective, Range
  <2> QED BY <1>2, <2>1, <2>2 DEF Queue
<1>4. PICK S : S = q.order_set
  BY Zenon
<1> DEFINE R == {x \in S \X S : ByWeight(q, x[1], x[2])}
<1>5. \A a, b \in S : <<a, b>> \in R <=> ByWeight(q, a, b)
  BY Zenon
<1>6. \A a, b \in S : ByWeight(q, a, b) <=> Outranks(z, a, b)
  BY Zenon, <1>2 DEF Outranks, ByWeight
<1> HIDE DEF R
<1>7. Orders(R, S)
  <2>1. S \in SUBSET (z.order_set \cup z.bypass_set)
    BY Zenon, <1>2, <1>4
  <2>2. \A a, b \in S : <<a, b>> \in R <=> Outranks(z, a, b)
    BY Zenon, <1>5, <1>6
  <2> QED BY Zenon, <1>3, <2>1, <2>2, RanksOrder
<1>8. S \in SUBSET Torrents /\ IsFiniteSet(S)
  <2>1. S \in SUBSET Torrents
    BY <1>4 DEF Queue, Exact, Range
  <2> QED BY Zenon, <2>1, FS_Subset, SchedulerAssumption
<1>9. PICK s \in Listings(S) : \A i, j \in DOMAIN s : i < j => <<s[i], s[j]>> \in R
  BY Zenon, <1>7, <1>8, SortExists
<1>10. \A i \in DOMAIN s : s[i] \in S
  BY <1>8, Listing
<1>11. \A i, j \in DOMAIN s : i < j => ByWeight(q, s[i], s[j])
  BY Zenon, <1>5, <1>9, <1>10
<1>12. PICK h : h = Heavier(q)
  BY Zenon
<1>13. h \in Listings(S) /\ \A i, j \in DOMAIN h : i < j => ByWeight(q, h[i], h[j])
  BY Zenon, <1>4, <1>11, <1>12 DEF Heavier, SortedSeq
<1>14. h \in Seq(S) /\ Range(h) = S
  BY Zenon, <1>8, <1>13, Listing
<1>15. h \in Seq(Torrents)
  BY Zenon, <1>8, <1>14, Wider
<1> QED BY Zenon, <1>4, <1>8, <1>12, <1>13, <1>14, <1>15

\* The ranking has every member of the queue, and the first places of the
\* members are in the order of Outranks.
LEMMA RankingIs ==
  ASSUME NEW q, Queue(q, Torrents), NEW L, L = Ranked(q), NEW e
  PROVE  /\ L \in Seq(Torrents) /\ Range(L) = q.order_set \cup q.bypass_set
         /\ \A i, j \in Firsts(L, e, Len(L)) : i < j => Outranks(q, L[i], L[j])
<1>1. PICK b \in Seq(Torrents) : b = q.bypass /\ Range(b) = q.bypass_set
  BY Zenon DEF Queue, Exact
<1>2. PICK h \in Seq(Torrents) : /\ h = Heavier(q) /\ Range(h) = q.order_set
                                 /\ \A i, j \in DOMAIN h : i < j => ByWeight(q, h[i], h[j])
  BY Zenon, HeavierIs
<1>3. L = b \o h
  BY Zenon, <1>1, <1>2 DEF Ranked
<1>4. /\ L \in Seq(Torrents) /\ Len(L) = Len(b) + Len(h) /\ Len(b) \in Nat /\ Len(h) \in Nat
      /\ \A i \in 1 .. Len(b) : L[i] = b[i]
      /\ \A i \in Len(b) + 1 .. Len(L) : L[i] = h[i - Len(b)] /\ i - Len(b) \in DOMAIN h
  BY <1>3
<1>5. Range(L) = q.order_set \cup q.bypass_set
  <2>1. Range(L) = Range(b) \cup Range(h)
    BY SMTT(40), <1>3, Joined
  <2> QED BY Zenon, <1>1, <1>2, <2>1
<1>6. ASSUME NEW i \in Firsts(L, e, Len(L)), NEW j \in Firsts(L, e, Len(L)), i < j
      PROVE  Outranks(q, L[i], L[j])
  <2>1. /\ i \in 1 .. Len(L) /\ j \in 1 .. Len(L) /\ i \in Nat /\ j \in Nat
        /\ \A k \in 1 .. Len(L) : k < j => L[k] # L[j]
        /\ \A k \in 1 .. Len(L) : k < i => L[k] # L[i]
    BY <1>4 DEF Firsts
  <2>2. ASSUME NEW k \in 1 .. Len(L), k > Len(b), \A m \in 1 .. Len(L) : m < k => L[m] # L[k]
        PROVE  L[k] \notin q.bypass_set
    <3>1. \A m \in 1 .. Len(b) : m \in 1 .. Len(L) /\ m < k
      BY <1>4, <2>2
    <3>2. \A m \in DOMAIN b : b[m] # L[k]
      <4>1. \A m \in 1 .. Len(b) : L[m] # L[k]
        BY Zenon, <2>2, <3>1
      <4>2. DOMAIN b = 1 .. Len(b)
        OBVIOUS
      <4> QED BY Zenon, <1>4, <4>1, <4>2
    <3> QED BY Zenon, <1>1, <3>2 DEF Range
  <2>3. \A k \in 1 .. Len(b) : L[k] \in q.bypass_set
    <3>1. \A k \in DOMAIN b : b[k] \in Range(b)
      BY Zenon DEF Range
    <3> QED BY <1>1, <1>4, <3>1
  <2>4. CASE j <= Len(b)
    <3>1. i \in DOMAIN b /\ j \in DOMAIN b /\ b[i] = L[i] /\ b[j] = L[j]
      <4>1. PICK n \in Nat : n = Len(b)
        BY Zenon, <1>4
      <4>2. i \in 1 .. n /\ j \in 1 .. n
        BY <1>6, <2>1, <2>4, <4>1
      <4>3. DOMAIN b = 1 .. n
        BY <4>1
      <4> QED BY Zenon, <1>4, <4>1, <4>2, <4>3
    <3>2. L[i] \in q.bypass_set /\ L[j] \in q.bypass_set
      BY <2>3, <3>1
    <3> QED BY Zenon, <1>1, <1>6, <3>1, <3>2 DEF Outranks
  <2>5. CASE j > Len(b) /\ i <= Len(b)
    <3>1. L[i] \in q.bypass_set
      BY <1>4, <2>1, <2>3, <2>5
    <3>2. L[j] \notin q.bypass_set
      BY Zenon, <2>1, <2>2, <2>5
    <3> QED BY Zenon, <3>1, <3>2 DEF Outranks
  <2>6. CASE i > Len(b)
    <3>1. j > Len(b)
      BY SMTT(20), <1>4, <1>6, <2>1, <2>6
    <3>2. L[i] \notin q.bypass_set /\ L[j] \notin q.bypass_set
      BY Zenon, <2>1, <2>2, <2>6, <3>1
    <3>3. PICK x \in DOMAIN h : x = i - Len(b) /\ L[i] = h[x]
      BY SMTT(20), <1>4, <2>1, <2>6
    <3>4. PICK y \in DOMAIN h : y = j - Len(b) /\ L[j] = h[y]
      BY SMTT(20), <1>4, <2>1, <3>1
    <3>5. x < y
      BY SMTT(20), <1>4, <1>6, <2>1, <3>3, <3>4
    <3>6. ByWeight(q, L[i], L[j])
      BY Zenon, <1>2, <3>3, <3>4, <3>5
    <3> QED BY Zenon, <3>2, <3>6 DEF Outranks
  <2> QED BY SMTT(40), <1>4, <2>1, <2>4, <2>5, <2>6
<1> QED BY Zenon, <1>4, <1>5, <1>6

-----------------------------------------------------------------------------
(*****************************************************************************)
(* Whom the scan chooses.                                                    *)
(*****************************************************************************)

\* A torrent is chosen when the scan takes its first place in the ranking.
LEMMA ChosenAre ==
  ASSUME NEW q, Queue(q, Torrents), NEW L, L = Ranked(q), NEW e, e = Eligible(q),
         NEW I, I = Taken(L, e, Len(L))
  PROVE  /\ Chosen(q) = {L[i] : i \in I}
         /\ I \in SUBSET DOMAIN L /\ I \subseteq Firsts(L, e, Len(L))
         /\ \A i, j \in I : L[i] = L[j] => i = j
<1>1. PICK N \in Nat : N = Len(L) /\ L \in Seq(Torrents) /\ DOMAIN L = 1 .. N
  BY SMTT(20), RankingIs
<1>2. PICK F : F = Firsts(L, e, N)
  BY Zenon
<1>3. PICK K : K = Candidates(q)
  BY Zenon
<1>4. Range(L) = q.order_set \cup q.bypass_set /\ K = e \cap Range(L) /\ K \in SUBSET Torrents
  <2>1. Range(L) = q.order_set \cup q.bypass_set
    BY Zenon, RankingIs
  <2>2. K = e \cap Range(L)
    BY Zenon, <1>3, <2>1 DEF Candidates
  <2> QED BY SMTT(40), <1>1, <2>1, <2>2 DEF Range
<1>5. /\ F \subseteq 1 .. N
      /\ \A i \in F : i \in Nat /\ L[i] \in K
      /\ \A i, j \in F : L[i] = L[j] => i = j
  <2>1. \A i \in F : i \in 1 .. N /\ L[i] \in e /\ \A j \in 1 .. N : j < i => L[j] # L[i]
    BY Zenon, <1>2 DEF Firsts
  <2>2. \A i \in 1 .. N : L[i] \in Range(L) /\ i \in Nat
    BY <1>1 DEF Range
  <2>3. \A i, j \in F : L[i] = L[j] => i = j
    BY SMTT(20), <2>1, <2>2
  <2> QED BY Zenon, <1>4, <2>1, <2>2, <2>3
<1>6. \A t \in K : \E i \in F : L[i] = t
  <2> SUFFICES ASSUME NEW t \in K PROVE \E i \in F : L[i] = t
    BY Zenon
  <2> DEFINE D == {i \in 1 .. N : L[i] = t}
  <2>1. D # {} /\ D \subseteq Nat
    BY <1>1, <1>4 DEF Range
  <2>2. PICK i \in D : \A m \in D : i <= m
    BY Zenon, <2>1, Least
  <2>3. i \in 1 .. N /\ L[i] = t /\ \A j \in 1 .. N : j < i => L[j] # L[i]
    BY <2>2
  <2> QED BY Zenon, <1>2, <1>4, <2>3 DEF Firsts
<1>7. \A i, j \in F : Outranks(q, L[j], L[i]) <=> j < i
  <2>1. \A i, j \in F : i < j => Outranks(q, L[i], L[j])
    BY ZenonT(40), <1>1, <1>2, RankingIs
  <2> DEFINE R == {x \in K \X K : Outranks(q, x[1], x[2])}
  <2>2. \A a, b \in K : <<a, b>> \in R <=> Outranks(q, a, b)
    BY Zenon
  <2> HIDE DEF R
  <2>3. Orders(R, K)
    <3>1. K \in SUBSET (q.order_set \cup q.bypass_set)
      BY Zenon, <1>4
    <3> QED BY Zenon, <2>2, <3>1, RanksOrder
  <2>4. \A a, b \in K : ~(Outranks(q, a, b) /\ Outranks(q, b, a))
    BY Zenon, <2>2, <2>3 DEF Orders
  <2> QED BY SMTT(40), <1>5, <2>1, <2>4
<1>8. ASSUME NEW i \in F
      PROVE  Cardinality(Before(q, L[i])) = Cardinality(Rivals(L, e, i - 1, L[i]))
  <2>1. PICK A : A = Rivals(L, e, i - 1, L[i])
    BY Zenon
  <2>2. PICK B : B = Before(q, L[i])
    BY Zenon
  <2>3. \A j : j \in A <=> j \in F /\ j < i /\ needs_metadata[L[j]] = needs_metadata[L[i]]
    <3>1. i \in 1 .. N /\ N \in 0 .. Len(L)
      BY <1>1, <1>5
    <3>2. Firsts(L, e, i - 1) = {j \in F : j < i}
      BY <1>1, <1>2, <3>1, FirstsGrow
    <3>3. \A j \in F : L[j] \in Torrents
      BY Zenon, <1>4, <1>5
    <3> QED BY Zenon, <2>1, <3>2, <3>3 DEF Rivals, Pool
  <2>4. \A u : u \in B <=> u \in K /\ needs_metadata[u] = needs_metadata[L[i]] /\ Outranks(q, u, L[i])
    BY Zenon, <1>3, <2>2 DEF Before
  <2> DEFINE f == [j \in A |-> L[j]]
  <2>5. f \in [A -> B]
    BY Zenon, <1>5, <1>7, <2>3, <2>4
  <2>6. f \in Injection(A, B)
    BY Zenon, <1>5, <2>3, <2>5 DEF Injection, IsInjective
  <2>7. \A u \in B : \E j \in A : L[j] = u
    BY ZenonT(40), <1>6, <1>7, <2>3, <2>4
  <2>8. f \in Surjection(A, B)
    BY Zenon, <2>5, <2>7 DEF Surjection
  <2>9. IsFiniteSet(B)
    <3>1. B \in SUBSET Torrents
      BY Zenon, <1>4, <2>4
    <3> QED BY Zenon, <3>1, FS_Subset, SchedulerAssumption
  <2> HIDE DEF f
  <2>10. Cardinality(A) = Cardinality(B)
    BY Zenon, <2>6, <2>8, <2>9, FS_Injection
  <2> QED BY Zenon, <2>1, <2>2, <2>10
<1>9. I = {i \in F : ~Full(Limit(L[i]), Cardinality(Before(q, L[i])))}
  BY Zenon, <1>1, <1>2, <1>8 DEF Taken
<1>10. \A t : t \in Chosen(q) <=> t \in K /\ ~Full(Limit(t), Cardinality(Before(q, t)))
  BY Zenon, <1>3 DEF Chosen
<1>11. Chosen(q) = {L[i] : i \in I}
  <2>1. \A t \in Chosen(q) : \E i \in I : t = L[i]
    BY Zenon, <1>6, <1>9, <1>10
  <2>2. \A i \in I : L[i] \in Chosen(q)
    BY Zenon, <1>5, <1>9, <1>10
  <2> QED BY <2>1, <2>2
<1> QED BY Zenon, <1>1, <1>2, <1>5, <1>9, <1>11

\* The scan finds the best plan.
LEMMA ScanIsBest ==
  ASSUME NEW q, Queue(q, Torrents)
  PROVE  desired_download_hashes(q) = Best(q)
<1>1. PICK L : L = Ranked(q)
  BY Zenon
<1>2. PICK e : e = Eligible(q)
  BY Zenon
<1>3. PICK I : I = Taken(L, e, Len(L))
  BY Zenon
<1>4. PICK B : B = Chosen(q)
  BY Zenon
<1>5. /\ L \in Seq(Torrents)
      /\ \A i, j \in Firsts(L, e, Len(L)) : i < j => Outranks(q, L[i], L[j])
  BY Zenon, <1>1, RankingIs
<1>6. /\ B = {L[i] : i \in I} /\ I \in SUBSET DOMAIN L /\ I \subseteq Firsts(L, e, Len(L))
      /\ \A i, j \in I : L[i] = L[j] => i = j
  BY <1>1, <1>2, <1>3, <1>4, ChosenAre
<1>7. PICK s : s = Picked(L, I)
  BY Zenon
<1>8. desired_download_hashes(q) = s
  BY Zenon, <1>1, <1>2, <1>3, <1>5, <1>7, ScanIs
<1>9. s \in Seq(Torrents) /\ Range(s) = B /\ IsInjective(s)
  BY SMTT(40), <1>5, <1>6, <1>7, Picking
<1>10. s \in Listings(B) /\ IsFiniteSet(B)
  BY Zenon, <1>9, ListingOf
<1>11. \A i, j \in DOMAIN s : i < j => Outranks(q, s[i], s[j])
  <2>1. PICK p : p = Ascending(I)
    BY Zenon
  <2>2. /\ IsFiniteSet(I) /\ p \in Listings(I) /\ s = [k \in DOMAIN p |-> L[p[k]]]
        /\ \A i, j \in DOMAIN p : i < j => p[i] < p[j]
    BY SMTT(40), <1>5, <1>6, <1>7, <2>1, SomePositions
  <2>3. \A k \in DOMAIN p : p[k] \in I
    BY SMTT(20), <2>2, Listing
  <2> QED BY Zenon, <1>5, <1>6, <2>2, <2>3
<1>12. B \in SUBSET (q.order_set \cup q.bypass_set)
  BY Zenon, <1>4 DEF Chosen, Candidates
<1>13. PICK r : r = InRank(q, B)
  BY Zenon
<1>14. r \in Listings(B) /\ \A i, j \in DOMAIN r : i < j => Outranks(q, r[i], r[j])
  BY Zenon, <1>12, <1>13, ByRank
<1> DEFINE R == {x \in B \X B : Outranks(q, x[1], x[2])}
<1>15. \A a, b \in B : <<a, b>> \in R <=> Outranks(q, a, b)
  BY Zenon
<1> HIDE DEF R
<1>16. Orders(R, B)
  BY Zenon, <1>12, <1>15, RanksOrder
<1>17. \A i, j \in DOMAIN s : i < j => <<s[i], s[j]>> \in R
  <2>1. \A i \in DOMAIN s : s[i] \in B
    BY <1>10, Listing
  <2> QED BY Zenon, <1>11, <1>15, <2>1
<1>18. \A i, j \in DOMAIN r : i < j => <<r[i], r[j]>> \in R
  <2>1. \A i \in DOMAIN r : r[i] \in B
    BY SMTT(20), <1>10, <1>14, Listing
  <2> QED BY Zenon, <1>14, <1>15, <2>1
<1>19. s = r
  BY ZenonT(40), <1>10, <1>14, <1>16, <1>17, <1>18, OneOrder
<1> QED BY Zenon, <1>4, <1>8, <1>13, <1>19 DEF Best

-----------------------------------------------------------------------------
(*****************************************************************************)
(* The inductive invariant, and the steps on the registry and the queue.     *)
(*****************************************************************************)

States == {"absent", "Queued", "Downloading", "Paused", "Completed", "TrackerError"}
Places == {"idle", "adding", "clear", "plan", "current", "stop", "requeue", "start", "done"}

\* The registry and the engines have their types.
RegistryOK ==
  /\ state \in [Torrents -> States] /\ needs_metadata \in [Torrents -> BOOLEAN]
  /\ engine \in [Torrents -> {"none", "running", "ending"}] /\ retry_after \subseteq Torrents

\* A pass has something to stop when it is about to stop it, and to start when
\* it is about to start it.
PassesOK ==
  /\ pc \in [Runners -> Places]
  /\ desired \in [Runners -> Seq(Torrents)] /\ current \in [Runners -> Seq(Torrents)]
  /\ \A r \in Runners : /\ pc[r] \in {"stop", "requeue"} => current[r] # <<>>
                        /\ pc[r] = "start" => desired[r] # <<>>

\* A caller that adds a torrent remembers it, and where it was in the queue.
Remembered(m) ==
  m.torrent \in Torrents /\ m.queue.order_index \in Nat /\ m.queue.bypass_index \in Nat
SnapshotsOK ==
  /\ DOMAIN snapshot = Callers /\ snapshot = [c \in Callers |-> snapshot[c]]
  /\ \A c \in Callers : pc[c] = "adding" => Remembered(snapshot[c])

\* The background pass exists exactly while it is marked as scheduled.
FlagsOK ==
  /\ scheduled \in BOOLEAN /\ dirty \in BOOLEAN /\ asked \in BOOLEAN
  /\ scheduled <=> pc["loop"] # "idle"

SchedulerInv == RegistryOK /\ Queue(queue, Torrents) /\ PassesOK /\ SnapshotsOK /\ FlagsOK

\* A step of users or engines, without the bound on their number.
Event ==
  \/ \E c \in Callers : UserBegins(c)
  \/ \E t \in Torrents : EngineEvent(t)
Work ==
  \/ LoopClear \/ LoopCheck
  \/ \E r \in Runners : PassStep(r)
  \/ \E c \in Callers : Periodic(c) \/ AddFails(c) \/ AddCommits(c)
  \/ \E t \in Torrents : EngineCleanup(t) \/ RetryElapses(t)

\* No step leaves the types of the registry and of the engines.
LEMMA RegistryKept ==
  ASSUME RegistryOK, Event \/ Work
  PROVE  RegistryOK'
<1> USE DEF registry, coalescer, passes, RegistryOK, States
<1>1. ASSUME LoopClear \/ LoopCheck PROVE RegistryOK'
  BY Zenon, <1>1 DEF LoopClear, LoopCheck
<1>2. ASSUME NEW r \in Runners, Plan(r) PROVE RegistryOK'
  BY Zenon, <1>2 DEF Plan
<1>3. ASSUME NEW r \in Runners, Current(r) PROVE RegistryOK'
  BY Zenon, <1>3 DEF Current
<1>4. ASSUME NEW r \in Runners, Stop(r) PROVE RegistryOK'
  BY Zenon, <1>4 DEF Stop
<1>5. ASSUME NEW r \in Runners, Requeue(r) PROVE RegistryOK'
  BY Zenon, <1>5 DEF Requeue
<1>6. ASSUME NEW r \in Runners, Start(r) PROVE RegistryOK'
  BY Zenon, <1>6 DEF Start, StartEngine
<1>7. ASSUME NEW c \in Callers, Periodic(c) \/ AddCommits(c) PROVE RegistryOK'
  BY Zenon, <1>7 DEF Periodic, AddCommits
<1>8. ASSUME NEW c \in Callers, AddFails(c) PROVE RegistryOK'
  <2>1. UNCHANGED <<engine, retry_after>> /\ state' \in [Torrents -> States]
    BY Zenon, <1>8 DEF AddFails
  <2>2. PICK t : t = snapshot[c].torrent
    BY Zenon
  <2>3. (t \in Magnets) \in BOOLEAN
    OBVIOUS
  <2>4. needs_metadata' \in [Torrents -> BOOLEAN]
    BY Zenon, <1>8, <2>2, <2>3 DEF AddFails
  <2> QED BY Zenon, <2>1, <2>4
<1>9. ASSUME NEW c \in Callers, NEW t \in Torrents,
             pause(c, t) \/ resume(c, t) \/ start_now(c, t) \/ queue_move(c, t)
      PROVE  RegistryOK'
  BY Zenon, <1>9 DEF pause, resume, start_now, queue_move
<1>10. ASSUME NEW c \in Callers, NEW t \in Torrents, remove_torrent(c, t) PROVE RegistryOK'
  <2>1. /\ state' \in [Torrents -> States] /\ retry_after' \subseteq Torrents
        /\ engine' \in [Torrents -> {"none", "running", "ending"}]
    BY Zenon, <1>10 DEF remove_torrent
  <2>2. (t \in Magnets) \in BOOLEAN
    OBVIOUS
  <2>3. needs_metadata' \in [Torrents -> BOOLEAN]
    BY Zenon, <1>10, <2>2 DEF remove_torrent
  <2> QED BY Zenon, <2>1, <2>3
<1>11. ASSUME NEW c \in Callers, NEW t \in Torrents, NEW s \in {"Queued", "Paused"}, add_torrent(c, t, s)
       PROVE  RegistryOK'
  BY Zenon, <1>11 DEF add_torrent
<1>12. ASSUME NEW t \in Torrents, MetadataResolves(t) PROVE RegistryOK'
  <2>1. UNCHANGED <<state, engine, retry_after>>
    BY Zenon, <1>12 DEF MetadataResolves
  <2>2. PICK b \in BOOLEAN : needs_metadata' = [needs_metadata EXCEPT ![t] = b]
    BY Zenon, <1>12 DEF MetadataResolves
  <2> QED BY Zenon, <2>1, <2>2
<1>13. ASSUME NEW t \in Torrents, EngineFinal(t) PROVE RegistryOK'
  <2>1. Outcomes \subseteq States
    BY Zenon, SchedulerAssumption
  <2> QED BY Zenon, <1>13, <2>1 DEF EngineFinal
<1>14. ASSUME NEW t \in Torrents, EngineIncomplete(t) PROVE RegistryOK'
  BY Zenon, <1>14 DEF EngineIncomplete
<1>15. ASSUME NEW t \in Torrents, EngineCleanup(t) \/ RetryElapses(t) PROVE RegistryOK'
  BY Zenon, <1>15 DEF EngineCleanup, RetryElapses
<1> QED
  BY SMTT(40), <1>1, <1>2, <1>3, <1>4, <1>5, <1>6, <1>7, <1>8, <1>9, <1>10, <1>11, <1>12, <1>13, <1>14, <1>15
  DEF Event, Work, UserBegins, EngineEvent, PassStep

\* Every step leaves an exact queue: a step that changes it is one of the
\* methods above, or several of them.
LEMMA QueueKept ==
  ASSUME RegistryOK, SnapshotsOK, Queue(queue, Torrents), Event \/ Work
  PROVE  Queue(queue', Torrents)
<1>q. PICK q : q = queue
  BY Zenon
<1>0. Queue(q, Torrents)
  BY Zenon, <1>q
<1>1. ASSUME UNCHANGED queue PROVE Queue(queue', Torrents)
  BY Zenon, <1>1
<1>2. ASSUME NEW r \in Runners, Plan(r) PROVE Queue(queue', Torrents)
  <2>1. PICK keys : keys = Ascending(Stale)
    BY Zenon
  <2>2. keys \in Seq(Torrents)
    <3>1. PICK S : S = Stale
      BY Zenon
    <3>2. S \subseteq Torrents /\ S \subseteq Nat /\ IsFiniteSet(S)
      <4>1. S \in SUBSET Torrents
        BY Zenon, <3>1 DEF Stale
      <4> QED BY Zenon, <4>1, FS_Subset, SchedulerAssumption
    <3>3. Ascending(S) \in Seq(Torrents)
      <4>1. PICK p : p = Ascending(S)
        BY Zenon
      <4>2. p \in Listings(S)
        BY Zenon, <3>2, <4>1, Increasing
      <4>3. p \in Seq(S)
        BY Zenon, <3>2, <4>2, Listing
      <4>4. p \in Seq(Torrents)
        BY Zenon, <3>2, <4>3, Wider
      <4> QED BY Zenon, <4>1, <4>4
    <3> QED BY Zenon, <2>1, <3>1, <3>3
  <2>3. Queue(Swept, Torrents)
    <3>1. PICK S : S = Stale
      BY Zenon
    <3>2. Queue(add_many(q, keys), Torrents)
      BY Zenon, <1>0, <2>2, AddedMany
    <3>3. Queue(clear_bypass_many(add_many(q, keys), S), Torrents)
      BY Zenon, <3>2, Cleared
    <3>4. Queue(move_many_to_bottom(clear_bypass_many(add_many(q, keys), S), S), Torrents)
      BY Zenon, <3>3, MovedManyDown
    <3> QED BY Zenon, <1>q, <1>0, <2>1, <3>1, <3>4 DEF Swept
  <2>4. PICK w : w = Swept
    BY Zenon
  <2>5. PICK gone : gone = (Range(w.order) \cup Range(w.bypass)) \ Registered
    BY Zenon
  <2>6. Queue(remove_many(w, gone), Torrents)
    BY Zenon, <2>3, <2>4, RemovedMany
  <2> QED BY Zenon, <1>2, <2>4, <2>5, <2>6 DEF Plan, Cleaned
<1>3. ASSUME NEW c \in Callers, NEW t \in Torrents, pause(c, t) PROVE Queue(queue', Torrents)
  <2>1. Queue(clear_bypass_many(q, {t}), Torrents)
    BY Zenon, <1>0, Cleared
  <2> QED BY Zenon, <1>q, <1>3, <2>1 DEF pause, clear_bypass
<1>4. ASSUME NEW c \in Callers, NEW t \in Torrents, resume(c, t) \/ start_now(c, t)
      PROVE  Queue(queue', Torrents)
  <2>1. Queue(bypass_queue(add(q, t), t), Torrents)
    BY Zenon, <1>0, AddedOne, Bypassed
  <2> QED BY Zenon, <1>q, <1>4, <2>1 DEF resume, start_now
<1>5. ASSUME NEW c \in Callers, NEW t \in Torrents, queue_move(c, t) PROVE Queue(queue', Torrents)
  <2>1. PICK w : w = queue'
    BY Zenon
  <2>2. w \in Moves(q, t)
    BY Zenon, <1>q, <1>5, <2>1 DEF queue_move
  <2> QED BY Zenon, <1>0, <2>1, <2>2, Moved
<1>6. ASSUME NEW c \in Callers, NEW t \in Torrents, remove_torrent(c, t) PROVE Queue(queue', Torrents)
  <2>1. Queue(remove_many(q, {t}), Torrents)
    BY Zenon, <1>0, RemovedMany
  <2> QED BY Zenon, <1>q, <1>6, <2>1 DEF remove_torrent
<1>7. ASSUME NEW c \in Callers, NEW t \in Torrents, NEW s, add_torrent(c, t, s)
      PROVE  Queue(queue', Torrents)
  <2>1. Queue(add(q, t), Torrents)
    BY Zenon, <1>0, AddedOne
  <2> QED BY Zenon, <1>q, <1>7, <2>1 DEF add_torrent
<1>8. ASSUME NEW c \in Callers, AddFails(c) PROVE Queue(queue', Torrents)
  <2>1. PICK m : m = snapshot[c]
    BY Zenon
  <2>2. Remembered(m)
    BY Zenon, <1>8, <2>1 DEF AddFails, SnapshotsOK
  <2>3. Queue(restore_membership(q, m.torrent, m.queue), Torrents)
    BY Zenon, <1>0, <2>2, RestoredTo DEF Remembered
  <2> QED BY Zenon, <1>q, <1>8, <2>1, <2>3 DEF AddFails
<1>9. ASSUME NEW t \in Torrents, EngineIncomplete(t) PROVE Queue(queue', Torrents)
  <2>1. Queue(add(q, t), Torrents)
    BY Zenon, <1>0, AddedOne
  <2>2. Queue(clear_bypass(add(q, t), t), Torrents)
    BY Zenon, <2>1, Cleared DEF clear_bypass
  <2>3. Queue(move_to_bottom(clear_bypass(add(q, t), t), t), Torrents)
    BY Zenon, <2>2, Moved DEF Moves
  <2> QED BY Zenon, <1>q, <1>0, <1>9, <2>3 DEF EngineIncomplete
<1>10. ASSUME \/ LoopClear \/ LoopCheck
              \/ \E r \in Runners : Current(r) \/ Stop(r) \/ Requeue(r) \/ Start(r)
              \/ \E c \in Callers : Periodic(c) \/ AddCommits(c)
              \/ \E t \in Torrents : EngineCleanup(t) \/ RetryElapses(t) \/ MetadataResolves(t)
                                     \/ EngineFinal(t)
       PROVE  UNCHANGED queue
  BY Zenon, <1>10 DEF LoopClear, LoopCheck, Current, Stop, Requeue, Start, Periodic, AddCommits,
               EngineCleanup, RetryElapses, MetadataResolves, EngineFinal
<1> QED
  BY ZenonT(40), <1>1, <1>2, <1>3, <1>4, <1>5, <1>6, <1>7, <1>8, <1>9, <1>10
  DEF Event, Work, UserBegins, EngineEvent, PassStep

-----------------------------------------------------------------------------
(*****************************************************************************)
(* The passes.                                                               *)
(*****************************************************************************)

\* A pass that is about to stop or to start a torrent has one left to stop or
\* to start.
LEMMA PassesKept ==
  ASSUME RegistryOK, PassesOK, Queue(queue, Torrents), Queue(queue', Torrents), Event \/ Work
  PROVE  PassesOK'
<1>s. "loop" \in Runners /\ Callers \subseteq Runners
  BY Zenon DEF Runners
<1>0. ASSUME NEW r \in Runners, NEW p \in Places \ {"stop", "requeue", "start"},
             pc' = [pc EXCEPT ![r] = p], UNCHANGED <<desired, current>>
      PROVE  PassesOK'
  BY Zenon, <1>0 DEF PassesOK
<1>1. ASSUME LoopClear \/ LoopCheck PROVE PassesOK'
  BY Zenon, <1>0, <1>1, <1>s DEF LoopClear, LoopCheck, Places
<1>2. ASSUME NEW r \in Runners, Plan(r) PROVE PassesOK'
  <2>1. PICK q : q = queue'
    BY Zenon
  <2>2. PICK B : B = Chosen(queue)'
    BY Zenon
  <2>3. Best(queue)' = InRank(q, B)
    BY Zenon, <2>1, <2>2 DEF Best
  <2>4. B \in SUBSET (q.order_set \cup q.bypass_set)
    BY Zenon, <2>1, <2>2 DEF Chosen, Candidates
  <2>5. PICK s \in Seq(Torrents) : s = InRank(q, B)
    BY Zenon, <2>1, <2>4, ByRank
  <2>6. desired' = [desired EXCEPT ![r] = s] /\ current' = current /\ pc' = [pc EXCEPT ![r] = "current"]
    BY Zenon, <1>2, <2>3, <2>5 DEF Plan
  <2> QED BY Zenon, <2>6 DEF PassesOK, Places
<1>3. ASSUME NEW r \in Runners, Current(r) PROVE PassesOK'
  <2>1. PICK S : S = {t \in Running : state[t] = "Downloading"} \ Range(desired[r])
    BY Zenon
  <2>2. S \in SUBSET Torrents
    BY Zenon, <2>1 DEF Running
  <2>3. IsFiniteSet(S)
    BY Zenon, <2>2, FS_Subset, SchedulerAssumption
  <2>4. PICK s \in Listings(S) : /\ current' = [current EXCEPT ![r] = s]
                                  /\ pc' = [pc EXCEPT ![r] = AfterStop(r, s)]
                                  /\ desired' = desired
    BY Zenon, <1>3, <2>1 DEF Current
  <2>5. s \in Seq(S)
    BY Zenon, <2>3, <2>4, Listing
  <2>6. s \in Seq(Torrents)
    BY <2>2, <2>5
  <2>7. PICK p, d : p = AfterStop(r, s) /\ d = desired[r]
    BY Zenon
  <2>8. p \in Places /\ (p \in {"stop", "requeue"} => s # <<>>) /\ (p = "start" => d # <<>>)
    BY Zenon, <2>7 DEF AfterStop, AfterStart, Places
  <2> QED BY Zenon, <2>4, <2>6, <2>7, <2>8 DEF PassesOK
<1>4. ASSUME NEW r \in Runners, Stop(r) PROVE PassesOK'
  BY Zenon, <1>4 DEF Stop, PassesOK, Places
<1>5. ASSUME NEW r \in Runners, Requeue(r) PROVE PassesOK'
  <2>1. PICK c \in Seq(Torrents) : c = current[r] /\ c # <<>>
    BY Zenon, <1>5 DEF Requeue, PassesOK
  <2>2. PICK s \in Seq(Torrents) : s = Tail(c)
    BY Zenon, <2>1, TailIs
  <2>3. PICK p, d : p = AfterStop(r, s) /\ d = desired[r]
    BY Zenon
  <2>4. /\ current' = [current EXCEPT ![r] = s] /\ pc' = [pc EXCEPT ![r] = p] /\ desired' = desired
    BY Zenon, <1>5, <2>1, <2>2, <2>3 DEF Requeue
  <2>5. p \in Places /\ (p \in {"stop", "requeue"} => s # <<>>) /\ (p = "start" => d # <<>>)
    BY Zenon, <2>3 DEF AfterStop, AfterStart, Places
  <2> QED BY Zenon, <2>3, <2>4, <2>5 DEF PassesOK
<1>6. ASSUME NEW r \in Runners, Start(r) PROVE PassesOK'
  <2>1. PICK d \in Seq(Torrents) : d = desired[r] /\ d # <<>>
    BY Zenon, <1>6 DEF Start, PassesOK
  <2>2. PICK s \in Seq(Torrents) : s = Tail(d)
    BY Zenon, <2>1, TailIs
  <2>3. PICK p : p = AfterStart(r, s)
    BY Zenon
  <2>4. /\ desired' = [desired EXCEPT ![r] = s] /\ pc' = [pc EXCEPT ![r] = p] /\ current' = current
    BY Zenon, <1>6, <2>1, <2>2, <2>3 DEF Start
  <2>5. p \in Places /\ p \notin {"stop", "requeue"} /\ (p = "start" => s # <<>>)
    BY Zenon, <2>3 DEF AfterStart, Places
  <2> QED BY Zenon, <2>3, <2>4, <2>5 DEF PassesOK
<1>7. ASSUME NEW c \in Callers, NEW p \in {"idle", "adding", "plan"},
             pc' = [pc EXCEPT ![c] = p] \/ pc' = pc, UNCHANGED <<desired, current>>
      PROVE  PassesOK'
  BY Zenon, <1>7, <1>s DEF PassesOK, Places
<1>8. ASSUME NEW p \in [Runners -> Places], Scheduling(p), UNCHANGED <<desired, current>>,
             \A r \in Runners : p[r] = pc[r] \/ p[r] = "idle"
      PROVE  PassesOK'
  <2>1. pc' = p \/ pc' = [p EXCEPT !["loop"] = "clear"]
    BY Zenon, <1>8 DEF Scheduling
  <2> QED BY Zenon, <1>8, <1>s, <2>1 DEF PassesOK, Places
<1>9. ASSUME NEW c \in Callers, NEW t \in Torrents,
             pause(c, t) \/ resume(c, t) \/ start_now(c, t) \/ queue_move(c, t) \/ remove_torrent(c, t)
      PROVE  PassesOK'
  <2>1. (pc' = [pc EXCEPT ![c] = "plan"] \/ pc' = pc) /\ UNCHANGED <<desired, current>>
    BY Zenon, <1>9 DEF pause, resume, start_now, queue_move, remove_torrent, Begins
  <2> QED BY Zenon, <1>7, <2>1
<1>9p. ASSUME NEW c \in Callers, Periodic(c) PROVE PassesOK'
  <2>1. pc' = [pc EXCEPT ![c] = "plan"] /\ UNCHANGED <<desired, current>>
    BY Zenon, <1>9p DEF Periodic, Begins
  <2> QED BY Zenon, <1>7, <2>1
<1>10. ASSUME NEW c \in Callers, NEW t, NEW s, add_torrent(c, t, s) PROVE PassesOK'
  <2>1. pc' = [pc EXCEPT ![c] = "adding"] /\ UNCHANGED <<desired, current>>
    BY Zenon, <1>10 DEF add_torrent
  <2> QED BY Zenon, <1>7, <2>1
<1>11. ASSUME NEW c \in Callers, AddFails(c) PROVE PassesOK'
  <2>1. pc' = [pc EXCEPT ![c] = "idle"] /\ UNCHANGED <<desired, current>>
    BY Zenon, <1>11 DEF AddFails
  <2> QED BY Zenon, <1>7, <2>1
<1>12. ASSUME NEW c \in Callers, AddCommits(c) PROVE PassesOK'
  <2>1. PICK p : p = [pc EXCEPT ![c] = "idle"]
    BY Zenon
  <2>2. p \in [Runners -> Places] /\ \A r \in Runners : p[r] = pc[r] \/ p[r] = "idle"
    BY Zenon, <1>s, <2>1 DEF PassesOK, Places
  <2>3. (Scheduling(p) \/ pc' = p) /\ UNCHANGED <<desired, current>>
    BY Zenon, <1>12, <2>1 DEF AddCommits
  <2> QED BY Zenon, <1>7, <1>8, <2>1, <2>2, <2>3
<1>13. ASSUME NEW t \in Torrents, MetadataResolves(t) \/ EngineFinal(t) \/ EngineIncomplete(t)
                                  \/ EngineCleanup(t) \/ RetryElapses(t)
       PROVE  PassesOK'
  <2>1. (Scheduling(pc) \/ pc' = pc) /\ UNCHANGED <<desired, current>>
    BY Zenon, <1>13 DEF MetadataResolves, EngineFinal, EngineIncomplete, EngineCleanup, RetryElapses, passes
  <2>2. pc \in [Runners -> Places]
    BY Zenon DEF PassesOK
  <2>3. CASE pc' = pc
    BY Zenon, <2>1, <2>3 DEF PassesOK
  <2> QED BY Zenon, <1>8, <2>1, <2>2, <2>3
<1> QED
  <2>1. ASSUME NEW c \in Callers, UserBegins(c) PROVE PassesOK'
    BY Zenon, <1>9, <1>10, <2>1 DEF UserBegins
  <2>2. ASSUME NEW r \in Runners, PassStep(r) PROVE PassesOK'
    BY Zenon, <1>2, <1>3, <1>4, <1>5, <1>6, <2>2 DEF PassStep
  <2>3. ASSUME NEW c \in Callers, Periodic(c) \/ AddFails(c) \/ AddCommits(c) PROVE PassesOK'
    BY Zenon, <1>9p, <1>11, <1>12, <2>3
  <2> QED BY Zenon, <1>1, <1>13, <2>1, <2>2, <2>3 DEF Event, Work, EngineEvent

-----------------------------------------------------------------------------
(*****************************************************************************)
(* The snapshots, the flags of the background pass, and the two theorems.    *)
(*****************************************************************************)

\* An addition that is under way remembers what its failure has to restore.
LEMMA SnapshotsKept ==
  ASSUME PassesOK, SnapshotsOK, Queue(queue, Torrents), Event \/ Work
  PROVE  SnapshotsOK'
<1>s. "loop" \notin Callers /\ Callers \subseteq Runners /\ "loop" \in Runners /\ pc \in [Runners -> Places]
  BY Zenon, SchedulerAssumption DEF Runners, PassesOK
<1>0. ASSUME UNCHANGED snapshot, \A c \in Callers : pc'[c] = "adding" => pc[c] = "adding"
      PROVE  SnapshotsOK'
  BY Zenon, <1>0 DEF SnapshotsOK
<1>1. ASSUME NEW r \in Runners, NEW p, pc' = [pc EXCEPT ![r] = p], p # "adding", UNCHANGED snapshot
      PROVE  SnapshotsOK'
  BY Zenon, <1>0, <1>1, <1>s
<1>2. ASSUME LoopClear \/ LoopCheck PROVE SnapshotsOK'
  BY Zenon, <1>1, <1>2, <1>s DEF LoopClear, LoopCheck
<1>3. ASSUME NEW r \in Runners, PassStep(r) PROVE SnapshotsOK'
  <2>1. ASSUME NEW d PROVE AfterStart(r, d) # "adding" /\ AfterStop(r, d) # "adding"
    BY Zenon DEF AfterStart, AfterStop
  <2>2. PICK p : pc' = [pc EXCEPT ![r] = p] /\ p # "adding" /\ UNCHANGED snapshot
    BY Zenon, <1>3, <2>1 DEF PassStep, Plan, Current, Stop, Requeue, Start
  <2> QED BY Zenon, <1>1, <2>2
<1>4. ASSUME NEW c \in Callers, NEW t \in Torrents,
             pause(c, t) \/ resume(c, t) \/ start_now(c, t) \/ queue_move(c, t) \/ remove_torrent(c, t)
      PROVE  SnapshotsOK'
  <2>1. (pc' = [pc EXCEPT ![c] = "plan"] \/ pc' = pc) /\ UNCHANGED snapshot
    BY Zenon, <1>4 DEF pause, resume, start_now, queue_move, remove_torrent, Begins
  <2> QED BY Zenon, <1>0, <1>1, <1>s, <2>1
<1>5. ASSUME NEW c \in Callers, Periodic(c) PROVE SnapshotsOK'
  BY Zenon, <1>1, <1>5, <1>s DEF Periodic, Begins
<1>6. ASSUME NEW c \in Callers, NEW t \in Torrents, NEW s, add_torrent(c, t, s) PROVE SnapshotsOK'
  <2>1. PICK m : m = [torrent |-> t, state |-> s, queue |-> membership_snapshot(queue, t)]
    BY Zenon
  <2>2. PICK q : q = queue
    BY Zenon
  <2>3. /\ membership_snapshot(q, t).order_index \in Nat
        /\ membership_snapshot(q, t).bypass_index \in Nat
    BY Zenon, <2>2, SnapshotIs
  <2>4. Remembered(m)
    BY Zenon, <2>1, <2>2, <2>3 DEF Remembered
  <2>5. snapshot' = [snapshot EXCEPT ![c] = m] /\ pc' = [pc EXCEPT ![c] = "adding"]
    BY Zenon, <1>6, <2>1 DEF add_torrent
  <2> QED BY Zenon, <1>s, <2>4, <2>5 DEF SnapshotsOK
<1>7. ASSUME NEW c \in Callers, AddFails(c) PROVE SnapshotsOK'
  <2>1. snapshot' = [snapshot EXCEPT ![c] = NoSnapshot] /\ pc' = [pc EXCEPT ![c] = "idle"]
    BY Zenon, <1>7 DEF AddFails
  <2> QED BY Zenon, <1>s, <2>1 DEF SnapshotsOK
<1>8. ASSUME NEW p \in [Runners -> Places], Scheduling(p)
      PROVE  \A c \in Callers : pc'[c] = p[c]
  BY Zenon, <1>8, <1>s DEF Scheduling
<1>9. ASSUME NEW c \in Callers, AddCommits(c) PROVE SnapshotsOK'
  <2>1. PICK p : p = [pc EXCEPT ![c] = "idle"]
    BY Zenon
  <2>2. p \in [Runners -> Places]
    BY Zenon, <1>s, <2>1 DEF Places
  <2>3. snapshot' = [snapshot EXCEPT ![c] = NoSnapshot] /\ (Scheduling(p) \/ pc' = p)
    BY Zenon, <1>9, <2>1 DEF AddCommits
  <2>4. \A d \in Callers : pc'[d] = p[d]
    BY Zenon, <1>8, <2>2, <2>3
  <2> QED BY <1>s, <2>1, <2>3, <2>4 DEF SnapshotsOK
<1>10. ASSUME NEW t \in Torrents, MetadataResolves(t) \/ EngineFinal(t) \/ EngineIncomplete(t)
                                  \/ EngineCleanup(t) \/ RetryElapses(t)
       PROVE  SnapshotsOK'
  <2>1. (Scheduling(pc) \/ pc' = pc) /\ UNCHANGED snapshot
    BY Zenon, <1>10 DEF MetadataResolves, EngineFinal, EngineIncomplete, EngineCleanup, RetryElapses, passes
  <2>2. \A c \in Callers : pc'[c] = pc[c]
    BY Zenon, <1>8, <1>s, <2>1
  <2> QED BY Zenon, <1>0, <2>1, <2>2
<1> QED
  <2>1. ASSUME NEW c \in Callers, UserBegins(c) PROVE SnapshotsOK'
    BY Zenon, <1>4, <1>6, <2>1 DEF UserBegins
  <2>3. ASSUME NEW c \in Callers, Periodic(c) \/ AddFails(c) \/ AddCommits(c) PROVE SnapshotsOK'
    BY Zenon, <1>5, <1>7, <1>9, <2>3
  <2> QED BY Zenon, <1>2, <1>3, <1>10, <2>1, <2>3 DEF Event, Work, EngineEvent

\* `scheduled' is raised before the task exists and lowered, in one step with
\* its last look at `dirty', when it ends.
LEMMA FlagsKept ==
  ASSUME PassesOK, FlagsOK, Event \/ Work
  PROVE  FlagsOK'
<1>s. "loop" \notin Callers /\ Callers \subseteq Runners /\ "loop" \in Runners /\ pc \in [Runners -> Places]
  BY Zenon, SchedulerAssumption DEF Runners, PassesOK
<1>0. ASSUME UNCHANGED coalescer, pc'["loop"] = "idle" <=> pc["loop"] = "idle" PROVE FlagsOK'
  BY Zenon, <1>0 DEF FlagsOK, coalescer
<1>1. ASSUME LoopClear PROVE FlagsOK'
  <2>1. pc["loop"] # "idle" /\ pc'["loop"] # "idle" /\ scheduled' = scheduled /\ dirty' = FALSE
        /\ asked' = FALSE
    BY Zenon, <1>1, <1>s DEF LoopClear
  <2> QED BY Zenon, <2>1 DEF FlagsOK
<1>2. ASSUME LoopCheck PROVE FlagsOK'
  <2>1. /\ scheduled' = dirty /\ dirty' = FALSE /\ asked' = asked
        /\ pc'["loop"] = IF dirty THEN "clear" ELSE "idle"
    BY Zenon, <1>2, <1>s DEF LoopCheck
  <2>2. CASE dirty
    BY Zenon, <2>1, <2>2 DEF FlagsOK
  <2>3. CASE ~dirty
    BY Zenon, <2>1, <2>3 DEF FlagsOK
  <2> QED BY Zenon, <2>2, <2>3
<1>3. ASSUME NEW r \in Runners, PassStep(r) PROVE FlagsOK'
  <2>1. ASSUME NEW d PROVE r = "loop" => AfterStart(r, d) # "idle" /\ AfterStop(r, d) # "idle"
    BY Zenon DEF AfterStart, AfterStop
  <2>2. pc[r] # "idle"
    BY Zenon, <1>3 DEF PassStep, Plan, Current, Stop, Requeue, Start
  <2>3. PICK p : pc' = [pc EXCEPT ![r] = p] /\ (r = "loop" => p # "idle") /\ UNCHANGED coalescer
    BY Zenon, <1>3, <2>1 DEF PassStep, Plan, Current, Stop, Requeue, Start
  <2> QED BY Zenon, <1>0, <1>s, <2>2, <2>3
<1>4. ASSUME NEW c \in Callers, UserBegins(c) \/ Periodic(c) \/ AddFails(c) PROVE FlagsOK'
  <2>1. PICK p : (pc' = [pc EXCEPT ![c] = p] \/ pc' = pc) /\ UNCHANGED coalescer
    BY Zenon, <1>4 DEF UserBegins, pause, resume, start_now, queue_move, remove_torrent, add_torrent,
                Periodic, AddFails, Begins
  <2> QED BY Zenon, <1>0, <1>s, <2>1
<1>5. ASSUME NEW p \in [Runners -> Places], p["loop"] = pc["loop"], Scheduling(p) PROVE FlagsOK'
  <2>1. asked' = TRUE /\ scheduled' = TRUE /\ dirty' = scheduled
    BY Zenon, <1>5 DEF Scheduling
  <2>2. pc'["loop"] # "idle"
    <3>1. CASE scheduled
      BY Zenon, <1>5, <3>1 DEF Scheduling, FlagsOK
    <3>2. CASE ~scheduled
      BY Zenon, <1>5, <1>s, <3>2 DEF Scheduling
    <3> QED BY Zenon, <3>1, <3>2
  <2> QED BY Zenon, <2>1, <2>2 DEF FlagsOK
<1>6. ASSUME NEW c \in Callers, AddCommits(c) PROVE FlagsOK'
  <2>1. PICK p : p = [pc EXCEPT ![c] = "idle"]
    BY Zenon
  <2>2. p \in [Runners -> Places] /\ p["loop"] = pc["loop"]
    BY Zenon, <1>s, <2>1 DEF Places
  <2>3. Scheduling(p) \/ (pc' = p /\ UNCHANGED coalescer)
    BY Zenon, <1>6, <2>1 DEF AddCommits
  <2> QED BY Zenon, <1>0, <1>5, <2>2, <2>3
<1>7. ASSUME NEW t \in Torrents, MetadataResolves(t) \/ EngineFinal(t) \/ EngineIncomplete(t)
                                 \/ EngineCleanup(t) \/ RetryElapses(t)
      PROVE  FlagsOK'
  <2>1. Scheduling(pc) \/ (pc' = pc /\ UNCHANGED coalescer)
    BY Zenon, <1>7 DEF MetadataResolves, EngineFinal, EngineIncomplete, EngineCleanup, RetryElapses, passes
  <2> QED BY Zenon, <1>0, <1>5, <1>s, <2>1
<1> QED BY Zenon, <1>1, <1>2, <1>3, <1>4, <1>6, <1>7 DEF Event, Work, EngineEvent

\* The restored queue is rebuilt from its saved vectors, so it is exact.
LEMMA SchedulerStarts == Init => SchedulerInv
<1> SUFFICES ASSUME Init PROVE SchedulerInv
  BY Zenon
<1>1. PICK v : v = [new EXCEPT !.order = Restored, !.bypass = <<>>]
  BY Zenon
<1>2. v.order \in Seq(Torrents) /\ v.bypass \in Seq(Torrents)
  BY SMTT(20), <1>1, SchedulerAssumption DEF new
<1>3. Queue(rebuild_membership_sets(v), Torrents)
  BY Zenon, <1>2, Rebuilt
<1>4. Queue(queue, Torrents)
  BY Zenon, <1>1, <1>3 DEF Init, restored
<1>5. RegistryOK
  <2>1. \A t \in Torrents : (t \in Magnets) \in BOOLEAN
    OBVIOUS
  <2>2. needs_metadata \in [Torrents -> BOOLEAN]
    BY Zenon, <2>1 DEF Init
  <2> QED BY Zenon, <2>2 DEF Init, RegistryOK, States
<1>6. PassesOK
  BY DEF Init, PassesOK, Places
<1>7. SnapshotsOK
  BY Zenon DEF Init, SnapshotsOK, Runners
<1>8. FlagsOK
  BY Zenon DEF Init, FlagsOK, Runners
<1> QED BY Zenon, <1>4, <1>5, <1>6, <1>7, <1>8 DEF SchedulerInv

\* The invariant is inductive.
LEMMA SchedulerKept == SchedulerInv /\ [Next]_vars => SchedulerInv'
<1> SUFFICES ASSUME SchedulerInv, [Next]_vars PROVE SchedulerInv'
  BY Zenon
<1>1. CASE Event \/ Work
  <2>1. RegistryOK' /\ Queue(queue', Torrents)
    BY Zenon, <1>1, RegistryKept, QueueKept DEF SchedulerInv
  <2> QED BY Zenon, <1>1, <2>1, PassesKept, SnapshotsKept, FlagsKept DEF SchedulerInv
<1>2. CASE UNCHANGED vars
  <2>1. RegistryOK' /\ Queue(queue', Torrents) /\ FlagsOK'
    BY Zenon, <1>2 DEF vars, SchedulerInv, RegistryOK, FlagsOK
  <2>2. PassesOK' /\ SnapshotsOK'
    BY Zenon, <1>2 DEF vars, SchedulerInv, PassesOK, SnapshotsOK
  <2> QED BY Zenon, <2>1, <2>2 DEF SchedulerInv
<1> QED BY Zenon, <1>1, <1>2 DEF Next, Disturb, Event, Work

\* Whatever users, engines, passes and failed saves do, and in whatever order,
\* the vectors of the queue hold each torrent once and the caches say of them
\* exactly what is true (QueueState, queue.rs).
THEOREM QueueStaysExact == Spec => []QueueIsExact
<1>1. SchedulerInv => QueueIsExact
  <2> SUFFICES ASSUME SchedulerInv PROVE TypeOK /\ IndexAgrees
    BY Zenon DEF QueueIsExact
  <2>1. IndexAgrees
    BY Zenon DEF SchedulerInv, Queue, IndexAgrees
  <2>2. Range(queue.order) \cup Range(queue.bypass) \subseteq Torrents
    BY DEF SchedulerInv, Queue, Range
  <2>3. \A r \in Runners : /\ pc[r] \in Places
                           /\ Range(desired[r]) \cup Range(current[r]) \subseteq Torrents
    BY DEF SchedulerInv, PassesOK, Range
  <2> QED BY Zenon, <2>1, <2>2, <2>3 DEF SchedulerInv, TypeOK, RegistryOK, FlagsOK, States, Places
<1> QED BY <1>1, SchedulerStarts, SchedulerKept, PTL DEF Spec

\* At every moment the scan of desired_download_hashes, with its two counts
\* and its two ways to meet a torrent, gives each pool exactly its best-ranked
\* eligible torrents.
THEOREM PlanStaysBest == Spec => []PlanIsBest
<1>1. SchedulerInv => PlanIsBest
  <2> SUFFICES ASSUME SchedulerInv PROVE PlanIsBest
    BY Zenon
  <2>1. PICK q : q = queue
    BY Zenon
  <2>2. PICK z : z = Cleaned(q)
    BY Zenon
  <2>3. Queue(q, Torrents)
    BY Zenon, <2>1 DEF SchedulerInv
  <2>4. Queue(z, Torrents)
    <3>1. PICK keys : keys = (Range(q.order) \cup Range(q.bypass)) \ Registered
      BY Zenon
    <3>2. z = remove_many(q, keys)
      BY Zenon, <2>2, <3>1 DEF Cleaned
    <3> QED BY Zenon, <2>3, <3>2, RemovedMany
  <2>5. desired_download_hashes(z) = Best(z)
    BY Zenon, <2>4, ScanIsBest
  <2> QED BY Zenon, <2>1, <2>2, <2>5 DEF PlanIsBest
<1> QED BY <1>1, SchedulerStarts, SchedulerKept, PTL DEF Spec
=============================================================================
