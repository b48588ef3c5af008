------------------------- MODULE QueueStateProofs -------------------------
(***************************************************************************)
(* What the methods of QueueState do, for queues of any length.            *)
(*                                                                         *)
(* The methods read order_set, bypass_set and order_index without a check, *)
(* so that the next answer is right only if the last method left them      *)
(* exact.  Queue(q, T) says that they are, and each method is shown to     *)
(* keep it.  Sorted sequences are found and compared without induction     *)
(* over them: a member's place is the number of those before it, and where *)
(* two listings differ there is a first place where they do.               *)
(***************************************************************************)
EXTENDS QueueState, FiniteSetTheorems, TLAPS

-----------------------------------------------------------------------------
(*****************************************************************************)
(* Sorting: a finite ordered set can be listed in its order.                 *)
(*****************************************************************************)

\* A strict order that compares any two members of S.
Orders(R, S) ==
  /\ \A a, b \in S : a # b => <<a, b>> \in R \/ <<b, a>> \in R
  /\ \A a \in S : <<a, a>> \notin R
  /\ \A a, b, c \in S : <<a, b>> \in R /\ <<b, c>> \in R => <<a, c>> \in R

\* A finite set that is ordered can be listed in that order: the place of a
\* member is the number of those before it.
LEMMA SortExists ==
  ASSUME NEW S, IsFiniteSet(S), NEW R, Orders(R, S)
  PROVE  \E s \in Listings(S) : \A i, j \in DOMAIN s : i < j => <<s[i], s[j]>> \in R
<1> DEFINE n == Cardinality(S)
           Below(x) == {y \in S : <<y, x>> \in R}
           pos == [x \in S |-> Cardinality(Below(x)) + 1]
<1>0. n \in Nat
  BY Zenon, FS_CardinalityType
<1>1. \A x \in S : IsFiniteSet(Below(x)) /\ Cardinality(Below(x)) \in Nat /\ Cardinality(Below(x)) < n
  <2> SUFFICES ASSUME NEW x \in S
               PROVE  /\ IsFiniteSet(Below(x)) /\ Cardinality(Below(x)) \in Nat
                      /\ Cardinality(Below(x)) < n
    BY Zenon
  <2>1. Below(x) \in SUBSET S /\ Below(x) # S
    BY Zenon DEF Orders
  <2>2. /\ IsFiniteSet(Below(x)) /\ Cardinality(Below(x)) <= n
        /\ n = Cardinality(Below(x)) => S = Below(x)
    BY Zenon, <2>1, FS_Subset
  <2>3. Cardinality(Below(x)) \in Nat
    BY Zenon, <2>2, FS_CardinalityType
  <2> QED BY <1>0, <2>1, <2>2, <2>3
<1>2. \A x, y \in S : <<x, y>> \in R => pos[x] < pos[y]
  <2> SUFFICES ASSUME NEW x \in S, NEW y \in S, <<x, y>> \in R PROVE pos[x] < pos[y]
    BY Zenon
  <2>1. Below(x) \in SUBSET Below(y) /\ Below(x) # Below(y)
    BY Zenon DEF Orders
  <2>2. /\ Cardinality(Below(x)) <= Cardinality(Below(y))
        /\ Cardinality(Below(y)) = Cardinality(Below(x)) => Below(y) = Below(x)
    BY Zenon, <1>1, <2>1, FS_Subset
  <2>3. Cardinality(Below(x)) \in Nat /\ Cardinality(Below(y)) \in Nat
    BY Zenon, <1>1
  <2>4. Cardinality(Below(x)) < Cardinality(Below(y))
    BY <2>1, <2>2, <2>3
  <2>5. pos[x] = Cardinality(Below(x)) + 1 /\ pos[y] = Cardinality(Below(y)) + 1
    BY Zenon
  <2> HIDE DEF Below, pos
  <2> QED BY <2>3, <2>4, <2>5
<1>3. pos \in [S -> 1 .. n]
  <2>1. \A x \in S : Cardinality(Below(x)) + 1 \in 1 .. n
    BY SMTT(40), <1>0, <1>1
  <2> QED BY Zenon, <2>1
<1>4. \A x, y \in S : pos[x] = pos[y] => x = y
  <2> SUFFICES ASSUME NEW x \in S, NEW y \in S, pos[x] = pos[y], x # y PROVE FALSE
    BY Zenon
  <2>1. pos[x] < pos[y] \/ pos[y] < pos[x]
    BY Zenon, <1>2 DEF Orders
  <2> QED BY <1>3, <2>1
<1> HIDE DEF pos
<1>5. pos \in Injection(S, 1 .. n)
  BY Zenon, <1>3, <1>4 DEF Injection, IsInjective
<1>6. IsFiniteSet(1 .. n) /\ Cardinality(1 .. n) = n
  BY <1>0, FS_Interval
<1>7. pos \in Surjection(S, 1 .. n)
  BY Zenon, <1>5, <1>6, FS_Injection
<1>8. \A i \in 1 .. n : \E x \in S : pos[x] = i
  BY Zenon, <1>7 DEF Surjection
<1> DEFINE s == [i \in 1 .. n |-> CHOOSE x \in S : pos[x] = i]
<1>9. \A i \in 1 .. n : s[i] \in S /\ pos[s[i]] = i
  BY Zenon, <1>8
<1>10. s \in [1 .. n -> S] /\ DOMAIN s = 1 .. n
  BY Zenon, <1>9
<1> HIDE DEF s
<1>11. s \in Listings(S)
  BY <1>9, <1>10 DEF Listings, Injection, IsInjective
<1>12. ASSUME NEW i \in DOMAIN s, NEW j \in DOMAIN s, i < j PROVE <<s[i], s[j]>> \in R
  <2>1. s[i] \in S /\ s[j] \in S /\ pos[s[i]] < pos[s[j]] /\ pos[s[i]] \in Nat /\ pos[s[j]] \in Nat
    BY <1>0, <1>9, <1>10, <1>12
  <2>2. s[i] # s[j] /\ ~(pos[s[j]] < pos[s[i]])
    BY <2>1
  <2> QED BY Zenon, <1>2, <2>1, <2>2 DEF Orders
<1> QED BY Zenon, <1>11, <1>12

\* A listing has every member, each once.
LEMMA Listing ==
  ASSUME NEW S, IsFiniteSet(S), NEW s \in Listings(S)
  PROVE  /\ s \in Seq(S) /\ Len(s) = Cardinality(S) /\ DOMAIN s = 1 .. Cardinality(S)
         /\ Cardinality(S) \in Nat
         /\ IsInjective(s) /\ Range(s) = S
<1>0. Cardinality(S) \in Nat
  BY Zenon, FS_CardinalityType
<1>1. s \in [1 .. Cardinality(S) -> S] /\ IsInjective(s)
  BY Zenon DEF Listings, Injection
<1>2. s \in Surjection(1 .. Cardinality(S), S)
  <2>1. s \in Injection(1 .. Cardinality(S), S)
    BY Zenon, <1>1 DEF Injection
  <2>2. Cardinality(1 .. Cardinality(S)) = Cardinality(S)
    BY <1>0, FS_Interval
  <2> QED BY Zenon, <2>1, <2>2, FS_Injection
<1>3. Range(s) = S
  BY Zenon, <1>1, <1>2 DEF Surjection, Range
<1> QED BY <1>0, <1>1, <1>3

\* A finite set of numbers can be sorted.
LEMMA Increasing ==
  ASSUME NEW I, IsFiniteSet(I), I \subseteq Nat
  PROVE  LET p == Ascending(I)
         IN  p \in Listings(I) /\ \A i, j \in DOMAIN p : i < j => p[i] < p[j]
<1> DEFINE R == {x \in I \X I : x[1] < x[2]}
<1>1. \A a, b \in I : <<a, b>> \in R <=> a < b
  BY Zenon
<1> HIDE DEF R
<1>2. Orders(R, I)
  BY <1>1 DEF Orders
<1>3. PICK s \in Listings(I) : \A i, j \in DOMAIN s : i < j => <<s[i], s[j]>> \in R
  BY Zenon, <1>2, SortExists
<1>4. \A i \in DOMAIN s : s[i] \in I
  BY Listing
<1>5. \A i, j \in DOMAIN s : i < j => s[i] < s[j]
  BY Zenon, <1>1, <1>3, <1>4
<1> QED BY Zenon, <1>5 DEF Ascending, SortedSeq

\* What is picked from a sequence.
LEMMA Picking ==
  ASSUME NEW T, NEW s \in Seq(T), NEW I \in SUBSET DOMAIN s
  PROVE  /\ Picked(s, I) \in Seq(T) /\ Range(Picked(s, I)) = {s[i] : i \in I}
         /\ (\A i, j \in I : s[i] = s[j] => i = j) => IsInjective(Picked(s, I))
<1> DEFINE p == Ascending(I)
<1>1. IsFiniteSet(I) /\ I \subseteq Nat
  <2>1. IsFiniteSet(DOMAIN s) /\ DOMAIN s \subseteq Nat
    BY FS_Interval
  <2> QED BY Zenon, <2>1, FS_Subset
<1>2. p \in Listings(I)
  BY Zenon, <1>1, Increasing
<1> HIDE DEF p
<1>3. p \in Seq(I) /\ IsInjective(p) /\ Range(p) = I /\ DOMAIN p = 1 .. Len(p) /\ Len(p) \in Nat
  BY Zenon, <1>1, <1>2, Listing
<1>4. Picked(s, I) = [k \in DOMAIN p |-> s[p[k]]]
  BY Zenon DEF Picked, p
<1>5. \A k \in DOMAIN p : p[k] \in I /\ s[p[k]] \in T
  BY <1>3
<1>6. Picked(s, I) \in Seq(T)
  BY <1>3, <1>4, <1>5
<1>7. Range(Picked(s, I)) = {s[i] : i \in I}
  <2>1. \A i \in I : \E k \in DOMAIN p : p[k] = i
    BY Zenon, <1>3 DEF Range
  <2> QED BY <1>4, <1>5, <2>1 DEF Range
<1>8. ASSUME \A i, j \in I : s[i] = s[j] => i = j PROVE IsInjective(Picked(s, I))
  BY <1>3, <1>4, <1>5, <1>8 DEF IsInjective
<1> QED BY Zenon, <1>6, <1>7, <1>8

-----------------------------------------------------------------------------
(*****************************************************************************)
(* Sequences without repetitions, and what rebuilding the caches does.       *)
(*****************************************************************************)

\* Every nonempty set of numbers has a least one.
LEMMA Least ==
  ASSUME NEW T, T \subseteq Nat, T # {}
  PROVE  \E n \in T : \A m \in T : n <= m
<1>1. PICK n \in T : \A m \in T : ~(<<m, n>> \in OpToRel(<, Nat))
  BY NatLessThanWellFounded, WFMin, Zenon
<1>2. \A m \in T : ~(m < n)
  BY Zenon, <1>1 DEF OpToRel
<1> QED BY <1>2

\* Taking repetitions out of a sequence.
LEMMA OnceIs ==
  ASSUME NEW T, NEW s \in Seq(T)
  PROVE  Once(s) \in Seq(T) /\ Range(Once(s)) = Range(s) /\ IsInjective(Once(s))
<1> DEFINE I == {i \in DOMAIN s : \A j \in DOMAIN s : j < i => s[j] # s[i]}
<1>0. DOMAIN s \subseteq Nat
  OBVIOUS
<1>1. I \in SUBSET DOMAIN s /\ Once(s) = Picked(s, I)
  BY Zenon DEF Once
<1>2. \A i, j \in I : s[i] = s[j] => i = j
  BY <1>0
<1>3. ASSUME NEW i \in DOMAIN s PROVE \E j \in I : s[j] = s[i]
  <2> DEFINE J == {j \in DOMAIN s : s[j] = s[i]}
  <2>1. PICK j \in J : \A m \in J : j <= m
    BY Zenon, <1>0, Least
  <2>2. \A m \in DOMAIN s : m < j => m \notin J
    BY <1>0, <2>1
  <2> QED BY Zenon, <2>1, <2>2
<1>4. {s[i] : i \in I} = Range(s)
  BY <1>3 DEF Range
<1> HIDE DEF I
<1>5. /\ Picked(s, I) \in Seq(T) /\ Range(Picked(s, I)) = {s[i] : i \in I}
      /\ IsInjective(Picked(s, I))
  BY <1>1, <1>2, Picking
<1> QED BY Zenon, <1>1, <1>4, <1>5

\* Taking the members of a set out of it.
LEMMA WithoutIs ==
  ASSUME NEW T, NEW s \in Seq(T), NEW S
  PROVE  /\ Without(s, S) \in Seq(T) /\ Range(Without(s, S)) = Range(s) \ S
         /\ IsInjective(s) => IsInjective(Without(s, S))
<1> DEFINE I == {i \in DOMAIN s : s[i] \notin S}
<1>1. I \in SUBSET DOMAIN s /\ Without(s, S) = Picked(s, I)
  BY Zenon DEF Without
<1>2. IsInjective(s) => \A i, j \in I : s[i] = s[j] => i = j
  BY Zenon DEF IsInjective
<1>3. {s[i] : i \in I} = Range(s) \ S
  BY Zenon DEF Range
<1> HIDE DEF I
<1> QED BY <1>1, <1>2, <1>3, Picking

\* What was taken out.
LEMMA ThoseIs ==
  ASSUME NEW T, NEW s \in Seq(T), NEW S
  PROVE  Those(s, S) \in Seq(T) /\ Range(Those(s, S)) = Range(s) \cap S
<1> DEFINE I == {i \in DOMAIN s : s[i] \in S}
<1>1. I \in SUBSET DOMAIN s /\ Those(s, S) = Picked(s, I)
  BY Zenon DEF Those
<1>2. {s[i] : i \in I} = Range(s) \cap S
  BY Zenon DEF Range
<1> HIDE DEF I
<1> QED BY Zenon, <1>1, <1>2, Picking

\* Sequences next to each other.
LEMMA Joined ==
  ASSUME NEW T, NEW s \in Seq(T), NEW r \in Seq(T)
  PROVE  /\ s \o r \in Seq(T) /\ Range(s \o r) = Range(s) \cup Range(r)
         /\ IsInjective(s) /\ IsInjective(r) /\ Range(s) \cap Range(r) = {} => IsInjective(s \o r)
<1> DEFINE w == s \o r
<1>1. /\ w \in Seq(T) /\ Len(w) = Len(s) + Len(r) /\ Len(s) \in Nat /\ Len(r) \in Nat
      /\ DOMAIN w = 1 .. Len(s) + Len(r) /\ DOMAIN s = 1 .. Len(s) /\ DOMAIN r = 1 .. Len(r)
  OBVIOUS
<1>2. \A i \in DOMAIN s : i \in DOMAIN w /\ w[i] = s[i]
  OBVIOUS
<1>3. \A i \in DOMAIN r : Len(s) + i \in DOMAIN w /\ w[Len(s) + i] = r[i]
  OBVIOUS
<1> HIDE DEF w
<1>4. \A i \in DOMAIN w : i \in DOMAIN s \/ \E k \in DOMAIN r : i = Len(s) + k
  <2> SUFFICES ASSUME NEW i \in DOMAIN w, i \notin DOMAIN s PROVE \E k \in DOMAIN r : i = Len(s) + k
    BY Zenon
  <2>1. i - Len(s) \in DOMAIN r /\ i = Len(s) + (i - Len(s))
    BY <1>1
  <2> QED BY Zenon, <2>1
<1>5. Range(w) = Range(s) \cup Range(r)
  BY <1>2, <1>3, <1>4 DEF Range
<1>6. ASSUME IsInjective(s), IsInjective(r), Range(s) \cap Range(r) = {}
      PROVE  IsInjective(w)
  <2> SUFFICES ASSUME NEW i \in DOMAIN w, NEW j \in DOMAIN w, w[i] = w[j] PROVE i = j
    BY Zenon DEF IsInjective
  <2>1. CASE i \in DOMAIN s /\ j \in DOMAIN s
    BY Zenon, <1>2, <1>6, <2>1 DEF IsInjective
  <2>2. ASSUME NEW k \in DOMAIN r, i = Len(s) + k, NEW m \in DOMAIN r, j = Len(s) + m PROVE i = j
    BY Zenon, <1>3, <1>6, <2>2 DEF IsInjective
  <2>3. ASSUME i \in DOMAIN s, NEW m \in DOMAIN r, j = Len(s) + m PROVE FALSE
    BY Zenon, <1>2, <1>3, <1>6, <2>3 DEF Range
  <2>4. ASSUME j \in DOMAIN s, NEW m \in DOMAIN r, i = Len(s) + m PROVE FALSE
    BY Zenon, <1>2, <1>3, <1>6, <2>4 DEF Range
  <2> QED BY Zenon, <1>4, <2>1, <2>2, <2>3, <2>4
<1> QED BY Zenon, <1>1, <1>5, <1>6 DEF w

-----------------------------------------------------------------------------
\* A queue of members of T whose caches are exact.
Shape(q) == q = [order |-> q.order, bypass |-> q.bypass, order_set |-> q.order_set,
                 bypass_set |-> q.bypass_set, order_index |-> q.order_index]
Queue(q, T) == Shape(q) /\ q.order \in Seq(T) /\ q.bypass \in Seq(T) /\ Exact(q)

\* A rebuilt queue is exact, whatever its caches were.
LEMMA Rebuilt ==
  ASSUME NEW T, NEW q, q.order \in Seq(T), q.bypass \in Seq(T)
  PROVE  /\ Queue(rebuild_membership_sets(q), T)
         /\ Range(rebuild_membership_sets(q).order) = Range(q.order)
         /\ Range(rebuild_membership_sets(q).bypass) = Range(q.bypass)
<1> DEFINE o == Once(q.order)
           b == Once(q.bypass)
           r == rebuild_membership_sets(q)
<1>1. r = [order |-> o, bypass |-> b,
           order_set |-> Range(o), bypass_set |-> Range(b), order_index |-> Positions(o)]
  BY Zenon DEF rebuild_membership_sets
<1>2. /\ o \in Seq(T) /\ Range(o) = Range(q.order) /\ IsInjective(o)
      /\ b \in Seq(T) /\ Range(b) = Range(q.bypass) /\ IsInjective(b)
  BY Zenon, OnceIs
<1> HIDE DEF o, b, r
<1>3. /\ r.order = o /\ r.bypass = b /\ r.order_set = Range(o) /\ r.bypass_set = Range(b)
      /\ r.order_index = Positions(o) /\ Shape(r)
  BY Zenon, <1>1 DEF Shape
<1> QED BY Zenon, <1>2, <1>3 DEF Queue, Exact, r

\* An exact queue stays so when the caches are looked at.
LEMMA Synced ==
  ASSUME NEW T, NEW q, Queue(q, T)
  PROVE  /\ Queue(sync_membership_sets(q), T)
         /\ Range(sync_membership_sets(q).order) = Range(q.order)
         /\ Range(sync_membership_sets(q).bypass) = Range(q.bypass)
  BY Zenon, Rebuilt DEF sync_membership_sets, Queue

\* The same for a lookup.
LEMMA LookedUp ==
  ASSUME NEW T, NEW q, Queue(q, T), NEW k
  PROVE  /\ Queue(Looked(q, k), T)
         /\ Range(Looked(q, k).order) = Range(q.order)
         /\ Range(Looked(q, k).bypass) = Range(q.bypass)
<1>1. PICK s : s = sync_membership_sets(q)
  BY Zenon
<1>2. Queue(s, T) /\ Range(s.order) = Range(q.order) /\ Range(s.bypass) = Range(q.bypass)
  BY Zenon, <1>1, Synced
<1>3. /\ Queue(rebuild_membership_sets(s), T)
      /\ Range(rebuild_membership_sets(s).order) = Range(q.order)
      /\ Range(rebuild_membership_sets(s).bypass) = Range(q.bypass)
  BY Zenon, <1>2, Rebuilt DEF Queue
<1>4. Looked(q, k) \in {s, rebuild_membership_sets(s)}
  BY Zenon, <1>1 DEF Looked
<1> QED BY Zenon, <1>2, <1>3, <1>4

\* A list of some is a list of all.
LEMMA Wider ==
  ASSUME NEW T, NEW S, S \subseteq T, NEW s \in Seq(S)
  PROVE  s \in Seq(T)
<1>1. Len(s) \in Nat /\ s \in [1 .. Len(s) -> S]
  OBVIOUS
<1>2. \A i \in 1 .. Len(s) : s[i] \in T
  BY Zenon, <1>1
<1>4. s \in [1 .. Len(s) -> T]
  BY Zenon, <1>1, <1>2
<1> QED BY <1>1, <1>4

\* What is left of a list.
LEMMA TailIs ==
  ASSUME NEW T, NEW s \in Seq(T), s # <<>>
  PROVE  Tail(s) \in Seq(T)
  OBVIOUS

-----------------------------------------------------------------------------
(*****************************************************************************)
(* Every method keeps the caches exact.                                      *)
(*****************************************************************************)

\* The index of a duplicate-free sequence, and how to recognise it.
LEMMA PositionsAre ==
  ASSUME NEW s, IsInjective(s)
  PROVE  /\ DOMAIN Positions(s) = Range(s)
         /\ \A i \in DOMAIN s : s[i] \in Range(s) /\ Positions(s)[s[i]] = i
         /\ \A f : f = [k \in Range(s) |-> f[k]] /\ (\A i \in DOMAIN s : f[s[i]] = i)
                     => f = Positions(s)
<1>1. Positions(s) = [k \in Range(s) |-> CHOOSE i \in DOMAIN s : s[i] = k]
  BY Zenon DEF Positions
<1>2. ASSUME NEW i \in DOMAIN s
      PROVE  s[i] \in Range(s) /\ (CHOOSE j \in DOMAIN s : s[j] = s[i]) = i
  BY Zenon DEF Range, IsInjective
<1>3. \A i \in DOMAIN s : s[i] \in Range(s) /\ Positions(s)[s[i]] = i
  BY Zenon, <1>1, <1>2
<1>4. ASSUME NEW f, f = [k \in Range(s) |-> f[k]], \A i \in DOMAIN s : f[s[i]] = i
      PROVE  f = Positions(s)
  <2>1. \A k \in Range(s) : f[k] = Positions(s)[k]
    BY <1>3, <1>4 DEF Range
  <2> QED BY ZenonT(40), <1>1, <1>4, <2>1
<1> QED BY Zenon, <1>1, <1>3, <1>4

\* New keys at the end.
LEMMA AppendedIs ==
  ASSUME NEW T, NEW q, Queue(q, T), NEW keys \in Seq(T), IsInjective(keys),
         Range(keys) \cap Range(q.order) = {}
  PROVE  Queue(Appended(q, keys), T)
<1> DEFINE a == Appended(q, keys)
           o == q.order
           w == o \o keys
<1>1. /\ Shape(q) /\ o \in Seq(T) /\ q.bypass \in Seq(T) /\ IsInjective(o) /\ IsInjective(q.bypass)
      /\ q.order_set = Range(o) /\ q.bypass_set = Range(q.bypass)
      /\ q.order_index = Positions(o)
  BY Zenon DEF Queue, Exact
<1> DEFINE f == [k \in DOMAIN Positions(o) \cup Range(keys) |->
                   IF k \in Range(keys) THEN Len(o) + Positions(keys)[k] ELSE Positions(o)[k]]
<1>2. /\ Shape(a) /\ a.order = w /\ a.bypass = q.bypass
      /\ a.order_set = Range(o) \cup Range(keys) /\ a.bypass_set = Range(q.bypass)
      /\ a.order_index = f
  <2>1. a = [q EXCEPT !.order = w, !.order_set = Range(o) \cup Range(keys), !.order_index = f]
    BY Zenon, <1>1 DEF Appended
  <2> HIDE DEF a, o, w, f
  <2>2. /\ Shape(a) /\ a.order = w /\ a.bypass = q.bypass
        /\ a.order_set = Range(o) \cup Range(keys) /\ a.bypass_set = q.bypass_set
        /\ a.order_index = f
    BY Zenon, <1>1, <2>1 DEF Shape
  <2> QED BY Zenon, <1>1, <2>2
<1> HIDE DEF a
<1>3. w \in Seq(T) /\ Range(w) = Range(o) \cup Range(keys) /\ IsInjective(w)
  BY <1>1, Joined
<1>4. f = [k \in Range(w) |-> f[k]]
  BY Zenon, <1>1, <1>3, PositionsAre
<1>5. ASSUME NEW i \in DOMAIN w PROVE f[w[i]] = i
  <2>1. CASE i \in DOMAIN o
    <3>1. w[i] = o[i] /\ w[i] \in Range(o) /\ w[i] \notin Range(keys) /\ Positions(o)[o[i]] = i
      BY <1>1, <2>1, PositionsAre
    <3> QED BY <1>1, <3>1, PositionsAre
  <2>2. CASE i \notin DOMAIN o
    <3>1. PICK n \in DOMAIN keys : i = Len(o) + n /\ w[i] = keys[n]
      <4>1. i - Len(o) \in DOMAIN keys /\ i = Len(o) + (i - Len(o)) /\ w[i] = keys[i - Len(o)]
        BY <1>1, <2>2
      <4> QED BY Zenon, <4>1
    <3>2. keys[n] \in Range(keys) /\ Positions(keys)[keys[n]] = n
      BY Zenon, PositionsAre
    <3> QED BY Zenon, <3>1, <3>2
  <2> QED BY Zenon, <2>1, <2>2
<1> HIDE DEF f, w
<1>6. f = Positions(w)
  BY Zenon, <1>3, <1>4, <1>5, PositionsAre
<1> QED BY Zenon, <1>1, <1>2, <1>3, <1>6 DEF Queue, Exact, a

\* Additions, of new keys or of keys that are there.
LEMMA AddedMany ==
  ASSUME NEW T, NEW q, Queue(q, T), NEW keys \in Seq(T)
  PROVE  Queue(add_many(q, keys), T)
<1>1. PICK s : s = sync_membership_sets(q)
  BY Zenon
<1>2. Queue(s, T)
  BY Zenon, <1>1, Synced
<1>3. PICK new1 : new1 = Without(keys, s.order_set)
  BY Zenon
<1>4. new1 \in Seq(T) /\ Range(new1) \cap s.order_set = {}
  BY <1>3, WithoutIs
<1>5. PICK fresh : fresh = Once(new1)
  BY Zenon
<1>6. fresh \in Seq(T) /\ IsInjective(fresh) /\ Range(fresh) \cap Range(s.order) = {}
  BY Zenon, <1>2, <1>4, <1>5, OnceIs DEF Queue, Exact
<1>7. add_many(q, keys) = Appended(s, fresh)
  BY Zenon, <1>1, <1>3, <1>5 DEF add_many
<1> QED BY Zenon, <1>2, <1>6, <1>7, AppendedIs

\* One addition.
LEMMA AddedOne ==
  ASSUME NEW T, NEW q, Queue(q, T), NEW k \in T
  PROVE  Queue(add(q, k), T)
<1>1. <<k>> \in Seq(T)
  OBVIOUS
<1> QED BY Zenon, <1>1, AddedMany DEF add

\* A queue with other vectors is exact once it is rebuilt.
LEMMA Reordered ==
  ASSUME NEW T, NEW q, Queue(q, T), NEW o \in Seq(T), NEW b \in Seq(T)
  PROVE  /\ Queue(rebuild_membership_sets([q EXCEPT !.order = o, !.bypass = b]), T)
         /\ Queue(rebuild_membership_sets([q EXCEPT !.order = o]), T)
<1>1. PICK r : r = [q EXCEPT !.order = o, !.bypass = b]
  BY Zenon
<1>2. r.order = o /\ r.bypass = b
  BY Zenon, <1>1 DEF Queue, Shape
<1>3. PICK u : u = [q EXCEPT !.order = o]
  BY Zenon
<1>4. u.order = o /\ u.bypass \in Seq(T)
  BY Zenon, <1>3 DEF Queue, Shape
<1> QED BY Zenon, <1>1, <1>2, <1>3, <1>4, Rebuilt

\* Removals.
LEMMA RemovedMany ==
  ASSUME NEW T, NEW q, Queue(q, T), NEW keys
  PROVE  Queue(remove_many(q, keys), T)
<1>1. PICK s : s = sync_membership_sets(q)
  BY Zenon
<1>2. Queue(s, T) /\ s.order \in Seq(T) /\ s.bypass \in Seq(T)
  BY Zenon, <1>1, Synced DEF Queue
<1>3. Without(s.order, keys) \in Seq(T) /\ Without(s.bypass, keys) \in Seq(T)
  BY Zenon, <1>2, WithoutIs
<1> QED BY Zenon, <1>1, <1>2, <1>3, Reordered DEF remove_many

\* Several keys to the end.
LEMMA MovedManyDown ==
  ASSUME NEW T, NEW q, Queue(q, T), NEW keys
  PROVE  Queue(move_many_to_bottom(q, keys), T)
<1>1. PICK s : s = sync_membership_sets(q)
  BY Zenon
<1>2. Queue(s, T) /\ s.order \in Seq(T) /\ s.bypass \in Seq(T)
  BY Zenon, <1>1, Synced DEF Queue
<1>3. Without(s.order, keys) \o Those(s.order, keys) \in Seq(T)
  BY <1>2, WithoutIs, ThoseIs
<1> QED BY Zenon, <1>1, <1>2, <1>3, Reordered DEF move_many_to_bottom

\* Two places exchanged, with their entries in the index.
LEMMA Swapped ==
  ASSUME NEW T, NEW q, Queue(q, T), NEW i \in DOMAIN q.order, NEW j \in DOMAIN q.order, i # j
  PROVE  Queue(Swap(q, i, j), T)
<1> DEFINE a == Swap(q, i, j)
           o == q.order
           w == [o EXCEPT ![i] = o[j], ![j] = o[i]]
           f == [Positions(o) EXCEPT ![o[j]] = i, ![o[i]] = j]
<1>1. /\ Shape(q) /\ o \in Seq(T) /\ q.bypass \in Seq(T) /\ IsInjective(o) /\ IsInjective(q.bypass)
      /\ q.order_set = Range(o) /\ q.bypass_set = Range(q.bypass)
      /\ q.order_index = Positions(o)
  BY Zenon DEF Queue, Exact
<1>2. /\ Shape(a) /\ a.order = w /\ a.bypass = q.bypass
      /\ a.order_set = Range(o) /\ a.bypass_set = Range(q.bypass) /\ a.order_index = f
  <2>1. a = [q EXCEPT !.order = w, !.order_index = f]
    BY Zenon, <1>1 DEF Swap
  <2> HIDE DEF a, o, w, f
  <2>2. /\ Shape(a) /\ a.order = w /\ a.bypass = q.bypass
        /\ a.order_set = q.order_set /\ a.bypass_set = q.bypass_set /\ a.order_index = f
    BY Zenon, <1>1, <2>1 DEF Shape
  <2> QED BY Zenon, <1>1, <2>2
<1> HIDE DEF a
<1>3. /\ w \in Seq(T) /\ DOMAIN w = DOMAIN o
      /\ \A n \in DOMAIN o : w[n] = IF n = j THEN o[i] ELSE IF n = i THEN o[j] ELSE o[n]
  BY <1>1
<1>4. IsInjective(w) /\ Range(w) = Range(o)
  <2> HIDE DEF w
  <2>1. IsInjective(w)
    BY Zenon, <1>1, <1>3 DEF IsInjective
  <2>2. Range(w) = Range(o)
    BY Zenon, <1>3 DEF Range
  <2> QED BY Zenon, <2>1, <2>2
<1>5. /\ DOMAIN Positions(o) = Range(o)
      /\ \A n \in DOMAIN o : o[n] \in Range(o) /\ Positions(o)[o[n]] = n
      /\ Positions(o) = [k \in Range(o) |-> Positions(o)[k]]
  BY Zenon, <1>1, PositionsAre DEF Positions
<1>6. /\ f = [k \in Range(w) |-> f[k]]
      /\ \A k \in Range(o) : f[k] = IF k = o[i] THEN j ELSE IF k = o[j] THEN i ELSE Positions(o)[k]
  BY Zenon, <1>4, <1>5
<1>7. ASSUME NEW n \in DOMAIN w PROVE f[w[n]] = n
  <2> HIDE DEF w, f
  <2>1. o[i] # o[j] /\ \A m \in DOMAIN o : (o[m] = o[i] => m = i) /\ (o[m] = o[j] => m = j)
    BY Zenon, <1>1 DEF IsInjective
  <2> QED BY ZenonT(40), <1>3, <1>5, <1>6, <2>1
<1> HIDE DEF f, w
<1>8. f = Positions(w)
  BY <1>4, <1>6, <1>7, PositionsAre
<1> QED BY Zenon, <1>1, <1>2, <1>3, <1>4, <1>8 DEF Queue, Exact, a

\* A sequence without one place.
LEMMA Shortened ==
  ASSUME NEW T, NEW s \in Seq(T), NEW i \in DOMAIN s
  PROVE  Shorter(s, i) \in Seq(T)
  BY DEF Shorter

\* The four moves of one key.
LEMMA Moved ==
  ASSUME NEW T, NEW q, Queue(q, T), NEW k \in T, NEW r \in Moves(q, k)
  PROVE  Queue(r, T)
<1>1. PICK s : s = Looked(q, k)
  BY Zenon
<1>2. Queue(s, T) /\ s.order \in Seq(T) /\ s.bypass \in Seq(T)
  BY Zenon, <1>1, LookedUp DEF Queue
<1>3. CASE k \notin DOMAIN s.order_index
  BY Zenon, <1>1, <1>2, <1>3 DEF Moves, move_up, move_down, move_to_top, move_to_bottom
<1>4. CASE k \in DOMAIN s.order_index
  <2>1. PICK i : i = s.order_index[k]
    BY Zenon
  <2>2. i \in DOMAIN s.order /\ DOMAIN s.order = 1 .. Len(s.order) /\ Len(s.order) \in Nat
    <3>1. k \in Range(s.order) /\ s.order_index = Positions(s.order) /\ IsInjective(s.order)
      BY <1>2, <1>4, PositionsAre DEF Queue, Exact
    <3>2. PICK n \in DOMAIN s.order : s.order[n] = k
      BY Zenon, <3>1 DEF Range
    <3>3. i = n
      BY Zenon, <2>1, <3>1, <3>2, PositionsAre
    <3> QED BY <1>2, <3>2, <3>3
  <2>3. i > 1 => Queue(Swap(s, i, i - 1), T)
    <3>1. i > 1 => i - 1 \in DOMAIN s.order /\ i # i - 1
      BY <2>2
    <3> QED BY Zenon, <1>2, <2>2, <3>1, Swapped
  <2>4. i < Len(s.order) => Queue(Swap(s, i, i + 1), T)
    <3>1. i < Len(s.order) => i + 1 \in DOMAIN s.order /\ i # i + 1
      BY <2>2
    <3> QED BY Zenon, <1>2, <2>2, <3>1, Swapped
  <2>5. PICK rest \in Seq(T) : rest = Shorter(s.order, i)
    BY Zenon, <1>2, <2>2, Shortened
  <2>6. <<k>> \o rest \in Seq(T) /\ Append(rest, k) \in Seq(T)
    OBVIOUS
  <2>7. /\ Queue(rebuild_membership_sets([s EXCEPT !.order = <<k>> \o rest]), T)
        /\ Queue(rebuild_membership_sets([s EXCEPT !.order = Append(rest, k)]), T)
    BY Zenon, <1>2, <2>6, Reordered
  <2>8. /\ move_up(q, k) = IF i > 1 THEN Swap(s, i, i - 1) ELSE s
        /\ move_down(q, k) = IF i < Len(s.order) THEN Swap(s, i, i + 1) ELSE s
        /\ move_to_top(q, k) = rebuild_membership_sets([s EXCEPT !.order = <<k>> \o rest])
        /\ move_to_bottom(q, k) = rebuild_membership_sets([s EXCEPT !.order = Append(rest, k)])
    BY Zenon, <1>1, <1>4, <2>1, <2>5 DEF move_up, move_down, move_to_top, move_to_bottom
  <2> QED BY Zenon, <1>2, <2>3, <2>4, <2>7, <2>8 DEF Moves
<1> QED BY Zenon, <1>3, <1>4

\* Bypassing the queue, and no longer.
LEMMA Bypassed ==
  ASSUME NEW T, NEW q, Queue(q, T), NEW k \in T
  PROVE  Queue(bypass_queue(q, k), T)
<1>1. PICK s : s = sync_membership_sets(q)
  BY Zenon
<1>2. Queue(s, T) /\ s.bypass \in Seq(T) /\ IsInjective(s.bypass) /\ s.bypass_set = Range(s.bypass)
  BY Zenon, <1>1, Synced DEF Queue, Exact
<1>3. CASE k \in s.bypass_set
  BY Zenon, <1>1, <1>2, <1>3 DEF bypass_queue
<1>4. CASE k \notin s.bypass_set
  <2>1. PICK b : b = Append(s.bypass, k)
    BY Zenon
  <2>2. b \in Seq(T) /\ IsInjective(b) /\ Range(b) = s.bypass_set \cup {k}
    <3>1. /\ b \in Seq(T) /\ Len(b) = Len(s.bypass) + 1 /\ b[Len(b)] = k
          /\ \A n \in DOMAIN s.bypass : b[n] = s.bypass[n]
          /\ DOMAIN b = 1 .. Len(b) /\ DOMAIN s.bypass = 1 .. Len(s.bypass)
          /\ Len(s.bypass) \in Nat
      BY <1>2, <2>1
    <3>2. DOMAIN b = DOMAIN s.bypass \cup {Len(b)}
      BY <3>1
    <3>3. \A n \in DOMAIN s.bypass : s.bypass[n] # k
      BY Zenon, <1>2, <1>4 DEF Range
    <3> QED BY SMTT(40), <1>2, <3>1, <3>2, <3>3 DEF Range, IsInjective
  <2>3. PICK r : r = [s EXCEPT !.bypass = b, !.bypass_set = @ \cup {k}]
    BY Zenon
  <2>4. bypass_queue(q, k) = r
    BY Zenon, <1>1, <1>4, <2>1, <2>3 DEF bypass_queue
  <2>5. /\ Shape(r) /\ r.order = s.order /\ r.bypass = b /\ r.order_set = s.order_set
        /\ r.bypass_set = s.bypass_set \cup {k} /\ r.order_index = s.order_index
    BY Zenon, <1>2, <2>3 DEF Queue, Shape
  <2> QED BY Zenon, <1>2, <2>2, <2>4, <2>5 DEF Queue, Exact
<1> QED BY Zenon, <1>3, <1>4

\* The end of a bypass.
LEMMA Cleared ==
  ASSUME NEW T, NEW q, Queue(q, T), NEW keys
  PROVE  Queue(clear_bypass_many(q, keys), T)
<1>1. PICK s : s = sync_membership_sets(q)
  BY Zenon
<1>2. Queue(s, T) /\ s.bypass \in Seq(T) /\ IsInjective(s.bypass) /\ s.bypass_set = Range(s.bypass)
  BY Zenon, <1>1, Synced DEF Queue, Exact
<1>3. PICK b : b = Without(s.bypass, keys)
  BY Zenon
<1>4. b \in Seq(T) /\ IsInjective(b) /\ Range(b) = Range(s.bypass) \ keys
  BY <1>2, <1>3, WithoutIs
<1>5. PICK r : r = [s EXCEPT !.bypass = b, !.bypass_set = @ \ keys]
  BY Zenon
<1>6. clear_bypass_many(q, keys) = r
  BY Zenon, <1>1, <1>3, <1>5 DEF clear_bypass_many
<1>7. /\ Shape(r) /\ r.order = s.order /\ r.bypass = b /\ r.order_set = s.order_set
      /\ r.bypass_set = s.bypass_set \ keys /\ r.order_index = s.order_index
  BY Zenon, <1>2, <1>5 DEF Queue, Shape
<1> QED BY Zenon, <1>2, <1>4, <1>6, <1>7 DEF Queue, Exact

\* A failed addition: the key goes back to where it was.
LEMMA RestoredTo ==
  ASSUME NEW T, NEW q, Queue(q, T), NEW k \in T, NEW m,
         m.order_index \in Nat, m.bypass_index \in Nat
  PROVE  Queue(restore_membership(q, k, m), T)
<1>1. ASSUME NEW s \in Seq(T), NEW i \in Nat PROVE PutBack(s, i, k) \in Seq(T)
  BY DEF PutBack
<1>2. q.order \in Seq(T) /\ q.bypass \in Seq(T)
  BY Zenon DEF Queue
<1>3. PICK o : o = PutBack(Without(q.order, {k}), m.order_index, k)
  BY Zenon
<1>4. PICK b : b = PutBack(Without(q.bypass, {k}), m.bypass_index, k)
  BY Zenon
<1>5. o \in Seq(T) /\ b \in Seq(T)
  BY Zenon, <1>1, <1>2, <1>3, <1>4, WithoutIs
<1>6. restore_membership(q, k, m) = rebuild_membership_sets([q EXCEPT !.order = o, !.bypass = b])
  BY Zenon, <1>3, <1>4 DEF restore_membership, Queue, Shape
<1> QED BY Zenon, <1>5, <1>6, Reordered

\* Where a key is, if anywhere.
LEMMA SnapshotIs ==
  ASSUME NEW T, NEW q, Queue(q, T), NEW k
  PROVE  /\ membership_snapshot(q, k).order_index \in Nat
         /\ membership_snapshot(q, k).bypass_index \in Nat
<1>1. ASSUME NEW s \in Seq(T) PROVE Position(s, k) \in Nat
  <2> DEFINE I == {i \in DOMAIN s : s[i] = k}
  <2>0. I \subseteq Nat /\ Position(s, k) = IF I = {} THEN 0 ELSE Min(I)
    BY DEF Position
  <2> HIDE DEF I
  <2>1. I # {} => \E n \in I : \A m \in I : n <= m
    BY Zenon, <2>0, Least
  <2>2. I # {} => Min(I) \in I
    BY Zenon, <2>1 DEF Min
  <2>3. CASE I = {}
    BY <2>0, <2>3
  <2>4. CASE I # {}
    BY Zenon, <2>0, <2>2, <2>4
  <2> QED BY Zenon, <2>3, <2>4
<1> QED BY Zenon, <1>1 DEF membership_snapshot, Queue

\* The place of a member.
LEMMA PlaceOf ==
  ASSUME NEW T, NEW s \in Seq(T), IsInjective(s), NEW k \in Range(s)
  PROVE  Positions(s)[k] \in DOMAIN s /\ Positions(s)[k] \in Nat /\ s[Positions(s)[k]] = k
<1>1. PICK i \in DOMAIN s : s[i] = k
  BY Zenon DEF Range
<1>2. Positions(s)[k] = i
  BY Zenon, <1>1, PositionsAre
<1> QED BY <1>1, <1>2

-----------------------------------------------------------------------------
(*****************************************************************************)
(* Sorted sequences are unique, and how they grow.                           *)
(*****************************************************************************)

\* There is only one way to list a set in order: at the first place where two
\* listings differ, each has what the other has only later.
LEMMA OneOrder ==
  ASSUME NEW S, IsFiniteSet(S), NEW R, Orders(R, S), NEW s \in Listings(S), NEW r \in Listings(S),
         \A i, j \in DOMAIN s : i < j => <<s[i], s[j]>> \in R,
         \A i, j \in DOMAIN r : i < j => <<r[i], r[j]>> \in R
  PROVE  s = r
<1> DEFINE n == Cardinality(S)
           D == {i \in 1 .. n : s[i] # r[i]}
<1>1. n \in Nat /\ DOMAIN s = 1 .. n /\ IsInjective(s) /\ Range(s) = S /\ s \in Seq(S)
  BY Zenon, Listing
<1>2. DOMAIN r = 1 .. n /\ IsInjective(r) /\ Range(r) = S /\ r \in Seq(S)
  BY Zenon, Listing
<1> HIDE DEF n
<1>3. ASSUME D # {} PROVE FALSE
  <2>1. PICK i \in D : \A m \in D : i <= m
    <3>1. D \subseteq Nat
      BY <1>1
    <3> QED BY Zenon, <1>3, <3>1, Least
  <2>2. i \in 1 .. n /\ i \in Nat /\ s[i] # r[i] /\ \A m \in 1 .. n : m < i => s[m] = r[m]
    BY <1>1, <2>1
  <2>3. s[i] \in S /\ r[i] \in S
    BY Zenon, <1>1, <1>2, <2>2 DEF Range
  <2>4. PICK k \in 1 .. n : r[k] = s[i]
    BY Zenon, <1>2, <2>3 DEF Range
  <2>5. PICK h \in 1 .. n : s[h] = r[i]
    BY Zenon, <1>1, <2>3 DEF Range
  <2>6. i < k
    BY <1>1, <2>2, <2>4 DEF IsInjective
  <2>7. i < h
    BY <1>1, <1>2, <2>2, <2>5 DEF IsInjective
  <2>8. <<r[i], s[i]>> \in R /\ <<s[i], r[i]>> \in R
    BY Zenon, <1>1, <1>2, <2>2, <2>4, <2>5, <2>6, <2>7
  <2> QED BY Zenon, <2>3, <2>8 DEF Orders
<1>4. \A i \in 1 .. n : s[i] = r[i]
  BY Zenon, <1>3
<1> QED BY <1>1, <1>2, <1>4

\* A duplicate-free sequence lists its members.
LEMMA ListingOf ==
  ASSUME NEW T, NEW s \in Seq(T), IsInjective(s)
  PROVE  s \in Listings(Range(s)) /\ IsFiniteSet(Range(s)) /\ Cardinality(Range(s)) = Len(s)
<1>1. Len(s) \in Nat /\ DOMAIN s = 1 .. Len(s) /\ s \in [1 .. Len(s) -> Range(s)]
  BY DEF Range
<1>2. IsFiniteSet(1 .. Len(s)) /\ Cardinality(1 .. Len(s)) = Len(s)
  BY SMTT(40), <1>1, FS_Interval
<1>3. s \in Injection(1 .. Len(s), Range(s))
  BY Zenon, <1>1 DEF Injection
<1>4. s \in Surjection(1 .. Len(s), Range(s))
  BY Zenon, <1>1 DEF Surjection, Range
<1>5. IsFiniteSet(Range(s)) /\ Cardinality(Range(s)) = Len(s)
  BY Zenon, <1>2, <1>3, <1>4, FS_Surjection
<1> QED BY Zenon, <1>3, <1>5 DEF Listings

\* Sorting a set of numbers and one that is greater than all of them.
LEMMA Grown ==
  ASSUME NEW I, IsFiniteSet(I), I \subseteq Nat, NEW m \in Nat, \A i \in I : i < m
  PROVE  Ascending(I \cup {m}) = Append(Ascending(I), m)
<1> DEFINE J == I \cup {m}
           R == {x \in J \X J : x[1] < x[2]}
<1>1. PICK p : p = Ascending(I)
  BY Zenon
<1>2. PICK r : r = Ascending(J)
  BY Zenon
<1>3. IsFiniteSet(J) /\ J \subseteq Nat
  BY Zenon, FS_AddElement
<1>4. /\ p \in Listings(I)
      /\ \A i, j \in DOMAIN p : i < j => p[i] < p[j]
  BY Zenon, <1>1, Increasing
<1>5. p \in Seq(I) /\ IsInjective(p) /\ Range(p) = I
  BY Zenon, <1>4, Listing
<1>6. PICK s : s = Append(p, m)
  BY Zenon
<1>7. /\ s \in Seq(J) /\ Len(s) = Len(p) + 1 /\ Len(p) \in Nat
      /\ s[Len(p) + 1] = m
      /\ \A i \in 1 .. Len(p) : s[i] = p[i] /\ p[i] \in I
  BY <1>5, <1>6
<1>d. /\ DOMAIN s = 1 .. Len(p) + 1 /\ DOMAIN p = 1 .. Len(p)
      /\ \A i \in DOMAIN s : i \in Nat /\ s[i] \in Nat
  <2> HIDE DEF J
  <2>1. s \in Seq(Nat)
    BY Zenon, <1>3, <1>7, Wider
  <2> QED BY <1>5, <1>7, <2>1
<1>8. \A i, j \in DOMAIN s : i < j => s[i] < s[j]
  <2> SUFFICES ASSUME NEW i \in DOMAIN s, NEW j \in DOMAIN s, i < j PROVE s[i] < s[j]
    BY Zenon
  <2>1. i \in 1 .. Len(p) /\ s[i] = p[i] /\ p[i] \in I
    BY <1>7, <1>d
  <2>2. CASE j \in 1 .. Len(p)
    BY Zenon, <1>4, <1>7, <1>d, <2>1, <2>2
  <2>3. CASE j = Len(p) + 1
    BY Zenon, <1>7, <2>1, <2>3
  <2> QED BY <1>7, <1>d, <2>2, <2>3
<1>9. IsInjective(s)
  <2> SUFFICES ASSUME NEW i \in DOMAIN s, NEW j \in DOMAIN s, s[i] = s[j] PROVE i = j
    BY Zenon DEF IsInjective
  <2> QED BY <1>8, <1>d
<1>10. Range(s) = J
  <2>1. \A x \in I : \E i \in DOMAIN s : s[i] = x
    BY SMTT(40), <1>5, <1>7 DEF Range
  <2>2. m \in Range(s)
    BY <1>7 DEF Range
  <2>3. \A y \in Range(s) : y \in J
    BY <1>7 DEF Range
  <2>4. \A y \in I : y \in Range(s)
    BY Zenon, <2>1 DEF Range
  <2> QED BY Zenon, <2>2, <2>3, <2>4
<1>11. s \in Listings(J)
  BY Zenon, <1>7, <1>9, <1>10, ListingOf
<1>12. /\ r \in Listings(J)
       /\ \A i, j \in DOMAIN r : i < j => r[i] < r[j]
  BY Zenon, <1>2, <1>3, Increasing
<1>13. \A a, b \in J : <<a, b>> \in R <=> a < b
  BY Zenon
<1>14. r \in Seq(J)
  BY Zenon, <1>3, <1>12, Listing
<1> HIDE DEF R, J
<1>15. Orders(R, J)
  BY <1>3, <1>13 DEF Orders
<1>16. \A i, j \in DOMAIN s : i < j => <<s[i], s[j]>> \in R
  BY <1>7, <1>8, <1>13
<1>17. \A i, j \in DOMAIN r : i < j => <<r[i], r[j]>> \in R
  BY <1>12, <1>13, <1>14
<1>18. s = r
  BY Zenon, <1>3, <1>11, <1>12, <1>15, <1>16, <1>17, OneOrder
<1> QED BY Zenon, <1>1, <1>2, <1>6, <1>18 DEF J

\* The positions of a sequence are a finite set of numbers.
LEMMA SomePositions ==
  ASSUME NEW T, NEW s \in Seq(T), NEW I \in SUBSET DOMAIN s
  PROVE  /\ IsFiniteSet(I) /\ I \subseteq Nat
         /\ Picked(s, I) = [k \in DOMAIN Ascending(I) |-> s[Ascending(I)[k]]]
         /\ Ascending(I) \in Listings(I)
         /\ \A i, j \in DOMAIN Ascending(I) : i < j => Ascending(I)[i] < Ascending(I)[j]
<1>1. IsFiniteSet(DOMAIN s) /\ DOMAIN s \subseteq Nat
  BY FS_Interval
<1>2. IsFiniteSet(I) /\ I \subseteq Nat
  BY Zenon, <1>1, FS_Subset
<1>3. Picked(s, I) = [k \in DOMAIN Ascending(I) |-> s[Ascending(I)[k]]]
  BY Zenon DEF Picked
<1> QED BY Zenon, <1>2, <1>3, Increasing

\* One position more, after all the others.
LEMMA PickedGrown ==
  ASSUME NEW T, NEW s \in Seq(T), NEW I \in SUBSET DOMAIN s, NEW m \in DOMAIN s, \A i \in I : i < m
  PROVE  Picked(s, I \cup {m}) = Append(Picked(s, I), s[m])
<1>1. PICK p : p = Ascending(I)
  BY Zenon
<1>2. IsFiniteSet(I) /\ I \subseteq Nat /\ p \in Listings(I) /\ Picked(s, I) = [k \in DOMAIN p |-> s[p[k]]]
  BY <1>1, SomePositions
<1>3. p \in Seq(I)
  BY Zenon, <1>2, Listing
<1>4. Ascending(I \cup {m}) = Append(p, m)
  <2>1. m \in Nat
    OBVIOUS
  <2> QED BY Zenon, <1>1, <1>2, <2>1, Grown
<1>5. Picked(s, I \cup {m}) = [k \in DOMAIN Append(p, m) |-> s[Append(p, m)[k]]]
  BY Zenon, <1>4 DEF Picked
<1>6. Picked(s, I) \in Seq(T) /\ Len(Picked(s, I)) = Len(p) /\ Len(p) \in Nat
  <2>1. \A k \in 1 .. Len(p) : p[k] \in I /\ s[p[k]] \in T
    BY <1>3
  <2> QED BY SMTT(40), <1>2, <1>3, <2>1
<1>7. DOMAIN Append(p, m) = 1 .. Len(p) + 1 /\ DOMAIN Append(Picked(s, I), s[m]) = 1 .. Len(p) + 1
  BY <1>3, <1>6
<1>8. \A k \in 1 .. Len(p) + 1 : s[Append(p, m)[k]] = Append(Picked(s, I), s[m])[k]
  BY <1>2, <1>3, <1>6
<1>9. Append(Picked(s, I), s[m]) = [k \in 1 .. Len(p) + 1 |-> Append(Picked(s, I), s[m])[k]]
  <2>1. PICK a : a = Append(Picked(s, I), s[m])
    BY Zenon
  <2>2. a \in Seq(T) /\ DOMAIN a = 1 .. Len(p) + 1
    BY <1>6, <1>7, <2>1
  <2>3. a = [k \in 1 .. Len(p) + 1 |-> a[k]]
    BY <2>2
  <2> QED BY Zenon, <2>1, <2>3
<1> QED BY Zenon, <1>5, <1>7, <1>8, <1>9

\* Nothing picked.
LEMMA PickedNone ==
  ASSUME NEW T, NEW s \in Seq(T)
  PROVE  Picked(s, {}) = <<>>
<1>1. PICK p : p = Ascending({})
  BY Zenon
<1>2. p \in Listings({}) /\ Picked(s, {}) = [k \in DOMAIN p |-> s[p[k]]]
  BY <1>1, SomePositions
<1>3. DOMAIN p = 1 .. 0
  BY Zenon, <1>2, Listing, FS_EmptySet
<1> QED BY <1>2, <1>3

\* Those of the places I of a sequence that hold a member of M.
Within(s, I, M) == {i \in I : s[i] \in M}

\* What is picked counts as what it was picked from.
LEMMA PickedCount ==
  ASSUME NEW T, NEW s \in Seq(T), NEW I \in SUBSET DOMAIN s, NEW M
  PROVE  Cardinality(Within(Picked(s, I), DOMAIN Picked(s, I), M)) = Cardinality(Within(s, I, M))
<1>1. PICK p : p = Ascending(I)
  BY Zenon
<1>2. IsFiniteSet(I) /\ p \in Listings(I) /\ Picked(s, I) = [k \in DOMAIN p |-> s[p[k]]]
  BY <1>1, SomePositions
<1>3. p \in Seq(I) /\ IsInjective(p) /\ Range(p) = I
  BY Zenon, <1>2, Listing
<1> DEFINE A == {k \in DOMAIN p : s[p[k]] \in M}
           B == {i \in I : s[i] \in M}
           f == [k \in A |-> p[k]]
<1>4. Within(Picked(s, I), DOMAIN Picked(s, I), M) = A /\ Within(s, I, M) = B
  BY Zenon, <1>2 DEF Within
<1>5. f \in [A -> B]
  BY <1>3
<1>6. f \in Injection(A, B)
  BY Zenon, <1>3, <1>5 DEF Injection, IsInjective
<1>7. f \in Surjection(A, B)
  <2>1. \A i \in B : \E k \in A : p[k] = i
    BY Zenon, <1>3 DEF Range
  <2> QED BY Zenon, <1>5, <2>1 DEF Surjection
<1>8. IsFiniteSet(B)
  BY Zenon, <1>2, FS_Subset
<1> HIDE DEF A, B, f
<1>9. Cardinality(A) = Cardinality(B)
  BY Zenon, <1>6, <1>7, <1>8, FS_Injection
<1> QED BY Zenon, <1>4, <1>9

\* Of a set of at least l numbers, l have fewer than l below them.
LEMMA FirstFew ==
  ASSUME NEW P, IsFiniteSet(P), P \subseteq Nat, NEW l \in Nat, Cardinality(P) >= l
  PROVE  Cardinality({i \in P : Cardinality({j \in P : j < i}) < l}) >= l
<1> DEFINE Under(i) == {j \in P : j < i}
           C == {i \in P : Cardinality(Under(i)) < l}
<1>1. PICK p : p = Ascending(P)
  BY Zenon
<1>2. /\ p \in Listings(P)
      /\ \A i, j \in DOMAIN p : i < j => p[i] < p[j]
  BY Zenon, <1>1, Increasing
<1>3. /\ p \in Seq(P) /\ IsInjective(p) /\ Range(p) = P
      /\ DOMAIN p = 1 .. Cardinality(P) /\ Cardinality(P) \in Nat
  BY Zenon, <1>2, Listing
<1>4. ASSUME NEW k \in 1 .. l PROVE p[k] \in C
  <2>0. k \in DOMAIN p /\ k \in Nat /\ k <= l /\ p[k] \in P /\ p[k] \in Nat
    <3>1. k \in Nat /\ k <= l /\ k \in 1 .. Cardinality(P)
      BY <1>3
    <3>2. p[k] \in P
      BY Zenon, <1>3, <3>1 DEF Range
    <3> QED BY Zenon, <1>3, <3>1, <3>2
  <2>1. \A j \in Under(p[k]) : \E h \in 1 .. k - 1 : p[h] = j
    <3> SUFFICES ASSUME NEW j \in Under(p[k]) PROVE \E h \in 1 .. k - 1 : p[h] = j
      BY Zenon
    <3>1. PICK h \in DOMAIN p : p[h] = j
      BY Zenon, <1>3 DEF Range
    <3>2. p[h] < p[k] /\ p[h] \in Nat
      BY Zenon, <3>1
    <3>3. h < k
      BY SMTT(40), <1>2, <1>3, <2>0, <3>2
    <3> QED BY <1>3, <2>0, <3>1, <3>3
  <2> DEFINE f == [j \in Under(p[k]) |-> CHOOSE h \in 1 .. k - 1 : p[h] = j]
  <2>2. \A j \in Under(p[k]) : f[j] \in 1 .. k - 1 /\ p[f[j]] = j
    BY Zenon, <2>1
  <2>3. f \in Injection(Under(p[k]), 1 .. k - 1)
    <3> HIDE DEF Under
    <3>1. f \in [Under(p[k]) -> 1 .. k - 1]
      BY Zenon, <2>2
    <3> QED BY <2>2, <3>1 DEF Injection, IsInjective
  <2>4. IsFiniteSet(1 .. k - 1) /\ Cardinality(1 .. k - 1) = k - 1
    <3>1. PICK b \in Int : b = k - 1
      BY <2>0
    <3>2. IsFiniteSet(1 .. b) /\ Cardinality(1 .. b) = IF 1 > b THEN 0 ELSE b - 1 + 1
      BY FS_Interval
    <3> QED BY <2>0, <3>1, <3>2
  <2> HIDE DEF f
  <2>5. IsFiniteSet(Under(p[k])) /\ Cardinality(Under(p[k])) <= k - 1
    BY <2>3, <2>4, FS_Injection
  <2>6. Cardinality(Under(p[k])) \in Nat
    BY Zenon, <2>5, FS_CardinalityType
  <2> QED BY <2>0, <2>5, <2>6
<1> DEFINE g == [k \in 1 .. l |-> p[k]]
<1>5. g \in [1 .. l -> C]
  BY Zenon, <1>4
<1>6. g \in Injection(1 .. l, C)
  BY <1>3, <1>5 DEF Injection, IsInjective
<1>7. IsFiniteSet(C)
  BY Zenon, FS_Subset
<1>8. Cardinality(1 .. l) = l
  BY FS_Interval
<1> HIDE DEF g, C
<1>9. l <= Cardinality(C)
  BY <1>6, <1>7, <1>8, FS_Injection
<1>10. Cardinality(C) \in Nat
  BY Zenon, <1>7, FS_CardinalityType
<1> QED BY Zenon, <1>9, <1>10 DEF C
=============================================================================
