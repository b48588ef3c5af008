------------------------ MODULE StorageHandlesProofs ------------------------
EXTENDS StorageHandles, FiniteSetTheorems, WellFoundedInduction, TLAPS

(* Whatever the cache, the retired set, an eviction or a writer refers to is  *)
(* an open file object.                                                       *)
Rooted ==
  /\ \A f \in Files : cached[f] # 0 => file_of[cached[f]] # 0
  /\ \A o \in Objects : retired[o] # 0 => file_of[o] # 0
  /\ \A t \in Tasks : evicted[t] # 0 => file_of[evicted[t]] # 0
  /\ \A t \in Tasks : object[t] # 0 => file_of[object[t]] # 0

(* An object is cached, retired or being evicted by one task, never two of    *)
(* these.                                                                     *)
Apart ==
  /\ \A f \in Files : cached[f] # 0 =>
       retired[cached[f]] = 0 /\ \A t \in Tasks : evicted[t] # cached[f]
  /\ \A t \in Tasks : evicted[t] # 0 =>
       retired[evicted[t]] = 0 /\ \A u \in Tasks \ {t} : evicted[u] # evicted[t]

(* A writer is counted among the users of its object, and the object it has   *)
(* opened and not yet inserted is its own.                                    *)
Counted == \A t \in Tasks : object[t] # 0 => t \in users[object[t]]

Private == \A w \in Tasks : step[w] = "insert" =>
  /\ object[w] # 0 /\ retired[object[w]] = 0
  /\ \A f \in Files : cached[f] # object[w]
  /\ \A t \in Tasks : evicted[t] # object[w]
  /\ \A v \in Tasks \ {w} : object[v] # object[w]

(* What a task has where it is. *)
Located == \A t \in Tasks :
  /\ t \in Writers /\ step[t] # "idle" => file[t] \in Files
  /\ step[t] \in {"flush", "write"} => object[t] # 0
  /\ evicted[t] # 0 => step[t] \in {"flush", "evict"}
  /\ step[t] \in {"remove", "flush", "evict"} => index[t] \in Files

Sound == Rooted /\ Apart /\ Counted /\ Private
HandlesInv == ShTypeOK /\ Sound /\ Located /\ HandlesBounded

Places == {"idle", "retired", "slot", "open", "insert", "flush", "write", "remove", "evict"}

Openers == {w \in Writers : step[w] = "open"}

\* The sets that are counted are finite.
LEMMA CountsAreNaturals ==
  /\ IsFiniteSet(Alive) /\ Cardinality(Alive) \in Nat
  /\ IsFiniteSet(Openers) /\ Cardinality(Openers) \in Nat
<1>1. IsFiniteSet(Objects)
  BY HandlesAssumption, FS_Interval DEF Objects
<1>2. IsFiniteSet(Alive) /\ IsFiniteSet(Openers)
  BY Zenon, <1>1, HandlesAssumption, FS_Subset DEF Alive, Openers
<1> QED
  BY Zenon, <1>2, FS_CardinalityType

\* Closing open objects gives back a slot for each.
LEMMA Closing ==
  ASSUME ShTypeOK, HandlesBounded, NEW os, os \subseteq Alive, Close(os)
  PROVE  /\ file_of' \in [Objects -> Index0]
         /\ \A o \in Objects : file_of'[o] = IF o \in os THEN 0 ELSE file_of[o]
         /\ live' \in Nat /\ live' <= MaxHandles /\ Cardinality(Alive') \in Nat
         /\ Cardinality(Alive') + Cardinality(Openers) <= live'
<1>1. /\ file_of' \in [Objects -> Index0]
      /\ \A o \in Objects : file_of'[o] = IF o \in os THEN 0 ELSE file_of[o]
  BY Zenon DEF ShTypeOK, Close, Index0
<1>2. Alive' = Alive \ os /\ Alive \cap os = os
  BY Zenon, <1>1 DEF Alive
<1>3. IsFiniteSet(os) /\ Cardinality(os) \in Nat /\ Cardinality(os) <= Cardinality(Alive)
  BY Zenon, CountsAreNaturals, FS_Subset, FS_CardinalityType
<1>4. Cardinality(Alive \ os) = Cardinality(Alive) - Cardinality(Alive \cap os)
  BY Zenon, CountsAreNaturals, FS_Difference
<1>5. Cardinality(Alive') = Cardinality(Alive) - Cardinality(os)
  BY Zenon, <1>2, <1>4
<1>6. Cardinality(Alive) + Cardinality(Openers) <= live /\ live <= MaxHandles /\ live \in Nat
  BY Zenon DEF HandlesBounded, Openers, ShTypeOK
<1> QED
  BY <1>1, <1>3, <1>5, <1>6, CountsAreNaturals, HandlesAssumption DEF Close

\* Fewer writers about to open ask for no more slots.
LEMMA FewerOpeners ==
  ASSUME Openers' \subseteq Openers
  PROVE  Cardinality(Openers') \in Nat /\ Cardinality(Openers') <= Cardinality(Openers)
  BY Zenon, CountsAreNaturals, FS_Subset, FS_CardinalityType

\* Every nonempty set of numbers has a least one.
LEMMA Least ==
  ASSUME NEW T, T \subseteq Nat, T # {}
  PROVE  \E n \in T : \A m \in T : n <= m
<1>1. PICK n \in T : \A m \in T : ~(<<m, n>> \in OpToRel(<, Nat))
  BY NatLessThanWellFounded, WFMin, Zenon
<1>2. \A m \in T : ~(m < n)
  BY Zenon, <1>1 DEF OpToRel
<1> QED BY <1>2

\* A nonempty set of objects has a first one.
LEMMA FirstIn ==
  ASSUME NEW S, S \subseteq Objects, S # {}
  PROVE  Min(S) \in S
<1>1. S \subseteq Nat
  BY HandlesAssumption DEF Objects
<1>2. \E n \in S : \A m \in S : n <= m
  BY Zenon, <1>1, Least
<1> QED
  BY Zenon, <1>2 DEF Min

\* A writer joins the users of an object.
LEMMA UserJoins ==
  ASSUME NEW us \in [Objects -> SUBSET Writers], NEW o \in Objects, NEW w \in Writers
  PROVE  /\ [us EXCEPT ![o] = @ \cup {w}] \in [Objects -> SUBSET Writers]
         /\ \A p \in Objects : [us EXCEPT ![o] = @ \cup {w}][p] =
                                 IF p = o THEN us[p] \cup {w} ELSE us[p]
<1>1. us[o] \cup {w} \in SUBSET Writers
  BY Zenon
<1> QED
  BY Zenon, <1>1

\* A task leaves the users of an object.
LEMMA UserLeaves ==
  ASSUME NEW us \in [Objects -> SUBSET Writers], NEW o \in Objects, NEW w
  PROVE  /\ [us EXCEPT ![o] = @ \ {w}] \in [Objects -> SUBSET Writers]
         /\ \A p \in Objects : [us EXCEPT ![o] = @ \ {w}][p] =
                                 IF p = o THEN us[p] \ {w} ELSE us[p]
<1>1. us[o] \ {w} \in SUBSET Writers
  BY Zenon
<1> QED
  BY Zenon, <1>1

\* The oldest handle is one of the cache's.
LEMMA OldestIsCached ==
  ASSUME ShTypeOK, Cached # {}
  PROVE  Oldest \in Objects /\ \E f \in Files : cached[f] = Oldest
<1>1. Cached \subseteq Objects
  BY HandlesAssumption DEF ShTypeOK, Cached, Objects, Object0
<1>2. Oldest \in Cached
  BY Zenon, <1>1, FirstIn DEF Oldest
<1> QED
  BY Zenon, <1>1, <1>2 DEF Cached

(* A step of task t that closes the objects os, moves nothing between the     *)
(* cache and the evictions, and leaves t with the object it had, with none,   *)
(* with a cached one or with one that was not open.                           *)
Quiet(t, os) ==
  /\ cached' = cached /\ evicted' = evicted
  /\ \A o \in Objects : retired'[o] \in {0, retired[o]}
  /\ \A o \in Objects \ os : file_of[o] # 0 =>
       file_of'[o] # 0 /\ users[o] \ {t} \subseteq users'[o]
  /\ \A o \in os : /\ retired'[o] = 0 /\ \A f \in Files : cached[f] # o
                   /\ \A u \in Tasks : evicted[u] # o /\ object'[u] # o
  /\ \A u \in Tasks \ {t} : step'[u] = step[u] /\ object'[u] = object[u]
  /\ \A u \in Tasks : u = t /\ object'[u] # 0 =>
       /\ file_of'[object'[u]] # 0 /\ u \in users'[object'[u]]
       /\ \/ object'[u] = object[u] \/ file_of[object'[u]] = 0
          \/ \E f \in Files : cached[f] = object'[u]
  /\ \A u \in Tasks : u = t /\ step'[u] = "insert" =>
       \/ step[u] = "insert" /\ object'[u] = object[u]
       \/ object'[u] # 0 /\ file_of[object'[u]] = 0

\* Such a step keeps the references sound.
LEMMA QuietKeeps ==
  ASSUME ShTypeOK, ShTypeOK', Sound, NEW t, NEW os, os \subseteq Objects, Quiet(t, os)
  PROVE  Sound'
<1>0. \A o \in Object0 : o # 0 => o \in Objects
  BY HandlesAssumption DEF Objects, Object0
<1>1. Rooted'
  <2>1. ASSUME NEW f \in Files, cached[f] # 0 PROVE file_of'[cached[f]] # 0
    BY <1>0, <2>1 DEF Sound, Rooted, Quiet, ShTypeOK
  <2>2. ASSUME NEW o \in Objects, retired'[o] # 0 PROVE file_of'[o] # 0
    BY ZenonT(40), <2>2 DEF Sound, Rooted, Quiet
  <2>3. ASSUME NEW u \in Tasks, evicted[u] # 0 PROVE file_of'[evicted[u]] # 0
    BY Zenon, <1>0, <2>3 DEF Sound, Rooted, Quiet, ShTypeOK
  <2>4. ASSUME NEW u \in Tasks, object'[u] # 0 PROVE file_of'[object'[u]] # 0
    BY ZenonT(40), <1>0, <2>4 DEF Sound, Rooted, Quiet, ShTypeOK
  <2> QED
    BY Zenon, <2>1, <2>2, <2>3, <2>4 DEF Rooted, Quiet
<1>2. Apart'
  BY HandlesAssumption DEF Sound, Apart, Quiet, ShTypeOK, Objects, Object0
<1>3. Counted'
  <2>1. ASSUME NEW u \in Tasks, object'[u] # 0 PROVE u \in users'[object'[u]]
    BY Zenon, <1>0, <2>1 DEF Sound, Counted, Rooted, Quiet, ShTypeOK
  <2> QED
    BY Zenon, <2>1 DEF Counted
<1>4. Private'
  BY SMTT(40), HandlesAssumption DEF Sound, Private, Rooted, Quiet, ShTypeOK, Objects, Object0
<1> QED
  BY Zenon, <1>1, <1>2, <1>3, <1>4 DEF Sound

(* A step of task t that closes the objects os and hands handles over: into   *)
(* the cache the object t opened or the one it was evicting, from there the   *)
(* one it evicts next, and among the retired the one it was evicting.         *)
Handover(t, os) ==
  /\ \A f \in Files : \/ cached'[f] \in {0, cached[f]}
                      \/ cached'[f] = evicted[t] /\ evicted'[t] = 0
                      \/ cached'[f] = object[t] /\ step[t] = "insert"
  /\ \A o \in Objects : retired'[o] # 0 =>
       \/ retired[o] # 0
       \/ o = evicted[t] /\ evicted'[t] = 0 /\ \A f \in Files : cached'[f] # o
  /\ \/ evicted'[t] = 0
     \/ /\ \E f \in Files : cached[f] = evicted'[t]
        /\ \A f \in Files : cached'[f] # evicted'[t]
  /\ \A o \in Objects \ os : file_of[o] # 0 =>
       file_of'[o] # 0 /\ users[o] \ {t} \subseteq users'[o]
  /\ \A o \in os : /\ retired'[o] = 0 /\ \A f \in Files : cached'[f] # o
                   /\ \A u \in Tasks : evicted'[u] # o /\ object'[u] # o
  /\ \A u \in Tasks \ {t} :
       step'[u] = step[u] /\ object'[u] = object[u] /\ evicted'[u] = evicted[u]
  /\ step'[t] # "insert"
  /\ object'[t] = 0 \/ (object'[t] = object[t] /\ users' = users)

\* Such a step keeps the references sound.
LEMMA HandoverKeeps ==
  ASSUME ShTypeOK, ShTypeOK', Sound, NEW t \in Tasks, NEW os, os \subseteq Objects,
         Handover(t, os)
  PROVE  Sound'
<1>0. \A o \in Object0 : o # 0 => o \in Objects
  BY HandlesAssumption DEF Objects, Object0
<1>1. Rooted'
  <2>1. ASSUME NEW f \in Files, cached'[f] # 0 PROVE file_of'[cached'[f]] # 0
    BY <1>0, <2>1 DEF Sound, Rooted, Handover, ShTypeOK
  <2>2. ASSUME NEW o \in Objects, retired'[o] # 0 PROVE file_of'[o] # 0
    BY <1>0, <2>2, HandlesAssumption DEF Sound, Rooted, Handover, ShTypeOK, Objects
  <2>3. ASSUME NEW u \in Tasks, evicted'[u] # 0 PROVE file_of'[evicted'[u]] # 0
    BY <1>0, <2>3 DEF Sound, Rooted, Handover, ShTypeOK
  <2>4. ASSUME NEW u \in Tasks, object'[u] # 0 PROVE file_of'[object'[u]] # 0
    BY SMTT(40), <1>0, <2>4 DEF Sound, Rooted, Handover, ShTypeOK
  <2> QED
    BY Zenon, <2>1, <2>2, <2>3, <2>4 DEF Rooted
<1>2. Apart'
  <2>1. ASSUME NEW f \in Files, cached'[f] # 0
        PROVE  retired'[cached'[f]] = 0 /\ \A u \in Tasks : evicted'[u] # cached'[f]
    BY <1>0, <2>1 DEF Sound, Apart, Private, Handover, ShTypeOK
  <2>2. ASSUME NEW u \in Tasks, evicted'[u] # 0
        PROVE  /\ retired'[evicted'[u]] = 0
               /\ \A v \in Tasks \ {u} : evicted'[v] # evicted'[u]
    BY <1>0, <2>2 DEF Sound, Apart, Handover, ShTypeOK
  <2> QED
    BY Zenon, <2>1, <2>2 DEF Apart
<1>3. Counted'
  <2>1. ASSUME NEW u \in Tasks, object'[u] # 0 PROVE u \in users'[object'[u]]
    BY <1>0, <2>1 DEF Sound, Counted, Rooted, Handover, ShTypeOK
  <2> QED
    BY Zenon, <2>1 DEF Counted
<1>4. Private'
  <2>1. ASSUME NEW w \in Tasks, step'[w] = "insert"
        PROVE  /\ w # t /\ step[w] = "insert" /\ object'[w] = object[w]
               /\ object[w] # 0 /\ object[w] \in Objects /\ retired[object[w]] = 0
    BY <1>0, <2>1 DEF Sound, Private, Handover, ShTypeOK
  <2>2. ASSUME NEW w \in Tasks, step'[w] = "insert"
        PROVE  /\ retired'[object[w]] = 0
               /\ \A f \in Files : cached'[f] # object[w]
               /\ \A u \in Tasks : evicted'[u] # object[w]
               /\ \A u \in Tasks \ {w} : object'[u] # object[w]
    BY <2>1, <2>2 DEF Sound, Private, Handover
  <2> QED
    BY ZenonT(40), <2>1, <2>2 DEF Private
<1> QED
  BY Zenon, <1>1, <1>2, <1>3, <1>4 DEF Sound

(* Dropping retired handles that nobody uses keeps the references sound and   *)
(* gives their slots back.                                                    *)
LEMMA PruneKeeps ==
  ASSUME ShTypeOK, Sound, HandlesBounded, NEW os, os \subseteq Retired,
         \A o \in os : users[o] = {}, Prune(os),
         UNCHANGED <<cached, users, object, evicted>>,
         \A u \in Tasks : step'[u] = "insert" => step[u] = "insert"
  PROVE  /\ Sound'
         /\ retired' \in [Objects -> Index0] /\ file_of' \in [Objects -> Index0]
         /\ live' \in Nat /\ live' <= MaxHandles /\ Cardinality(Alive') \in Nat
         /\ Cardinality(Alive') + Cardinality(Openers) <= live'
<1>1. os \subseteq Alive /\ os \subseteq Objects /\ \A o \in os : retired[o] # 0
  BY Zenon DEF Sound, Rooted, Retired, Alive
<1>2. /\ file_of' \in [Objects -> Index0]
      /\ \A o \in Objects : file_of'[o] = IF o \in os THEN 0 ELSE file_of[o]
      /\ live' \in Nat /\ live' <= MaxHandles /\ Cardinality(Alive') \in Nat
      /\ Cardinality(Alive') + Cardinality(Openers) <= live'
  BY Zenon, <1>1, Closing DEF Prune
<1>3. /\ retired' \in [Objects -> Index0]
      /\ \A o \in Objects : retired'[o] = IF o \in os THEN 0 ELSE retired[o]
  BY Zenon DEF Prune, ShTypeOK, Index0
<1>4. \A o \in Object0 : o # 0 => o \in Objects
  BY HandlesAssumption DEF Objects, Object0
<1>0. 0 \notin os
  BY <1>1 DEF Objects
<1>5. \A u \in Tasks : object[u] \notin os /\ evicted[u] \notin os
  BY Zenon, <1>0, <1>1 DEF Sound, Apart, Counted
<1>6. \A f \in Files : cached[f] \notin os
  BY Zenon, <1>0, <1>1 DEF Sound, Apart
<1>7. Rooted'
  <2>1. /\ \A f \in Files : cached[f] # 0 => file_of'[cached[f]] # 0
        /\ \A o \in Objects : retired'[o] # 0 => file_of'[o] # 0
    BY Zenon, <1>2, <1>3, <1>4, <1>6 DEF Sound, Rooted, ShTypeOK
  <2>2. /\ \A u \in Tasks : evicted[u] # 0 => file_of'[evicted[u]] # 0
        /\ \A u \in Tasks : object[u] # 0 => file_of'[object[u]] # 0
    BY Zenon, <1>2, <1>4, <1>5 DEF Sound, Rooted, ShTypeOK
  <2> QED
    BY Zenon, <2>1, <2>2 DEF Rooted
<1>8. Apart' /\ Counted'
  <2>1. \A o \in Object0 : o # 0 /\ retired[o] = 0 => retired'[o] = 0
    BY Zenon, <1>3, <1>4
  <2>2. Apart'
    BY Zenon, <2>1 DEF Sound, Apart, ShTypeOK
  <2> QED
    BY Zenon, <2>2 DEF Sound, Counted
<1>9. Private'
  BY Zenon, <1>3, <1>4 DEF Sound, Private, ShTypeOK
<1> QED
  BY Zenon, <1>2, <1>3, <1>7, <1>8, <1>9 DEF Sound

\* The invariant is kept: a write finds a cached handle or goes on to open one.
LEMMA BeginKeeps ==
  ASSUME HandlesInv, NEW w \in Writers, NEW f \in Files, Begin(w, f)
  PROVE  HandlesInv'
<1>0. /\ ShTypeOK /\ Sound /\ Located /\ HandlesBounded
      /\ Rooted /\ Apart /\ Counted /\ Private
  BY Zenon DEF HandlesInv, Sound
<1>u. /\ users' \in [Objects -> SUBSET Writers]
      /\ \A o \in Objects : users[o] \subseteq users'[o]
      /\ cached[f] # 0 => w \in users'[cached[f]]
  <2>1. CASE cached[f] = 0
    BY Zenon, <1>0, <2>1 DEF ShTypeOK, Begin
  <2>2. CASE cached[f] # 0
    <3>1. cached[f] \in Objects /\ users \in [Objects -> SUBSET Writers]
      BY <1>0, <2>2, HandlesAssumption DEF ShTypeOK, Objects, Object0
    <3>2. users' = [users EXCEPT ![cached[f]] = @ \cup {w}]
      BY Zenon, <2>2 DEF Begin
    <3> QED
      BY <3>1, <3>2, UserJoins
  <2> QED
    BY Zenon, <2>1, <2>2
<1>1. ShTypeOK'
  <2>1. CASE cached[f] = 0
    BY Zenon, <1>0, <1>u, <2>1 DEF ShTypeOK, Begin, To, Index0, cache, evicting
  <2>2. CASE cached[f] # 0
    BY <1>0, <1>u, <2>2, HandlesAssumption
       DEF ShTypeOK, Begin, To, Tasks, Index0, cache, evicting
  <2> QED
    BY Zenon, <2>1, <2>2
<1>2. Sound'
  <2>1. Quiet(w, {})
    BY <1>0, HandlesAssumption, <1>u
       DEF Quiet, Rooted, Counted, Located, ShTypeOK, Begin, To, Tasks, Objects, Index0,
           Object0, cache, evicting
  <2> QED
    BY Zenon, <1>0, <1>1, <2>1, QuietKeeps DEF Alive
<1>3. Located'
  BY <1>0, HandlesAssumption, <1>u
     DEF Located, ShTypeOK, Begin, To, Tasks, Objects, Index0, Object0, cache, evicting
<1>4. HandlesBounded'
  <2>1. Openers' \subseteq Openers /\ Alive' = Alive /\ live' = live
    BY Zenon, <1>0, HandlesAssumption, <1>u
       DEF Openers, Alive, ShTypeOK, Begin, To, Tasks, Objects, Index0, Object0, cache,
           evicting
  <2> QED
    BY <1>0, <2>1, FewerOpeners, CountsAreNaturals DEF HandlesBounded, Openers, ShTypeOK
<1> QED
  BY Zenon, <1>1, <1>2, <1>3, <1>4 DEF HandlesInv

\* The invariant is kept: a failed flush is tried again.
LEMMA FlushPendingKeeps ==
  ASSUME HandlesInv, NEW w \in Writers, FlushPending(w)
  PROVE  HandlesInv'
<1>0. /\ ShTypeOK /\ Sound /\ Located /\ HandlesBounded
      /\ Rooted /\ Apart /\ Counted /\ Private
  BY Zenon DEF HandlesInv, Sound
<1>1. ShTypeOK'
  BY Zenon, <1>0, HandlesAssumption
     DEF ShTypeOK, FlushPending, Tasks, Objects, Index0, Object0, objects_, writer_vars,
         evicting
<1>2. Sound'
  <2>1. Quiet(w, {})
    BY Zenon, <1>0, HandlesAssumption
       DEF Quiet, Rooted, Counted, Located, ShTypeOK, FlushPending, Tasks, Objects, Index0,
           Object0, objects_, writer_vars, evicting
  <2> QED
    BY Zenon, <1>0, <1>1, <2>1, QuietKeeps DEF Alive
<1>3. Located'
  BY Zenon, <1>0, HandlesAssumption
     DEF Located, ShTypeOK, FlushPending, Tasks, Objects, Index0, Object0, objects_,
         writer_vars, evicting
<1>4. HandlesBounded'
  <2>1. Openers' \subseteq Openers /\ Alive' = Alive /\ live' = live
    BY Zenon, <1>0, HandlesAssumption
       DEF Openers, Alive, ShTypeOK, FlushPending, Tasks, Objects, Index0, Object0,
           objects_, writer_vars, evicting
  <2> QED
    BY <1>0, <2>1, FewerOpeners, CountsAreNaturals DEF HandlesBounded, Openers, ShTypeOK
<1> QED
  BY Zenon, <1>1, <1>2, <1>3, <1>4 DEF HandlesInv

\* The invariant is kept: retired handles nobody uses are dropped.
LEMMA PassRetiredKeeps ==
  ASSUME HandlesInv, NEW w \in Writers, PassRetired(w)
  PROVE  HandlesInv'
<1>0. /\ ShTypeOK /\ Sound /\ Located /\ HandlesBounded
      /\ Rooted /\ Apart /\ Counted /\ Private
  BY Zenon DEF HandlesInv, Sound
<1>s. /\ step[w] = "retired" /\ step' = [step EXCEPT ![w] = "slot"]
      /\ UNCHANGED <<cached, unflushed, users, writer_vars, evicting, mishaps>>
  BY Zenon DEF PassRetired, To
<1>c. /\ Sound' /\ retired' \in [Objects -> Index0] /\ file_of' \in [Objects -> Index0]
      /\ live' \in Nat /\ live' <= MaxHandles /\ Cardinality(Alive') \in Nat
      /\ Cardinality(Alive') + Cardinality(Openers) <= live'
  <2>1. \A u \in Tasks : step'[u] = "insert" => step[u] = "insert"
    BY Zenon, <1>0, <1>s DEF ShTypeOK
  <2> QED
    BY Zenon, <1>0, <1>s, <2>1, PruneKeeps DEF PassRetired, SameIndex, Finished, writer_vars, evicting
<1>1. ShTypeOK'
  BY Zenon, <1>0, HandlesAssumption, <1>c, <1>s
     DEF ShTypeOK, Tasks, Objects, Index0, Object0, writer_vars, evicting
<1>2. Sound'
  BY Zenon, <1>c
<1>3. Located'
  BY Zenon, <1>0, HandlesAssumption, <1>c, <1>s
     DEF Located, ShTypeOK, Tasks, Objects, Index0, Object0, writer_vars, evicting
<1>4. HandlesBounded'
  <2>1. Openers' \subseteq Openers
    BY Zenon, <1>0, <1>s DEF Openers, ShTypeOK, Tasks
  <2> QED
    BY <1>c, <2>1, FewerOpeners, CountsAreNaturals DEF HandlesBounded, Openers
<1> QED
  BY Zenon, <1>1, <1>2, <1>3, <1>4 DEF HandlesInv

\* The invariant is kept: a slot is taken for the file about to be opened.
LEMMA AcquireKeeps ==
  ASSUME HandlesInv, NEW w \in Writers, Acquire(w)
  PROVE  HandlesInv'
<1>0. /\ ShTypeOK /\ Sound /\ Located /\ HandlesBounded
      /\ Rooted /\ Apart /\ Counted /\ Private
  BY Zenon DEF HandlesInv, Sound
<1>1. ShTypeOK'
  BY <1>0, HandlesAssumption
     DEF ShTypeOK, Acquire, To, Tasks, Objects, Index0, Object0, cache, writer_vars, evicting
<1>2. Sound'
  <2>1. Quiet(w, {})
    BY Zenon, <1>0, HandlesAssumption
       DEF Quiet, Rooted, Counted, Located, ShTypeOK, Acquire, To, Tasks, Objects, Index0,
           Object0, cache, writer_vars, evicting
  <2> QED
    BY Zenon, <1>0, <1>1, <2>1, QuietKeeps DEF Alive
<1>3. Located'
  BY Zenon, <1>0, HandlesAssumption
     DEF Located, ShTypeOK, Acquire, To, Tasks, Objects, Index0, Object0, cache, writer_vars,
         evicting
<1>4. HandlesBounded'
  <2>1. Openers' = Openers \cup {w} /\ w \notin Openers /\ Alive' = Alive
    BY Zenon, <1>0 DEF Openers, Alive, ShTypeOK, Acquire, To, Tasks, cache
  <2>2. Cardinality(Openers') = Cardinality(Openers) + 1
    BY Zenon, <2>1, CountsAreNaturals, FS_AddElement
  <2>3. /\ Cardinality(Alive) + Cardinality(Openers) <= live /\ live \in Nat
        /\ live < MaxHandles /\ live' = live + 1
    BY Zenon, <1>0 DEF HandlesBounded, Openers, ShTypeOK, Acquire
  <2>4. Cardinality(Alive') + Cardinality(Openers') <= live' /\ live' <= MaxHandles
    BY SMTT(40), <2>1, <2>2, <2>3, CountsAreNaturals, HandlesAssumption
  <2> QED
    BY Zenon, <2>4 DEF HandlesBounded, Openers
<1> QED
  BY Zenon, <1>1, <1>2, <1>3, <1>4 DEF HandlesInv

\* The invariant is kept: a file that cannot be opened gives its slot back.
LEMMA OpenFailsKeeps ==
  ASSUME HandlesInv, NEW w \in Writers, OpenFails(w)
  PROVE  HandlesInv'
<1>0. /\ ShTypeOK /\ Sound /\ Located /\ HandlesBounded
      /\ Rooted /\ Apart /\ Counted /\ Private
  BY Zenon DEF HandlesInv, Sound
<1>n. live - 1 \in Nat /\ Cardinality(Alive) + (Cardinality(Openers) - 1) <= live - 1
      /\ Openers' = Openers \ {w} /\ Cardinality(Openers') = Cardinality(Openers) - 1
  <2>1. w \in Openers /\ Openers' = Openers \ {w}
    BY Zenon, <1>0 DEF Openers, ShTypeOK, OpenFails, Leave, To, Tasks
  <2>2. Cardinality(Openers') = Cardinality(Openers) - 1
    BY Zenon, <2>1, CountsAreNaturals, FS_RemoveElement
  <2>3. Cardinality(Openers) # 0
    BY Zenon, <2>1, CountsAreNaturals, FS_EmptySet
  <2> QED
    BY <1>0, <2>1, <2>2, <2>3, CountsAreNaturals DEF HandlesBounded, Openers, ShTypeOK
<1>1. ShTypeOK'
  BY SMTT(40), <1>0, HandlesAssumption, <1>n
     DEF ShTypeOK, OpenFails, Leave, To, Tasks, Objects, Index0, Object0, cache, evicting
<1>2. Sound'
  <2>1. Quiet(w, {})
    BY Zenon, <1>0, HandlesAssumption, <1>n
       DEF Quiet, Rooted, Counted, Located, ShTypeOK, OpenFails, Leave, To, Tasks, Objects,
           Index0, Object0, cache, evicting
  <2> QED
    BY Zenon, <1>0, <1>1, <2>1, QuietKeeps DEF Alive
<1>3. Located'
  BY Zenon, <1>0, HandlesAssumption, <1>n
     DEF Located, ShTypeOK, OpenFails, Leave, To, Tasks, Objects, Index0, Object0, cache,
         evicting
<1>4. HandlesBounded'
  <2>1. Alive' = Alive /\ live' = live - 1
    BY Zenon DEF Alive, OpenFails
  <2>2. live <= MaxHandles /\ live \in Nat
    BY Zenon, <1>0 DEF HandlesBounded, ShTypeOK
  <2>3. Cardinality(Alive') + Cardinality(Openers') <= live' /\ live' <= MaxHandles
    BY <1>n, <2>1, <2>2, CountsAreNaturals, HandlesAssumption
  <2> QED
    BY Zenon, <2>3 DEF HandlesBounded, Openers
<1> QED
  BY Zenon, <1>1, <1>2, <1>3, <1>4 DEF HandlesInv

\* The invariant is kept: the new object takes the slot of the writer that opened it.
LEMMA OpenKeeps ==
  ASSUME HandlesInv, NEW w \in Writers, Open(w)
  PROVE  HandlesInv'
<1>0. /\ ShTypeOK /\ Sound /\ Located /\ HandlesBounded
      /\ Rooted /\ Apart /\ Counted /\ Private
  BY Zenon DEF HandlesInv, Sound
<1>p. PICK o \in Objects : /\ file_of[o] = 0
                            /\ file_of' = [file_of EXCEPT ![o] = file[w]]
                            /\ users' = [users EXCEPT ![o] = {w}]
                            /\ object' = [object EXCEPT ![w] = o]
  <2>1. PICK o \in Fresh : /\ file_of' = [file_of EXCEPT ![o] = file[w]]
                           /\ users' = [users EXCEPT ![o] = {w}]
                           /\ object' = [object EXCEPT ![w] = o]
    BY Zenon DEF Open
  <2>2. o \in Objects /\ file_of[o] = 0
    BY HandlesAssumption DEF Fresh, Objects
  <2> QED
    BY Zenon, <2>1, <2>2
<1>s. /\ step[w] = "open" /\ step' = [step EXCEPT ![w] = "insert"]
      /\ UNCHANGED <<cache, live, file, evicting, mishaps>>
  BY Zenon DEF Open, To
<1>u. {w} \in SUBSET Writers /\ file[w] \in Files /\ file[w] # 0
  BY Zenon, <1>0, <1>s, HandlesAssumption DEF Located, Tasks
<1>n. /\ retired[o] = 0 /\ \A f \in Files : cached[f] # o
      /\ \A t \in Tasks : evicted[t] # o /\ object[t] # o
  BY <1>0, <1>p, HandlesAssumption DEF Rooted, Objects
<1>1. ShTypeOK'
  BY SMTT(40), <1>0, HandlesAssumption, <1>p, <1>s, <1>u, <1>n
     DEF ShTypeOK, Tasks, Objects, Index0, Object0, cache, evicting
<1>2. Sound'
  <2>1. Quiet(w, {})
    BY Zenon, <1>0, HandlesAssumption, <1>p, <1>s, <1>u, <1>n
       DEF Quiet, Located, ShTypeOK, Tasks, Objects, Index0, Object0, cache, evicting
  <2> QED
    BY Zenon, <1>0, <1>1, <2>1, QuietKeeps DEF Alive, Tasks
<1>3. Located'
  BY Zenon, <1>0, HandlesAssumption, <1>p, <1>s, <1>u, <1>n
     DEF Located, ShTypeOK, Tasks, Objects, Index0, Object0, cache, evicting
<1>4. HandlesBounded'
  <2>1. Openers' = Openers \ {w} /\ w \in Openers
    BY Zenon, <1>0, <1>s DEF Openers, ShTypeOK, Tasks
  <2>2. Cardinality(Openers') = Cardinality(Openers) - 1
    BY Zenon, <2>1, CountsAreNaturals, FS_RemoveElement
  <2>3. Alive' = Alive \cup {o} /\ o \notin Alive
    BY Zenon, <1>0, <1>p, <1>u DEF Alive, ShTypeOK, Index0
  <2>4. Cardinality(Alive') = Cardinality(Alive) + 1
    BY Zenon, <2>3, CountsAreNaturals, FS_AddElement
  <2>5. Cardinality(Alive) + Cardinality(Openers) <= live /\ live <= MaxHandles /\ live \in Nat
    BY Zenon, <1>0 DEF HandlesBounded, Openers, ShTypeOK
  <2>6. Cardinality(Alive') + Cardinality(Openers') <= live' /\ live' <= MaxHandles
    BY SMTT(40), <1>s, <2>2, <2>4, <2>5, CountsAreNaturals
  <2> QED
    BY Zenon, <2>6 DEF HandlesBounded, Openers
<1> QED
  BY Zenon, <1>1, <1>2, <1>3, <1>4 DEF HandlesInv

\* The invariant is kept: the handle another writer inserted is used, the new one dropped.
LEMMA UseExistingKeeps ==
  ASSUME HandlesInv, NEW w \in Writers, UseExisting(w)
  PROVE  HandlesInv'
<1>0. /\ ShTypeOK /\ Sound /\ Located /\ HandlesBounded
      /\ Rooted /\ Apart /\ Counted /\ Private
  BY Zenon DEF HandlesInv, Sound
<1>s. /\ step[w] = "insert" /\ step' = [step EXCEPT ![w] = "write"]
      /\ cached[file[w]] # 0 /\ object' = [object EXCEPT ![w] = cached[file[w]]]
      /\ users' = [users EXCEPT ![object[w]] = {}, ![cached[file[w]]] = @ \cup {w}]
      /\ Close({object[w]})
      /\ UNCHANGED <<cache, file, evicting, mishaps>>
  BY Zenon DEF UseExisting, To
<1>e. /\ file[w] \in Files /\ cached[file[w]] \in Objects /\ object[w] \in Objects
      /\ object[w] # cached[file[w]] /\ file_of[object[w]] # 0
  BY <1>0, <1>s, HandlesAssumption
     DEF Located, Private, Rooted, ShTypeOK, Tasks, Objects, Object0
<1>u. /\ users' \in [Objects -> SUBSET Writers]
      /\ \A p \in Objects \ {object[w]} : users[p] \subseteq users'[p]
      /\ w \in users'[cached[file[w]]]
  <2>1. {} \in SUBSET Writers /\ users[cached[file[w]]] \cup {w} \in SUBSET Writers
    BY Zenon, <1>0, <1>e DEF ShTypeOK
  <2>2. users \in [Objects -> SUBSET Writers]
    BY Zenon, <1>0 DEF ShTypeOK
  <2>3. users' \in [Objects -> SUBSET Writers]
    BY Zenon, <1>s, <1>e, <2>1, <2>2
  <2>4. \A p \in Objects :
          users'[p] = IF p = cached[file[w]] THEN users[p] \cup {w}
                      ELSE IF p = object[w] THEN {} ELSE users[p]
    BY Zenon, <1>s, <1>e, <2>2
  <2> QED
    BY Zenon, <1>e, <2>3, <2>4
<1>o. {object[w]} \subseteq Alive
  BY Zenon, <1>e DEF Alive
<1>c. /\ file_of' \in [Objects -> Index0]
      /\ \A o \in Objects : file_of'[o] = IF o \in {object[w]} THEN 0 ELSE file_of[o]
      /\ live' \in Nat /\ live' <= MaxHandles /\ Cardinality(Alive') \in Nat
      /\ Cardinality(Alive') + Cardinality(Openers) <= live'
  BY Zenon, <1>0, <1>s, <1>o, Closing
<1>1. ShTypeOK'
  BY Zenon, <1>0, HandlesAssumption, <1>s, <1>e, <1>u, <1>c
     DEF ShTypeOK, Tasks, Objects, Index0, Object0, cache, evicting
<1>2. Sound'
  <2>1. Quiet(w, {object[w]})
    BY SMTT(40), <1>0, HandlesAssumption, <1>s, <1>e, <1>u, <1>c
       DEF Quiet, Rooted, Private, ShTypeOK, Tasks, Objects, Index0, Object0, cache,
           evicting
  <2> QED
    BY ZenonT(40), <1>0, <1>1, <2>1, <1>o, QuietKeeps DEF Alive
<1>3. Located'
  BY ZenonT(40), <1>0, HandlesAssumption, <1>s, <1>e, <1>u, <1>c
     DEF Located, ShTypeOK, Tasks, Objects, Index0, Object0, cache, evicting
<1>4. HandlesBounded'
  <2>1. Openers' \subseteq Openers
    BY Zenon, <1>0, <1>s DEF Openers, ShTypeOK, Tasks
  <2> QED
    BY <1>c, <2>1, FewerOpeners, CountsAreNaturals DEF HandlesBounded, Openers
<1> QED
  BY Zenon, <1>1, <1>2, <1>3, <1>4 DEF HandlesInv

\* The invariant is kept: the new handle is inserted where the cache has room.
LEMMA InsertWithRoomKeeps ==
  ASSUME HandlesInv, NEW w \in Writers, Insert(w), Cardinality(Cached) < CacheLimit
  PROVE  HandlesInv'
<1>0. /\ ShTypeOK /\ Sound /\ Located /\ HandlesBounded
      /\ Rooted /\ Apart /\ Counted /\ Private
  BY Zenon DEF HandlesInv, Sound
<1>f. /\ step[w] = "insert" /\ file[w] \in Files /\ file[w] # 0 /\ object[w] \in Objects
  BY <1>0, HandlesAssumption DEF Insert, Located, Private, ShTypeOK, Tasks, Objects, Object0
<1>s. /\ cached' = [cached EXCEPT ![file[w]] = object[w]]
      /\ step' = [step EXCEPT ![w] = "write"]
      /\ UNCHANGED <<retired, unflushed, objects_, writer_vars, evicting, mishaps>>
  BY Zenon DEF Insert, To
<1>1. ShTypeOK'
  BY Zenon, <1>0, HandlesAssumption, <1>f, <1>s
     DEF ShTypeOK, Tasks, Objects, Index0, Object0, objects_, writer_vars, evicting
<1>2. Sound'
  <2>1. Handover(w, {})
    BY Zenon, <1>0, HandlesAssumption, <1>f, <1>s
       DEF Handover, Rooted, Counted, Located, ShTypeOK, Tasks, Objects, Index0, Object0,
           objects_, writer_vars, evicting
  <2> QED
    BY Zenon, <1>0, <1>1, <2>1, HandoverKeeps DEF Alive, Tasks
<1>3. Located'
  BY SMTT(40), <1>0, HandlesAssumption, <1>f, <1>s
     DEF Located, ShTypeOK, Tasks, Objects, Index0, Object0, objects_, writer_vars, evicting
<1>4. HandlesBounded'
  <2>1. Openers' \subseteq Openers /\ Alive' = Alive /\ live' = live
    BY Zenon, <1>0, HandlesAssumption, <1>f, <1>s
       DEF Openers, Alive, ShTypeOK, Tasks, Objects, Index0, Object0, objects_, writer_vars,
           evicting
  <2> QED
    BY SMTT(40), <1>0, <2>1, FewerOpeners, CountsAreNaturals DEF HandlesBounded, Openers, ShTypeOK
<1> QED
  BY Zenon, <1>1, <1>2, <1>3, <1>4 DEF HandlesInv

\* The invariant is kept: the oldest handle makes room for the new one.
LEMMA InsertEvictingKeeps ==
  ASSUME HandlesInv, NEW w \in Writers, Insert(w), ~(Cardinality(Cached) < CacheLimit)
  PROVE  HandlesInv'
<1>0. /\ ShTypeOK /\ Sound /\ Located /\ HandlesBounded
      /\ Rooted /\ Apart /\ Counted /\ Private
  BY Zenon DEF HandlesInv, Sound
<1>f. /\ step[w] = "insert" /\ file[w] \in Files /\ file[w] # 0 /\ object[w] \in Objects
  BY <1>0, HandlesAssumption DEF Insert, Located, Private, ShTypeOK, Tasks, Objects, Object0
<1>m. Cached # {}
  BY FS_EmptySet, HandlesAssumption
<1>e. PICK old \in Objects, f \in Files :
        /\ cached[f] = old /\ evicted' = [evicted EXCEPT ![w] = old]
        /\ cached' = [Uncached(old) EXCEPT ![file[w]] = object[w]]
        /\ index' = [index EXCEPT ![w] = f]
  BY Zenon, <1>0, <1>m, OldestIsCached DEF Insert
<1>s. /\ step' = [step EXCEPT ![w] = "flush"]
      /\ UNCHANGED <<retired, unflushed, objects_, writer_vars, mishaps>>
  BY Zenon DEF Insert, To
<1>c. /\ cached' \in [Files -> Object0]
      /\ \A g \in Files : cached'[g] = IF g = file[w] THEN object[w]
                                       ELSE IF cached[g] = old THEN 0 ELSE cached[g]
  BY <1>0, <1>e, <1>f, HandlesAssumption DEF Uncached, ShTypeOK, Objects, Object0
<1>1. ShTypeOK'
  BY Zenon, <1>0, HandlesAssumption, <1>c, <1>e, <1>f, <1>s
     DEF ShTypeOK, Tasks, Objects, Index0, Object0, objects_, writer_vars
<1>2. Sound'
  <2>1. Handover(w, {})
    BY ZenonT(40), <1>0, HandlesAssumption, <1>c, <1>e, <1>f, <1>s
       DEF Handover, Rooted, Private, ShTypeOK, Tasks, Objects, Index0, Object0, objects_,
           writer_vars
  <2> QED
    BY Zenon, <1>0, <1>1, <2>1, HandoverKeeps DEF Alive, Tasks
<1>3. Located'
  BY SMTT(40), <1>0, HandlesAssumption, <1>c, <1>e, <1>f, <1>s
     DEF Located, ShTypeOK, Tasks, Objects, Index0, Object0, objects_, writer_vars
<1>4. HandlesBounded'
  <2>1. Openers' \subseteq Openers /\ Alive' = Alive /\ live' = live
    BY ZenonT(40), <1>0, HandlesAssumption, <1>c, <1>e, <1>f, <1>s
       DEF Openers, Alive, ShTypeOK, Tasks, Objects, Index0, Object0, objects_, writer_vars
  <2> QED
    BY <1>0, <2>1, FewerOpeners, CountsAreNaturals DEF HandlesBounded, Openers, ShTypeOK
<1> QED
  BY Zenon, <1>1, <1>2, <1>3, <1>4 DEF HandlesInv

\* The invariant is kept: the last user of a handle nothing else holds closes it.
LEMMA WriteKeeps ==
  ASSUME HandlesInv, NEW w \in Writers, Write(w)
  PROVE  HandlesInv'
<1>0. /\ ShTypeOK /\ Sound /\ Located /\ HandlesBounded
      /\ Rooted /\ Apart /\ Counted /\ Private
  BY Zenon DEF HandlesInv, Sound
<1>s. /\ step[w] = "write" /\ step' = [step EXCEPT ![w] = "idle"]
      /\ file' = [file EXCEPT ![w] = 0] /\ object' = [object EXCEPT ![w] = 0]
      /\ users' = [users EXCEPT ![object[w]] = @ \ {w}]
      /\ Close({o \in {object[w]} : ~Reachable(o) /\ users[o] = {w}})
      /\ UNCHANGED <<cache, evicting, mishaps>>
  BY Zenon DEF Write, Leave, To
<1>e. object[w] \in Objects /\ file_of[object[w]] # 0
  BY <1>0, <1>s, HandlesAssumption DEF Located, Rooted, ShTypeOK, Tasks, Objects, Object0
<1>u. /\ users' \in [Objects -> SUBSET Writers]
      /\ \A p \in Objects : users'[p] = IF p = object[w] THEN users[p] \ {w} ELSE users[p]
  BY Zenon, <1>0, <1>e, <1>s, UserLeaves DEF ShTypeOK
<1> DEFINE os == {o \in {object[w]} : ~Reachable(o) /\ users[o] = {w}}
<1>o. /\ os \subseteq Alive
      /\ \A o \in os : /\ o = object[w] /\ users[o] = {w} /\ retired[o] = 0
                       /\ \A f \in Files : cached[f] # o
                       /\ \A t \in Tasks : evicted[t] # o
  BY <1>e, HandlesAssumption DEF Alive, Reachable, Cached, Retired, Objects
<1>d. Close(os)
  BY Zenon, <1>s
<1> HIDE DEF os
<1>c. /\ file_of' \in [Objects -> Index0]
      /\ \A o \in Objects : file_of'[o] = IF o \in os THEN 0 ELSE file_of[o]
      /\ live' \in Nat /\ live' <= MaxHandles /\ Cardinality(Alive') \in Nat
      /\ Cardinality(Alive') + Cardinality(Openers) <= live'
  BY Zenon, <1>0, <1>d, <1>o, Closing
<1>g. /\ step[w] = "write" /\ step' = [step EXCEPT ![w] = "idle"]
      /\ file' = [file EXCEPT ![w] = 0] /\ object' = [object EXCEPT ![w] = 0]
      /\ UNCHANGED <<cache, evicting, mishaps>>
  BY Zenon, <1>s
<1>1. ShTypeOK'
  BY SMTT(40), <1>0, HandlesAssumption, <1>c, <1>e, <1>g, <1>o, <1>u
     DEF ShTypeOK, Tasks, Objects, Index0, Object0, cache, evicting
<1>2. Sound'
  <2>1. Quiet(w, os)
    BY SMTT(40), <1>0, HandlesAssumption, <1>c, <1>e, <1>g, <1>o, <1>u
       DEF Quiet, Rooted, Counted, Located, ShTypeOK, Tasks, Objects, Index0, Object0,
           cache, evicting
  <2> QED
    BY ZenonT(40), <1>0, <1>1, <2>1, <1>o, QuietKeeps DEF Alive, Tasks
<1>3. Located'
  BY Zenon, <1>0, HandlesAssumption, <1>c, <1>e, <1>g, <1>o, <1>u
     DEF Located, ShTypeOK, Tasks, Objects, Index0, Object0, cache, evicting
<1>4. HandlesBounded'
  <2>1. Openers' \subseteq Openers
    BY Zenon, <1>0, <1>s DEF Openers, ShTypeOK, Tasks
  <2> QED
    BY <1>c, <2>1, FewerOpeners, CountsAreNaturals DEF HandlesBounded, Openers
<1> QED
  BY Zenon, <1>1, <1>2, <1>3, <1>4 DEF HandlesInv

\* The invariant is kept: an eviction drops what is finished and chooses an index.
LEMMA ChooseLruKeeps ==
  ASSUME HandlesInv, NEW t \in Tasks, ChooseLru(t)
  PROVE  HandlesInv'
<1>0. /\ ShTypeOK /\ Sound /\ Located /\ HandlesBounded
      /\ Rooted /\ Apart /\ Counted /\ Private
  BY Zenon DEF HandlesInv, Sound
<1>s. /\ (t \in Evictors /\ step[t] = "idle") \/ step[t] = "slot"
      /\ UNCHANGED <<cached, unflushed, users, writer_vars, evicted, mishaps>>
      /\ step' = step \/ step' = [step EXCEPT ![t] = "remove"]
  BY Zenon DEF ChooseLru, Short, To
<1>i. /\ index' \in [Tasks -> Index0]
      /\ \A u \in Tasks \ {t} : index'[u] = index[u]
      /\ index'[t] # index[t] \/ step' # step => index'[t] \in Files
  <2>1. CASE UNCHANGED <<index, step>>
    BY Zenon, <1>0, <2>1 DEF ShTypeOK
  <2>2. ASSUME NEW f \in Files, index' = [index EXCEPT ![t] = f]
        PROVE  <1>i!1
    BY Zenon, <1>0, <2>2 DEF ShTypeOK, Index0
  <2> QED
    BY Zenon, <2>1, <2>2 DEF ChooseLru
<1>c. /\ Sound' /\ retired' \in [Objects -> Index0] /\ file_of' \in [Objects -> Index0]
      /\ live' \in Nat /\ live' <= MaxHandles /\ Cardinality(Alive') \in Nat
      /\ Cardinality(Alive') + Cardinality(Openers) <= live'
  <2>1. \A u \in Tasks : step'[u] = "insert" => step[u] = "insert"
    BY Zenon, <1>0, <1>s DEF ShTypeOK
  <2> QED
    BY Zenon, <1>0, <1>s, <2>1, PruneKeeps DEF ChooseLru, Finished, writer_vars
<1>1. ShTypeOK'
  BY Zenon, <1>0, HandlesAssumption, <1>c, <1>i, <1>s
     DEF ShTypeOK, Tasks, Objects, Index0, Object0, cache, writer_vars
<1>2. Sound'
  BY Zenon, <1>c
<1>3. Located'
  BY ZenonT(40), <1>0, HandlesAssumption, <1>c, <1>i, <1>s
     DEF Located, ShTypeOK, Tasks, Objects, Index0, Object0, cache, writer_vars
<1>4. HandlesBounded'
  <2>1. Openers' \subseteq Openers
    BY Zenon, <1>0, <1>s DEF Openers, ShTypeOK, Tasks
  <2> QED
    BY <1>c, <2>1, FewerOpeners, CountsAreNaturals DEF HandlesBounded, Openers
<1> QED
  BY Zenon, <1>1, <1>2, <1>3, <1>4 DEF HandlesInv

\* The invariant is kept: an eviction that finds the cache empty goes back.
LEMMA RemoveNothingKeeps ==
  ASSUME HandlesInv, NEW t \in Tasks, RemoveLru(t), Cached = {}
  PROVE  HandlesInv'
<1>0. /\ ShTypeOK /\ Sound /\ Located /\ HandlesBounded
      /\ Rooted /\ Apart /\ Counted /\ Private
  BY Zenon DEF HandlesInv, Sound
<1>s. /\ step[t] = "remove"
      /\ UNCHANGED <<cache, objects_, writer_vars, evicted, mishaps>>
      /\ step' = [step EXCEPT ![t] = Back(t)] /\ index' = [index EXCEPT ![t] = 0]
  BY Zenon DEF RemoveLru, To, cache
<1>b. Back(t) \in {"idle", "slot"}
  BY Zenon DEF Back
<1>1. ShTypeOK'
  BY Zenon, <1>0, HandlesAssumption, <1>b, <1>s
     DEF ShTypeOK, Tasks, Objects, Index0, Object0, cache, objects_, writer_vars
<1>2. Sound'
  <2>1. Quiet(t, {})
    BY Zenon, <1>0, HandlesAssumption, <1>b, <1>s
       DEF Quiet, Rooted, Counted, Located, ShTypeOK, Tasks, Objects, Index0, Object0,
           cache, objects_, writer_vars
  <2> QED
    BY Zenon, <1>0, <1>1, <2>1, QuietKeeps DEF Alive, Tasks
<1>3. Located'
  BY Zenon, <1>0, HandlesAssumption, <1>b, <1>s
     DEF Located, ShTypeOK, Tasks, Objects, Index0, Object0, cache, objects_, writer_vars
<1>4. HandlesBounded'
  <2>1. Openers' \subseteq Openers /\ Alive' = Alive /\ live' = live
    BY Zenon, <1>0, HandlesAssumption, <1>b, <1>s
       DEF Openers, Alive, ShTypeOK, Tasks, Objects, Index0, Object0, cache, objects_,
           writer_vars
  <2> QED
    BY <1>0, <2>1, FewerOpeners, CountsAreNaturals DEF HandlesBounded, Openers, ShTypeOK
<1> QED
  BY Zenon, <1>1, <1>2, <1>3, <1>4 DEF HandlesInv

\* The invariant is kept: the oldest handle leaves the cache.
LEMMA RemoveLruKeeps ==
  ASSUME HandlesInv, NEW t \in Tasks, RemoveLru(t), Cached # {}
  PROVE  HandlesInv'
<1>0. /\ ShTypeOK /\ Sound /\ Located /\ HandlesBounded
      /\ Rooted /\ Apart /\ Counted /\ Private
  BY Zenon DEF HandlesInv, Sound
<1>s. /\ step[t] = "remove" /\ step' = [step EXCEPT ![t] = "evict"]
      /\ UNCHANGED <<retired, unflushed, objects_, writer_vars, index, mishaps>>
  BY Zenon DEF RemoveLru, To
<1>e. PICK old \in Objects, f \in Files : /\ cached[f] = old /\ cached' = Uncached(old)
                                          /\ evicted' = [evicted EXCEPT ![t] = old]
  BY Zenon, <1>0, OldestIsCached DEF RemoveLru
<1>c. /\ cached' \in [Files -> Object0]
      /\ \A g \in Files : cached'[g] = IF cached[g] = old THEN 0 ELSE cached[g]
  BY <1>0, <1>e, HandlesAssumption DEF Uncached, ShTypeOK, Objects, Object0
<1>1. ShTypeOK'
  BY Zenon, <1>0, HandlesAssumption, <1>c, <1>e, <1>s
     DEF ShTypeOK, Tasks, Objects, Index0, Object0, objects_, writer_vars
<1>2. Sound'
  <2>1. Handover(t, {})
    BY Zenon, <1>0, HandlesAssumption, <1>c, <1>e, <1>s
       DEF Handover, Counted, ShTypeOK, Tasks, Objects, Index0, Object0, objects_, writer_vars
  <2> QED
    BY Zenon, <1>0, <1>1, <2>1, HandoverKeeps DEF Alive, Tasks
<1>3. Located'
  BY Zenon, <1>0, HandlesAssumption, <1>c, <1>e, <1>s
     DEF Located, ShTypeOK, Tasks, Objects, Index0, Object0, objects_, writer_vars
<1>4. HandlesBounded'
  <2>1. Openers' \subseteq Openers /\ Alive' = Alive /\ live' = live
    BY Zenon, <1>0, HandlesAssumption, <1>c, <1>e, <1>s
       DEF Openers, Alive, ShTypeOK, Tasks, Objects, Index0, Object0, objects_, writer_vars
  <2> QED
    BY <1>0, <2>1, FewerOpeners, CountsAreNaturals DEF HandlesBounded, Openers, ShTypeOK
<1> QED
  BY Zenon, <1>1, <1>2, <1>3, <1>4 DEF HandlesInv

\* The invariant is kept: an evicted handle that a writer uses is retired.
LEMMA RetireKeeps ==
  ASSUME HandlesInv, NEW t \in Tasks, RetireOrRelease(t), users[evicted[t]] # {}
  PROVE  HandlesInv'
<1>0. /\ ShTypeOK /\ Sound /\ Located /\ HandlesBounded
      /\ Rooted /\ Apart /\ Counted /\ Private
  BY Zenon DEF HandlesInv, Sound
<1>b. Back(t) \in {"idle", "slot"} /\ (IF step[t] = "flush" THEN "write" ELSE Back(t)) \in {"idle", "slot", "write"}
  BY Zenon DEF Back
<1>e. /\ evicted[t] \in Objects /\ step[t] \in {"flush", "evict"} /\ index[t] \in Files /\ index[t] # 0
  BY <1>0, HandlesAssumption DEF RetireOrRelease, Located, ShTypeOK, Objects, Object0
<1>s. /\ retired' = [retired EXCEPT ![evicted[t]] = index[t]]
      /\ evicted' = [evicted EXCEPT ![t] = 0] /\ index' = [index EXCEPT ![t] = 0]
      /\ step' = [step EXCEPT ![t] = IF step[t] = "flush" THEN "write" ELSE Back(t)]
      /\ UNCHANGED <<cached, unflushed, objects_, writer_vars, mishaps>>
  BY Zenon DEF RetireOrRelease, EvictedDone, To, objects_
<1>1. ShTypeOK'
  BY SMTT(40), <1>0, HandlesAssumption, <1>b, <1>e, <1>s
     DEF ShTypeOK, Tasks, Objects, Index0, Object0, objects_, writer_vars
<1>2. Sound'
  <2>1. Handover(t, {})
    BY SMTT(40), <1>0, HandlesAssumption, <1>b, <1>e, <1>s
       DEF Handover, Apart, Counted, ShTypeOK, Tasks, Objects, Index0, Object0, objects_,
           writer_vars
  <2> QED
    BY Zenon, <1>0, <1>1, <2>1, HandoverKeeps DEF Alive, Tasks
<1>3. Located'
  BY ZenonT(40), <1>0, HandlesAssumption, <1>b, <1>e, <1>s
     DEF Located, ShTypeOK, Tasks, Objects, Index0, Object0, objects_, writer_vars
<1>4. HandlesBounded'
  <2>1. Openers' \subseteq Openers /\ Alive' = Alive /\ live' = live
    BY Zenon, <1>0, HandlesAssumption, <1>b, <1>e, <1>s
       DEF Openers, Alive, ShTypeOK, Tasks, Objects, Index0, Object0, objects_, writer_vars
  <2> QED
    BY <1>0, <2>1, FewerOpeners, CountsAreNaturals DEF HandlesBounded, Openers, ShTypeOK
<1> QED
  BY Zenon, <1>1, <1>2, <1>3, <1>4 DEF HandlesInv

\* The invariant is kept: an evicted handle that nobody uses is closed.
LEMMA ReleaseKeeps ==
  ASSUME HandlesInv, NEW t \in Tasks, RetireOrRelease(t), users[evicted[t]] = {}
  PROVE  HandlesInv'
<1>0. /\ ShTypeOK /\ Sound /\ Located /\ HandlesBounded
      /\ Rooted /\ Apart /\ Counted /\ Private
  BY Zenon DEF HandlesInv, Sound
<1>b. Back(t) \in {"idle", "slot"} /\ (IF step[t] = "flush" THEN "write" ELSE Back(t)) \in {"idle", "slot", "write"}
  BY Zenon DEF Back
<1>e. /\ evicted[t] \in Objects /\ step[t] \in {"flush", "evict"} /\ index[t] \in Files /\ index[t] # 0
  BY <1>0, HandlesAssumption DEF RetireOrRelease, Located, ShTypeOK, Objects, Object0
<1>s. /\ evicted' = [evicted EXCEPT ![t] = 0] /\ index' = [index EXCEPT ![t] = 0]
      /\ step' = [step EXCEPT ![t] = IF step[t] = "flush" THEN "write" ELSE Back(t)]
      /\ UNCHANGED <<cache, users, writer_vars, mishaps>>
  BY Zenon DEF RetireOrRelease, EvictedDone, To, cache
<1>o. {evicted[t]} \subseteq Alive
  BY <1>0, <1>e, HandlesAssumption DEF Alive, Rooted, Objects
<1>c. /\ file_of' \in [Objects -> Index0]
      /\ \A o \in Objects : file_of'[o] = IF o \in {evicted[t]} THEN 0 ELSE file_of[o]
      /\ live' \in Nat /\ live' <= MaxHandles /\ Cardinality(Alive') \in Nat
      /\ Cardinality(Alive') + Cardinality(Openers) <= live'
  BY Zenon, <1>0, <1>o, Closing DEF RetireOrRelease
<1>1. ShTypeOK'
  BY SMTT(40), <1>0, HandlesAssumption, <1>b, <1>c, <1>e, <1>s
     DEF ShTypeOK, Tasks, Objects, Index0, Object0, cache, writer_vars
<1>2. Sound'
  <2>1. Handover(t, {evicted[t]})
    BY SMTT(40), <1>0, HandlesAssumption, <1>b, <1>c, <1>e, <1>s
       DEF Handover, Apart, Counted, ShTypeOK, Tasks, Objects, Index0, Object0, cache,
           writer_vars
  <2> QED
    BY ZenonT(40), <1>0, <1>1, <2>1, <1>o, HandoverKeeps DEF Alive, Tasks
<1>3. Located'
  BY Zenon, <1>0, HandlesAssumption, <1>b, <1>c, <1>e, <1>s
     DEF Located, ShTypeOK, Tasks, Objects, Index0, Object0, cache, writer_vars
<1>4. HandlesBounded'
  <2>1. Openers' \subseteq Openers
    BY Zenon, <1>0, <1>b, <1>s DEF Openers, ShTypeOK, Tasks
  <2> QED
    BY <1>c, <2>1, FewerOpeners, CountsAreNaturals DEF HandlesBounded, Openers
<1> QED
  BY Zenon, <1>1, <1>2, <1>3, <1>4 DEF HandlesInv

(* What a failed eviction leaves of its task and of the users. *)
FailureEffect(t) ==
  /\ evicted[t] \in Objects /\ step[t] \in {"flush", "evict"}
  /\ index[t] \in Files /\ index[t] # 0
  /\ mishaps < MaxMishaps /\ mishaps' = mishaps + 1
  /\ evicted' = [evicted EXCEPT ![t] = 0] /\ index' = [index EXCEPT ![t] = 0]
  /\ UNCHANGED <<file_of, live>>
  /\ file' \in [Tasks -> Index0] /\ object' \in [Tasks -> Object0]
  /\ step' \in [Tasks -> Places] /\ step'[t] \in {"idle", "slot"}
  /\ \A u \in Tasks \ {t} : file'[u] = file[u] /\ object'[u] = object[u] /\ step'[u] = step[u]
  /\ object'[t] = 0 \/ (object'[t] = object[t] /\ users' = users)
  /\ step'[t] # "idle" => file'[t] = file[t]
  /\ users' \in [Objects -> SUBSET Writers]
  /\ \A p \in Objects : users[p] \ {t} \subseteq users'[p]

(* An eviction that fails gives its error to a writer making room, which      *)
(* leaves, or goes back.                                                      *)
LEMMA FailureEffects ==
  ASSUME ShTypeOK, Located, NEW t \in Tasks, EvictionFails(t)
  PROVE  FailureEffect(t)
<1>1. /\ evicted[t] \in Objects /\ step[t] \in {"flush", "evict"}
      /\ index[t] \in Files /\ index[t] # 0
  BY SMTT(40), HandlesAssumption DEF EvictionFails, Located, ShTypeOK, Objects, Object0
<1>2. /\ mishaps < MaxMishaps /\ mishaps' = mishaps + 1
      /\ evicted' = [evicted EXCEPT ![t] = 0] /\ index' = [index EXCEPT ![t] = 0]
      /\ UNCHANGED <<file_of, live>>
  BY Zenon DEF EvictionFails, EvictedDone
<1>3. CASE step[t] = "flush"
  <2>1. object[t] \in Objects
    BY <1>3, HandlesAssumption DEF Located, ShTypeOK, Objects, Object0
  <2>2. /\ users' = [users EXCEPT ![object[t]] = @ \ {t}]
        /\ step' = [step EXCEPT ![t] = "idle"]
        /\ file' = [file EXCEPT ![t] = 0] /\ object' = [object EXCEPT ![t] = 0]
    BY Zenon, <1>3 DEF EvictionFails, Leave, To
  <2>3. /\ users' \in [Objects -> SUBSET Writers]
        /\ \A p \in Objects : users[p] \ {t} \subseteq users'[p]
    BY Zenon, <2>1, <2>2, UserLeaves DEF ShTypeOK
  <2> QED
    BY SMTT(40), <1>1, <1>2, <2>2, <2>3, HandlesAssumption
       DEF FailureEffect, ShTypeOK, Places, Index0, Object0
<1>4. CASE step[t] # "flush"
  <2>1. /\ step' = [step EXCEPT ![t] = Back(t)] /\ UNCHANGED <<users, writer_vars>>
        /\ Back(t) \in {"idle", "slot"}
    BY Zenon, <1>4 DEF EvictionFails, To, Back
  <2> QED
    BY Zenon, <1>1, <1>2, <1>4, <2>1 DEF FailureEffect, ShTypeOK, Places, writer_vars
<1> QED
  BY Zenon, <1>3, <1>4

\* The invariant is kept: a handle that could not be flushed goes back into the cache.
LEMMA PutBackKeeps ==
  ASSUME HandlesInv, NEW t \in Tasks, EvictionFails(t), cached[index[t]] = 0
  PROVE  HandlesInv'
<1>0. /\ ShTypeOK /\ Sound /\ Located /\ HandlesBounded
      /\ Rooted /\ Apart /\ Counted /\ Private
  BY Zenon DEF HandlesInv, Sound
<1>e. FailureEffect(t)
  BY Zenon, <1>0, FailureEffects
<1>c. cached' = [cached EXCEPT ![index[t]] = evicted[t]] /\ UNCHANGED <<retired, unflushed>>
  BY Zenon DEF EvictionFails
<1>1. ShTypeOK'
  BY SMTT(40), <1>0, HandlesAssumption, <1>c, <1>e
     DEF ShTypeOK, Places, FailureEffect, Tasks, Objects, Index0, Object0, cache
<1>2. Sound'
  <2>1. Handover(t, {})
    BY <1>0, HandlesAssumption, <1>c, <1>e
       DEF Handover, Counted, ShTypeOK, FailureEffect, Tasks, Objects, Index0, Object0,
           cache
  <2> QED
    BY Zenon, <1>0, <1>1, <2>1, HandoverKeeps DEF Alive, Tasks
<1>3. Located'
  BY Zenon, <1>0, HandlesAssumption, <1>c, <1>e
     DEF Located, ShTypeOK, FailureEffect, Tasks, Objects, Index0, Object0, cache
<1>4. HandlesBounded'
  <2>1. Openers' \subseteq Openers /\ Alive' = Alive /\ live' = live
    BY Zenon, <1>e DEF FailureEffect, Openers, Alive, Tasks
  <2> QED
    BY SMTT(40), <1>0, <2>1, FewerOpeners, CountsAreNaturals DEF HandlesBounded, Openers, ShTypeOK
<1> QED
  BY Zenon, <1>1, <1>2, <1>3, <1>4 DEF HandlesInv

\* The invariant is kept: a handle that could not be flushed is retired when the cache has another.
LEMMA RetireUnflushedKeeps ==
  ASSUME HandlesInv, NEW t \in Tasks, EvictionFails(t), cached[index[t]] # 0
  PROVE  HandlesInv'
<1>0. /\ ShTypeOK /\ Sound /\ Located /\ HandlesBounded
      /\ Rooted /\ Apart /\ Counted /\ Private
  BY Zenon DEF HandlesInv, Sound
<1>e. FailureEffect(t)
  BY Zenon, <1>0, FailureEffects
<1>c. /\ retired' \in [Objects -> Index0] /\ unflushed' \subseteq Objects /\ cached' = cached
      /\ \A o \in Objects : retired'[o] = IF o = evicted[t] THEN index[t] ELSE retired[o]
  BY ZenonT(40), <1>0, <1>e DEF FailureEffect, EvictionFails, ShTypeOK, Index0
<1>1. ShTypeOK'
  BY SMTT(20), <1>0, HandlesAssumption, <1>c, <1>e
     DEF ShTypeOK, Places, FailureEffect, Tasks, Objects, Index0, Object0
<1>2. Sound'
  <2>1. Handover(t, {})
    BY SMTT(40), <1>0, <1>c, <1>e, HandlesAssumption
       DEF Handover, Apart, ShTypeOK, FailureEffect, Objects
  <2> QED
    BY Zenon, <1>0, <1>1, <2>1, HandoverKeeps DEF Alive, Tasks
<1>3. Located'
  BY Zenon, <1>0, HandlesAssumption, <1>c, <1>e
     DEF Located, ShTypeOK, FailureEffect, Tasks, Objects, Index0, Object0
<1>4. HandlesBounded'
  <2>1. Openers' \subseteq Openers /\ Alive' = Alive /\ live' = live
    BY Zenon, <1>e DEF FailureEffect, Openers, Alive, Tasks
  <2> QED
    BY SMTT(20), <1>0, <2>1, FewerOpeners, CountsAreNaturals DEF HandlesBounded, Openers, ShTypeOK
<1> QED
  BY Zenon, <1>1, <1>2, <1>3, <1>4 DEF HandlesInv

\* The invariant is kept: the barrier closes the retired handles nobody uses.
LEMMA FlushAllKeeps ==
  ASSUME HandlesInv, FlushAll
  PROVE  HandlesInv'
<1>0. /\ ShTypeOK /\ Sound /\ Located /\ HandlesBounded
      /\ Rooted /\ Apart /\ Counted /\ Private
  BY Zenon DEF HandlesInv, Sound
<1>s. unflushed' = {} /\ UNCHANGED <<cached, users, step, writer_vars, evicting, mishaps>>
  BY Zenon DEF FlushAll
<1>c. /\ Sound' /\ retired' \in [Objects -> Index0] /\ file_of' \in [Objects -> Index0]
      /\ live' \in Nat /\ live' <= MaxHandles /\ Cardinality(Alive') \in Nat
      /\ Cardinality(Alive') + Cardinality(Openers) <= live'
  BY Zenon, <1>0, <1>s, PruneKeeps DEF FlushAll, writer_vars, evicting
<1>1. ShTypeOK'
  BY Zenon, <1>0, HandlesAssumption, <1>c, <1>s
     DEF ShTypeOK, Tasks, Objects, Index0, Object0, writer_vars, evicting
<1>2. Sound'
  BY Zenon, <1>c
<1>3. Located'
  BY ZenonT(40), <1>0, HandlesAssumption, <1>c, <1>s
     DEF Located, ShTypeOK, Tasks, Objects, Index0, Object0, writer_vars, evicting
<1>4. HandlesBounded'
  <2>1. Openers' \subseteq Openers
    BY Zenon, <1>0, <1>s DEF Openers, ShTypeOK, Tasks
  <2> QED
    BY SMTT(40), <1>c, <2>1, FewerOpeners, CountsAreNaturals DEF HandlesBounded, Openers
<1> QED
  BY Zenon, <1>1, <1>2, <1>3, <1>4 DEF HandlesInv

\* The invariant is kept: an aborted writer drops its references and closes what only it held.
LEMMA AbortWriterKeeps ==
  ASSUME HandlesInv, NEW w \in Writers, AbortWriter(w)
  PROVE  HandlesInv'
<1>0. /\ ShTypeOK /\ Sound /\ Located /\ HandlesBounded
      /\ Rooted /\ Apart /\ Counted /\ Private
  BY Zenon DEF HandlesInv, Sound
<1> DEFINE os == {o \in {object[w], evicted[w]} \ {0} :
                    /\ o \notin Cached \cup Retired \cup {evicted[t] : t \in Tasks \ {w}}
                    /\ users[o] \subseteq {w}}
<1>d. Close(os)
  BY Zenon DEF AbortWriter
<1>o. /\ os \subseteq Alive /\ os \subseteq Objects
      /\ \A o \in os : /\ retired[o] = 0 /\ users[o] \subseteq {w}
                       /\ \A f \in Files : cached[f] # o
                       /\ \A t \in Tasks \ {w} : evicted[t] # o
  <2>1. os \subseteq {object[w], evicted[w]} \ {0}
    BY Zenon
  <2>2. os \subseteq Objects
    BY <1>0, <2>1, HandlesAssumption DEF ShTypeOK, Objects, Object0, Tasks
  <2>3. os \subseteq Alive
    BY Zenon, <1>0, <2>1, <2>2 DEF Alive, Rooted, Tasks
  <2> QED
    BY Zenon, <2>2, <2>3, HandlesAssumption DEF Cached, Retired, Objects
<1> HIDE DEF os
<1>c. /\ file_of' \in [Objects -> Index0]
      /\ \A o \in Objects : file_of'[o] = IF o \in os THEN 0 ELSE file_of[o]
      /\ live' \in Nat /\ live' <= MaxHandles /\ Cardinality(Alive') \in Nat
      /\ Cardinality(Alive') + Cardinality(Openers) <= live'
  BY Zenon, <1>0, <1>d, <1>o, Closing
<1>s. /\ step' = [step EXCEPT ![w] = "idle"] /\ mishaps < MaxMishaps /\ mishaps' = mishaps + 1
      /\ file' = [file EXCEPT ![w] = 0] /\ object' = [object EXCEPT ![w] = 0]
      /\ evicted' = [evicted EXCEPT ![w] = 0] /\ index' = [index EXCEPT ![w] = 0]
      /\ UNCHANGED cache
  BY Zenon DEF AbortWriter, Leave, To, EvictedDone
<1>u. /\ users' \in [Objects -> SUBSET Writers]
      /\ \A o \in Objects : users'[o] = users[o] \ {w}
  BY Zenon, <1>0 DEF AbortWriter, ShTypeOK
<1>1. ShTypeOK'
  BY SMTT(40), <1>0, HandlesAssumption, <1>c, <1>o, <1>s, <1>u
     DEF ShTypeOK, Tasks, Objects, Index0, Object0, cache
<1>2. Sound'
  <2>1. Handover(w, os)
    BY SMTT(40), <1>0, HandlesAssumption, <1>c, <1>o, <1>s, <1>u
       DEF Handover, Counted, ShTypeOK, Tasks, Objects, Index0, Object0, cache
  <2> QED
    BY ZenonT(40), <1>0, <1>1, <2>1, <1>o, HandoverKeeps DEF Alive, Tasks
<1>3. Located'
  BY ZenonT(40), <1>0, HandlesAssumption, <1>c, <1>o, <1>s, <1>u
     DEF Located, ShTypeOK, Tasks, Objects, Index0, Object0, cache
<1>4. HandlesBounded'
  <2>1. Openers' \subseteq Openers
    BY Zenon, <1>0, <1>s DEF Openers, ShTypeOK, Tasks
  <2> QED
    BY <1>c, <2>1, FewerOpeners, CountsAreNaturals DEF HandlesBounded, Openers
<1> QED
  BY Zenon, <1>1, <1>2, <1>3, <1>4 DEF HandlesInv

\* HandlesInv is inductive.
LEMMA HandlesInvHolds == ShSpec => []HandlesInv
<1>1. ShInit => HandlesInv
  <2> SUFFICES ASSUME ShInit PROVE HandlesInv
    BY Zenon
  <2>1. ShTypeOK
    BY HandlesAssumption DEF ShInit, ShTypeOK, Index0, Object0, Objects
  <2>2. Rooted /\ Apart /\ Counted /\ Private /\ Located
    BY Zenon DEF ShInit, Rooted, Apart, Counted, Private, Located, Tasks
  <2>3. HandlesBounded
    <3>1. Alive = {} /\ {w \in Writers : step[w] = "open"} = {}
      BY Zenon DEF ShInit, Alive, Tasks
    <3> QED
      BY SMTT(40), <3>1, FS_EmptySet, HandlesAssumption DEF ShInit, HandlesBounded
  <2> QED
    BY Zenon, <2>1, <2>2, <2>3 DEF HandlesInv, Sound
<1>2. HandlesInv /\ [ShNext]_sh_vars => HandlesInv'
  <2> SUFFICES ASSUME HandlesInv, [ShNext]_sh_vars PROVE HandlesInv'
    BY Zenon
  <2>1. ASSUME NEW w \in Writers, Writer(w) PROVE HandlesInv'
    BY Zenon, <2>1, PassRetiredKeeps, FlushPendingKeeps, AcquireKeeps, OpenKeeps, OpenFailsKeeps, UseExistingKeeps, InsertWithRoomKeeps, InsertEvictingKeeps, WriteKeeps
       DEF Writer
  <2>2. ASSUME NEW w \in Writers, AbortWriter(w) PROVE HandlesInv'
    BY Zenon, <2>2, AbortWriterKeeps
  <2>3. ASSUME NEW w \in Writers, NEW f \in Files, Begin(w, f) PROVE HandlesInv'
    BY Zenon, <2>3, BeginKeeps
  <2>4. ASSUME NEW t \in Tasks, Evict(t) PROVE HandlesInv'
    BY Zenon, <2>4, ChooseLruKeeps, RemoveNothingKeeps, RemoveLruKeeps, RetireKeeps, ReleaseKeeps, PutBackKeeps, RetireUnflushedKeeps
       DEF Evict
  <2>5. CASE FlushAll
    BY Zenon, <2>5, FlushAllKeeps
  <2>6. CASE UNCHANGED sh_vars
    BY ZenonT(40), <2>6
       DEF HandlesInv, Sound, ShTypeOK, Rooted, Apart, Counted, Private, Located,
           HandlesBounded, Alive, sh_vars, cache, objects_, writer_vars, evicting
  <2> QED
    BY Zenon, <2>1, <2>2, <2>3, <2>4, <2>5, <2>6 DEF ShNext
<1> QED
  BY <1>1, <1>2, PTL DEF ShSpec

(* The budget covers what is open (StorageHandleBudget and                    *)
(* BudgetedWritableFile, storage/io/mod.rs): for any files, writers, other    *)
(* torrents and bounds, whatever is evicted, retired, duplicated, failed or   *)
(* aborted, every open object and every writer about to open one has a slot.  *)
THEOREM HandlesStayBounded == ShSpec => []HandlesBounded
<1>1. HandlesInv => HandlesBounded
  BY Zenon DEF HandlesInv
<1> QED
  BY <1>1, HandlesInvHolds, PTL

=============================================================================
