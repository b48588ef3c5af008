--------------------------- MODULE StorageHandles ---------------------------
(* The writable file handles of one torrent's storage and the process-wide    *)
(* budget they share (swarmotter-core/src/storage/io/mod.rs): a bounded cache *)
(* of handles, handles retired from it while a writer still uses them, and    *)
(* the barrier that flushes both before a verification, a checkpoint or a     *)
(* move.                                                                      *)
(*                                                                            *)
(* A file object is one tokio File behind its own mutex. The cache mutex is   *)
(* one critical section per step. last_used is set once, when an object is    *)
(* made, so the oldest object is the one evicted. Of the other torrents that  *)
(* share the budget only their calls of evict_one_lru appear. An acquire that *)
(* fails adds to the counter and takes back at once; that is one step here.   *)
EXTENDS Naturals, FiniteSets, FiniteSetsExt

CONSTANTS
  Files,         \* indices of payload files
  Writers,       \* tasks writing pieces
  Evictors,      \* tasks of other torrents evicting from this cache
  CacheLimit,    \* MAX_CACHED_WRITABLE_FILE_HANDLES
  MaxHandles,    \* StorageHandleBudget.max_writable_handles
  MaxObjects,    \* bound: file objects opened
  MaxMishaps     \* bound: flushes that fail and writers aborted in mid-operation

(* 0 stands for no file and for no object. *)
ASSUME HandlesAssumption ==
  /\ 0 \notin Files
  /\ IsFiniteSet(Writers) /\ Writers \cap Evictors = {}
  /\ CacheLimit \in Nat \ {0} /\ MaxHandles \in Nat
  /\ MaxObjects \in Nat /\ MaxMishaps \in Nat

Objects == 1 .. MaxObjects
Tasks == Writers \cup Evictors

VARIABLES
  cached,    \* WritableHandleCache.handles: index -> object, 0 for none
  retired,   \* WritableHandleCache.retired: object -> the index it is under, 0 for none
  unflushed, \* the retired objects with flush_pending
  file_of,   \* object -> its file; 0 while it is not open
  users,     \* object -> the writers holding a reference
  live,      \* StorageHandleBudget.live
  step,      \* where each task is
  file,      \* the file a writer writes
  index,     \* the index an eviction uses
  object,    \* the object a writer works on
  evicted,   \* the object a task took out of the cache and is flushing
  mishaps    \* flushes that failed and writers that were aborted

cache == <<cached, retired, unflushed>>
objects_ == <<file_of, users, live>>
writer_vars == <<file, object>>
evicting == <<index, evicted>>
sh_vars == <<cache, objects_, step, writer_vars, evicting, mishaps>>

Index0 == Files \cup {0}
Object0 == 0 .. MaxObjects

ShTypeOK ==
  /\ cached \in [Files -> Object0]
  /\ retired \in [Objects -> Index0] /\ unflushed \subseteq Objects
  /\ file_of \in [Objects -> Index0]
  /\ users \in [Objects -> SUBSET Writers]
  /\ live \in Nat
  /\ step \in [Tasks -> {"idle", "retired", "slot", "open", "insert", "flush", "write",
                         "remove", "evict"}]
  /\ file \in [Tasks -> Index0] /\ index \in [Tasks -> Index0]
  /\ object \in [Tasks -> Object0] /\ evicted \in [Tasks -> Object0]
  /\ mishaps \in 0 .. MaxMishaps

ShInit ==
  /\ cached = [f \in Files |-> 0]
  /\ retired = [o \in Objects |-> 0] /\ unflushed = {}
  /\ file_of = [o \in Objects |-> 0]
  /\ users = [o \in Objects |-> {}]
  /\ live = 0
  /\ step = [t \in Tasks |-> "idle"]
  /\ file = [t \in Tasks |-> 0] /\ index = [t \in Tasks |-> 0]
  /\ object = [t \in Tasks |-> 0] /\ evicted = [t \in Tasks |-> 0]
  /\ mishaps = 0

Cached == {cached[f] : f \in Files} \ {0}
Alive == {o \in Objects : file_of[o] # 0}
Oldest == Min(Cached)
Uncached(o) == [f \in Files |-> IF cached[f] = o THEN 0 ELSE cached[f]]
Retired == {o \in Objects : retired[o] # 0}
(* Retired handles nobody uses and whose flush did not fail. *)
Finished == {o \in Retired : users[o] = {} /\ o \notin unflushed}
(* The next object: newer than every open one. *)
Fresh == {o \in Objects : \A p \in Objects : p >= o => file_of[p] = 0}

To(t, s) == step' = [step EXCEPT ![t] = s]
Leave(w) == /\ To(w, "idle")
            /\ file' = [file EXCEPT ![w] = 0]
            /\ object' = [object EXCEPT ![w] = 0]

(* Dropping the last reference closes the file and gives the slot back         *)
(* (BudgetedWritableFile::drop).                                               *)
Close(os) == /\ file_of' = [o \in Objects |-> IF o \in os THEN 0 ELSE file_of[o]]
             /\ live' = live - Cardinality(os)
Prune(os) == /\ retired' = [o \in Objects |-> IF o \in os THEN 0 ELSE retired[o]]
             /\ Close(os)

-----------------------------------------------------------------------------
(* open_file_handle and write_file_slices for one slice. *)

Begin(w, f) ==
  /\ step[w] = "idle"
  /\ file' = [file EXCEPT ![w] = f]
  /\ IF cached[f] # 0
       THEN /\ object' = [object EXCEPT ![w] = cached[f]]
            /\ users' = [users EXCEPT ![cached[f]] = @ \cup {w}]
            /\ To(w, "write")
       ELSE UNCHANGED <<object, users>> /\ To(w, "retired")
  /\ UNCHANGED <<cache, file_of, live, evicting, mishaps>>

(* The wait for the retired handles of the same index: those nobody uses are   *)
(* dropped, a failed flush is tried again, the others are waited for.          *)
SameIndex(w) == {o \in Retired : retired[o] = file[w]}
PassRetired(w) ==
  /\ step[w] = "retired" /\ SameIndex(w) \subseteq Finished
  /\ Prune(SameIndex(w))
  /\ To(w, "slot")
  /\ UNCHANGED <<cached, unflushed, users, writer_vars, evicting, mishaps>>

FlushPending(w) ==
  /\ step[w] = "retired"
  /\ \E o \in SameIndex(w) \cap unflushed : unflushed' = unflushed \ {o}
  /\ UNCHANGED <<cached, retired, objects_, step, writer_vars, evicting, mishaps>>

(* StorageHandleBudget::acquire. *)
Acquire(w) ==
  /\ step[w] = "slot" /\ live < MaxHandles
  /\ live' = live + 1
  /\ To(w, "open")
  /\ UNCHANGED <<cache, file_of, users, writer_vars, evicting, mishaps>>

(* open_writable_payload_file *)
Open(w) ==
  /\ step[w] = "open"
  /\ \E o \in Fresh :
       /\ o = Min(Fresh)
       /\ file_of' = [file_of EXCEPT ![o] = file[w]]
       /\ users' = [users EXCEPT ![o] = {w}]
       /\ object' = [object EXCEPT ![w] = o]
  /\ To(w, "insert")
  /\ UNCHANGED <<cache, live, file, evicting, mishaps>>

OpenFails(w) ==
  /\ step[w] = "open"
  /\ live' = live - 1
  /\ Leave(w)
  /\ UNCHANGED <<cache, file_of, users, evicting, mishaps>>

(* Under the cache lock: the handle another writer put there meanwhile is used *)
(* and the new one dropped; else room is made and the new one inserted.        *)
UseExisting(w) ==
  /\ step[w] = "insert" /\ cached[file[w]] # 0
  /\ users' = [users EXCEPT ![object[w]] = {}, ![cached[file[w]]] = @ \cup {w}]
  /\ object' = [object EXCEPT ![w] = cached[file[w]]]
  /\ Close({object[w]})
  /\ To(w, "write")
  /\ UNCHANGED <<cache, file, evicting, mishaps>>

Insert(w) ==
  /\ step[w] = "insert" /\ cached[file[w]] = 0
  /\ IF Cardinality(Cached) < CacheLimit
       THEN /\ cached' = [cached EXCEPT ![file[w]] = object[w]]
            /\ To(w, "write")
            /\ UNCHANGED evicting
       ELSE /\ cached' = [Uncached(Oldest) EXCEPT ![file[w]] = object[w]]
            /\ evicted' = [evicted EXCEPT ![w] = Oldest]
            /\ \E f \in Files : cached[f] = Oldest /\ index' = [index EXCEPT ![w] = f]
            /\ To(w, "flush")
  /\ UNCHANGED <<retired, unflushed, objects_, writer_vars, mishaps>>

(* The bytes go into the buffer of the object and the reference is dropped; an *)
(* object that no set holds any more is closed with it.                        *)
Reachable(o) == o \in Cached \cup Retired \/ \E t \in Tasks : evicted[t] = o
Write(w) ==
  /\ step[w] = "write"
  /\ users' = [users EXCEPT ![object[w]] = @ \ {w}]
  /\ Close({o \in {object[w]} : ~Reachable(o) /\ users[o] = {w}})
  /\ Leave(w)
  /\ UNCHANGED <<cache, evicting, mishaps>>

-----------------------------------------------------------------------------
(* evict_one_lru, called by an acquire that finds the budget exhausted, of     *)
(* this torrent or of another. It prunes the retired set and chooses an index  *)
(* under the lock; the handle is chosen again under the next lock.             *)
Short(t) == \/ t \in Evictors /\ step[t] = "idle"
            \/ step[t] = "slot" /\ live >= MaxHandles
ChooseUnpruned(t) ==
  /\ Short(t) /\ Cached # {}
  /\ \E f \in Files : cached[f] = Oldest /\ index' = [index EXCEPT ![t] = f]
  /\ To(t, "remove")
  /\ UNCHANGED <<cache, objects_, writer_vars, evicted, mishaps>>
ChooseLru(t) ==
  /\ Short(t) /\ Cached \cup Finished # {}
  /\ Prune(Finished)
  /\ IF Cached = {}
       THEN UNCHANGED <<index, step>>
       ELSE /\ \E f \in Files : cached[f] = Oldest /\ index' = [index EXCEPT ![t] = f]
            /\ To(t, "remove")
  /\ UNCHANGED <<cached, unflushed, users, writer_vars, evicted, mishaps>>

Back(t) == IF t \in Evictors THEN "idle" ELSE "slot"
RemoveLru(t) ==
  /\ step[t] = "remove"
  /\ IF Cached = {}
       THEN /\ To(t, Back(t))
            /\ index' = [index EXCEPT ![t] = 0]
            /\ UNCHANGED <<cached, evicted>>
       ELSE /\ cached' = Uncached(Oldest)
            /\ evicted' = [evicted EXCEPT ![t] = Oldest]
            /\ To(t, "evict")
            /\ UNCHANGED index
  /\ UNCHANGED <<retired, unflushed, objects_, writer_vars, mishaps>>

(* The flush of the evicted handle succeeds: retire_or_release keeps it while  *)
(* a writer uses it and drops it otherwise.                                    *)
EvictedDone(t) ==
  /\ evicted' = [evicted EXCEPT ![t] = 0]
  /\ index' = [index EXCEPT ![t] = 0]
ReleaseInUse(t) ==
  /\ evicted[t] # 0
  /\ Close({evicted[t]})
  /\ EvictedDone(t)
  /\ To(t, IF step[t] = "flush" THEN "write" ELSE Back(t))
  /\ UNCHANGED <<cache, users, writer_vars, mishaps>>
RetireOrRelease(t) ==
  /\ evicted[t] # 0
  /\ IF users[evicted[t]] # {}
       THEN retired' = [retired EXCEPT ![evicted[t]] = index[t]] /\ UNCHANGED <<file_of, live>>
       ELSE Close({evicted[t]}) /\ UNCHANGED retired
  /\ EvictedDone(t)
  /\ To(t, IF step[t] = "flush" THEN "write" ELSE Back(t))
  /\ UNCHANGED <<cached, unflushed, users, writer_vars, mishaps>>

(* It fails: the handle goes back under the index, or among the retired when   *)
(* the cache has another there. A writer making room returns the error.        *)
EvictionFails(t) ==
  /\ evicted[t] # 0 /\ mishaps < MaxMishaps
  /\ mishaps' = mishaps + 1
  /\ IF cached[index[t]] = 0
       THEN cached' = [cached EXCEPT ![index[t]] = evicted[t]] /\ UNCHANGED <<retired, unflushed>>
       ELSE /\ retired' = [retired EXCEPT ![evicted[t]] = index[t]]
            /\ unflushed' = unflushed \cup {evicted[t]}
            /\ UNCHANGED cached
  /\ EvictedDone(t)
  /\ IF step[t] = "flush"
       THEN users' = [users EXCEPT ![object[t]] = @ \ {t}] /\ Leave(t)
       ELSE To(t, Back(t)) /\ UNCHANGED <<users, writer_vars>>
  /\ UNCHANGED <<file_of, live>>

(* flush_all_writable_handles: flushes the handles it sees, clears             *)
(* flush_pending and prunes.                                                   *)
FlushAll ==
  /\ Retired # {}
  /\ unflushed' = {}
  /\ Prune({o \in Retired : users[o] = {}})
  /\ UNCHANGED <<cached, users, step, writer_vars, evicting, mishaps>>

(* The task is aborted at an await: its references are dropped. Between        *)
(* acquire and the opened file no object holds the slot.                       *)
AbortWriter(w) ==
  /\ step[w] # "idle" /\ mishaps < MaxMishaps
  /\ mishaps' = mishaps + 1
  /\ users' = [o \in Objects |-> users[o] \ {w}]
  /\ Close({o \in {object[w], evicted[w]} \ {0} :
              /\ o \notin Cached \cup Retired \cup {evicted[t] : t \in Tasks \ {w}}
              /\ users[o] \subseteq {w}})
  /\ Leave(w)
  /\ EvictedDone(w)
  /\ UNCHANGED cache

Writer(w) == \/ PassRetired(w) \/ FlushPending(w) \/ Acquire(w) \/ Open(w) \/ OpenFails(w)
             \/ UseExisting(w) \/ Insert(w) \/ Write(w)
Evict(t) == ChooseLru(t) \/ RemoveLru(t) \/ RetireOrRelease(t) \/ EvictionFails(t)

ShNext ==
  \/ \E w \in Writers : Writer(w) \/ AbortWriter(w) \/ \E f \in Files : Begin(w, f)
  \/ \E t \in Tasks : Evict(t)
  \/ FlushAll

(* The runtime polls every task: a task inside an operation takes its steps.   *)
(* Nothing makes anyone begin a write, another torrent evict, or a file fail.  *)
ShFairness == /\ \A w \in Writers : WF_sh_vars(Writer(w)) /\ WF_sh_vars(ChooseLru(w))
              /\ \A t \in Tasks : WF_sh_vars(RemoveLru(t) \/ RetireOrRelease(t))

ShSpec == ShInit /\ [][ShNext]_sh_vars /\ ShFairness

-----------------------------------------------------------------------------
(* The budget covers what is open: every open file object and every writer     *)
(* about to open one has a slot of its own, and there are never more slots     *)
(* than the bound, whatever is evicted, retired, duplicated, failed or         *)
(* aborted.                                                                    *)
HandlesBounded ==
  /\ Cardinality(Alive) + Cardinality({w \in Writers : step[w] = "open"}) <= live
  /\ live <= MaxHandles

(* A slot is held by a file object or by a writer about to open one. *)
SlotsReturn == live <= Cardinality(Alive) + Cardinality({w \in Writers : step[w] = "open"})

Blocked(w) ==
  step[w] \in {"retired", "slot"} /\ \A v \in Writers : step[v] \notin {"open", "write"}

(* A writer waiting for a retired handle or for a slot does not wait on a      *)
(* circle: while one waits, some writer gets a slot or a handle, or the waiting *)
(* one is aborted.                                                             *)
SlotsCirculate == \A w \in Writers : Blocked(w) ~> ~Blocked(w)

(* A cached handle is a handle of the file it is cached for. *)
CachedForItsFile == \A f \in Files : cached[f] # 0 => file_of[cached[f]] = f
=============================================================================
