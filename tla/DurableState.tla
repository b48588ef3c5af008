---------------------------- MODULE DurableState ----------------------------
(***************************************************************************)
(* How the daemon keeps its registry and queue on disk                      *)
(* (swarmotterd/src/daemon/persistence.rs, state_store/mod.rs): operations  *)
(* change the memory and then save it under state_write_lock, in one of     *)
(* three ways.  A full save replaces every row; a changed-record save       *)
(* writes only the records whose fingerprint differs from the last one      *)
(* committed and never deletes a row; a paired save is a full save that     *)
(* puts the previous file back when it fails.  A save may fail before its   *)
(* transaction commits or after it (checkpoint, sync), and the process may  *)
(* stop between any two steps.                                              *)
(*                                                                         *)
(* A record is a number, 0 for none, and is its own fingerprint.  The queue *)
(* is its order.  history, metrics and the retained metainfo rows follow    *)
(* their record and are not represented.                                    *)
(***************************************************************************)
EXTENDS Naturals, Sequences, FiniteSets

CONSTANTS Torrents,
          Savers,    \* tasks that change the memory and save it
          Does,      \* the operations each of them runs, and on which torrents
          MaxRecord  \* the contents of the record of t are 1..MaxRecord[t]

ASSUME DurableStateAssumption ==
  /\ "none" \notin Savers
  /\ \A t \in Torrents : MaxRecord[t] \in Nat /\ MaxRecord[t] >= 1

Contents(t) == 1..MaxRecord[t]
Versions == UNION {0..MaxRecord[t] : t \in Torrents}
Records == {r \in [Torrents -> Versions] : \A t \in Torrents : r[t] <= MaxRecord[t]}
NoRecords == [t \in Torrents |-> 0]
NoSaver == "none"
NoTorrent == "none"
Mark(q) == <<q>>        \* the fingerprint of a queue
NoMark == <<>>          \* durable_queue_fingerprint before the first save
Orders == {q \in UNION {[1..n -> Torrents] : n \in 0..Cardinality(Torrents)} :
             \A i, j \in DOMAIN q : q[i] = q[j] => i = j}
NoFile == [kind |-> "missing", rows |-> NoRecords, queue |-> <<>>]
Files == [kind : {"missing", "json", "sqlite"}, rows : Records, queue : Seq(Torrents)]

VARIABLES
  registry,     \* registry.torrents
  queue,        \* queue.order
  file,         \* the durable state file
  fingerprints, \* durable_fingerprints, 0 where there is none
  queueMark,    \* durable_queue_fingerprint
  ready,        \* incremental_persistence_ready
  torn,         \* history: a full save failed after its commit, and no full
                \* save has succeeded since
  process,      \* "down", "restoring" or "up"
  writer,       \* the holder of state_write_lock
  pc,           \* the next step of each saver,
  op,           \* its operation,
  on,           \* the torrent it is about,
  previous,     \* the record and
  member,       \* the membership it found, to undo its change,
  snap,         \* and what its save has read
  acked,        \* torrents whose addition was answered with success and whose
                \* removal has not begun
  removed,      \* torrents whose remove_torrent was answered with success
  left,         \* torrents selfish completion removed and saved
  overtaken     \* savers whose torrent was added anew since they removed it

memory == <<registry, queue>>
marks == <<fingerprints, queueMark, ready, torn>>
job == <<op, on, previous, member>>
told == <<acked, removed, left, overtaken>>
vars == <<memory, file, marks, process, writer, pc, job, snap, told>>

Registered == {t \in Torrents : registry[t] # 0}
Member(q, t) == \E i \in DOMAIN q : q[i] = t
Without(q, t) == SelectSeq(q, LAMBDA u : u # t)
With(q, t) == IF Member(q, t) THEN q ELSE Append(q, t)

\* The operations, by how they save and what they do when the save fails.
FullOps == {"add", "remove", "move"}
PairedOps == {"release"}
UndoneOps == {"add", "label", "move", "release"}
QueuedOps == {"add", "release"}  \* they add the torrent to the queue
OwnershipOps == {"add", "move"}  \* under storage_ownership_lock
Ops == FullOps \cup PairedOps \cup {"label", "limits", "selfish", "order", "restore"}

\* What a save has read: the records and the queue it will write (the ones it
\* will not write are 0 and NoMark), and the file a paired save captured.
Snap(rows, q, full, f) == [rows |-> rows, queue |-> q, full |-> full, file |-> f]
NoSnap == Snap(NoRecords, NoMark, FALSE, NoFile)
Snaps == [rows : Records, queue : Seq(Seq(Torrents)), full : BOOLEAN, file : Files]

-----------------------------------------------------------------------------
Init ==
  /\ registry = NoRecords /\ queue = <<>>
  /\ file \in {NoFile} \cup [kind : {"json", "sqlite"}, rows : Records, queue : Orders]
  /\ fingerprints = NoRecords /\ queueMark = NoMark
  /\ ready = FALSE /\ torn = FALSE
  /\ process = "down" /\ writer = NoSaver
  /\ pc = [c \in Savers |-> "idle"] /\ snap = [c \in Savers |-> NoSnap]
  /\ op = [c \in Savers |-> "none"] /\ on = [c \in Savers |-> NoTorrent]
  /\ previous = [c \in Savers |-> 0] /\ member = [c \in Savers |-> FALSE]
  /\ acked = {} /\ removed = {} /\ left = {} /\ overtaken = {}

-----------------------------------------------------------------------------
(* The operations.  Each changes the registry, some then the queue, under    *)
(* locks of their own, and then saves.                                      *)
Begins(c, o, t, next) ==
  /\ process = "up" /\ pc[c] = "idle" /\ <<o, t>> \in Does[c]
  /\ o \in OwnershipOps => \A d \in Savers : op[d] \notin OwnershipOps
  /\ op' = [op EXCEPT ![c] = o]
  /\ on' = [on EXCEPT ![c] = t]
  /\ previous' = [previous EXCEPT ![c] = IF o \in UndoneOps THEN registry[t] ELSE 0]
  /\ member' = [member EXCEPT ![c] = (o \in QueuedOps /\ Member(queue, t))]
  /\ pc' = [pc EXCEPT ![c] = next]

add_torrent(c, t) ==
  /\ t \notin Registered
  /\ Begins(c, "add", t, "queue")
  /\ \E v \in Contents(t) : registry' = [registry EXCEPT ![t] = v]
  /\ removed' = removed \ {t} /\ left' = left \ {t}
  /\ overtaken' = overtaken \cup {d \in Savers : op[d] \in {"remove", "selfish"} /\ on[d] = t}
  /\ UNCHANGED <<queue, file, marks, process, writer, snap, acked>>

Drops(c, o, t) ==
  /\ t \in Registered
  /\ Begins(c, o, t, "queue")
  /\ registry' = [registry EXCEPT ![t] = 0]
  /\ acked' = acked \ {t} /\ UNCHANGED overtaken
  /\ UNCHANGED <<queue, file, marks, process, writer, snap, removed, left>>

remove_torrent(c, t) == Drops(c, "remove", t)
selfish_remove_completed(c, t) == Drops(c, "selfish", t)

\* set_labels, set_torrent_seeding and the profile assignments put the old
\* record back when the save fails; set_torrent_limits and the progress of a
\* tick do not.
Changes(c, o, t, next) ==
  /\ t \in Registered
  /\ Begins(c, o, t, next)
  /\ \E v \in Contents(t) : registry' = [registry EXCEPT ![t] = v]
  /\ UNCHANGED <<queue, file, marks, process, writer, snap, told>>

set_labels(c, t) == Changes(c, "label", t, "save")
set_torrent_limits(c, t) == Changes(c, "limits", t, "save")
move_data(c, t) == Changes(c, "move", t, "save")
release_preview_payload_gate(c, t) == Changes(c, "release", t, "queue")

queue_move_top(c, t) ==
  /\ t \in Registered
  /\ Begins(c, "order", t, "save")
  /\ queue' = IF Member(queue, t) THEN <<t>> \o Without(queue, t) ELSE queue
  /\ UNCHANGED <<registry, file, marks, process, writer, snap, told>>

\* The second half of an addition, a release or a removal.
QueueStep(c) ==
  /\ pc[c] = "queue"
  /\ queue' = IF op[c] \in QueuedOps THEN With(queue, on[c]) ELSE Without(queue, on[c])
  /\ pc' = [pc EXCEPT ![c] = "save"]
  /\ UNCHANGED <<registry, file, marks, process, writer, job, snap, told>>

-----------------------------------------------------------------------------
(* persist_state_with_mode and persist_state_with_file_rollback.  The scan   *)
(* takes the lock and the snapshot; the write runs on a blocking thread      *)
(* while the memory may change.                                             *)
Full_PairedOnly(c) == op[c] \in PairedOps \/ ~ready
Full(c) == op[c] \in FullOps \cup PairedOps \/ ~ready
Changed == {t \in Registered : fingerprints[t] # registry[t]}

Takes(c) ==
  /\ pc[c] = "save" /\ writer = NoSaver
  /\ writer' = c

ScanFull(c) ==
  /\ Takes(c) /\ Full(c) /\ op[c] \notin PairedOps
  /\ snap' = [snap EXCEPT ![c] = Snap(registry, Mark(queue), TRUE, NoFile)]
  /\ ready' = (file.kind = "sqlite")
  /\ pc' = [pc EXCEPT ![c] = "write"]
  /\ UNCHANGED <<memory, file, fingerprints, queueMark, torn, process, job, told>>

ScanPaired_Unlocked(c) ==
  /\ pc[c] = "save" /\ op[c] \in PairedOps
  /\ snap' = [snap EXCEPT ![c] = Snap(registry, NoMark, TRUE, file)]
  /\ pc' = [pc EXCEPT ![c] = "paired"]
  /\ UNCHANGED <<memory, file, marks, process, writer, job, told>>

\* The paired save captures the file, then reads the registry and the queue
\* under one lock after the other.
ScanPaired(c) ==
  /\ Takes(c) /\ op[c] \in PairedOps
  /\ snap' = [snap EXCEPT ![c] = Snap(registry, NoMark, TRUE, file)]
  /\ pc' = [pc EXCEPT ![c] = "paired"]
  /\ UNCHANGED <<memory, file, marks, process, job, told>>

ScanPairedQueue(c) ==
  /\ pc[c] = "paired"
  /\ snap' = [snap EXCEPT ![c] = Snap(snap[c].rows, Mark(queue), TRUE, snap[c].file)]
  /\ pc' = [pc EXCEPT ![c] = "write"]
  /\ UNCHANGED <<memory, file, marks, process, writer, job, told>>

\* Only the changed records and, when it changed, the queue are written.
ScanChanged(c) ==
  /\ Takes(c) /\ ~Full(c)
  /\ Changed # {} \/ Mark(queue) # queueMark
  /\ snap' = [snap EXCEPT ![c] =
                Snap([t \in Torrents |-> IF t \in Changed THEN registry[t] ELSE 0],
                     IF Mark(queue) # queueMark THEN Mark(queue) ELSE NoMark, FALSE, NoFile)]
  /\ pc' = [pc EXCEPT ![c] = "write"]
  /\ UNCHANGED <<memory, file, marks, process, job, told>>

-----------------------------------------------------------------------------
(* The end of a save.                                                       *)
Over(j, rows) == [t \in Torrents |-> IF j.full \/ j.rows[t] # 0 THEN j.rows[t] ELSE rows[t]]
OverMark(j, mark) == IF j.queue = NoMark THEN mark ELSE j.queue
Written(j) == [kind |-> "sqlite", rows |-> Over(j, file.rows), queue |-> OverMark(j, Mark(file.queue))[1]]

\* The caller goes on with its answer.
Answers(c) ==
  /\ pc' = [pc EXCEPT ![c] = "idle"]
  /\ op' = [op EXCEPT ![c] = "none"] /\ on' = [on EXCEPT ![c] = NoTorrent]
  /\ previous' = [previous EXCEPT ![c] = 0] /\ member' = [member EXCEPT ![c] = FALSE]
  /\ snap' = [snap EXCEPT ![c] = NoSnap]
  /\ overtaken' = overtaken \ {c}

\* What success tells the caller of the operation.
Succeeds(c) ==
  LET gone == IF c \in overtaken THEN {} ELSE {on[c]} IN
  /\ Answers(c)
  /\ acked' = IF op[c] = "add" THEN acked \cup ({on[c]} \cap Registered) ELSE acked
  /\ removed' = IF op[c] = "remove" THEN removed \cup gone ELSE removed
  /\ left' = IF op[c] = "selfish" THEN left \cup gone ELSE left
  /\ process' = IF op[c] = "restore" THEN "up" ELSE process

Commits_AdoptsLive(c) ==
  /\ pc[c] = "write"
  /\ file' = Written(snap[c])
  /\ fingerprints' = (IF snap[c].full THEN registry ELSE Over(snap[c], fingerprints))
  /\ queueMark' = OverMark(snap[c], queueMark)
  /\ ready' = (IF op[c] \in PairedOps THEN TRUE ELSE ready)
  /\ torn' = (torn /\ ~snap[c].full)
  /\ writer' = NoSaver
  /\ Succeeds(c)
  /\ UNCHANGED memory

\* The transaction commits; only then are the fingerprints of what it wrote
\* adopted.
Commits(c) ==
  /\ pc[c] = "write"
  /\ file' = Written(snap[c])
  /\ fingerprints' = Over(snap[c], fingerprints)
  /\ queueMark' = OverMark(snap[c], queueMark)
  /\ ready' = (IF op[c] \in PairedOps THEN TRUE ELSE ready)
  /\ torn' = (torn /\ ~snap[c].full)
  /\ writer' = NoSaver
  /\ Succeeds(c)
  /\ UNCHANGED memory

\* Nothing to write.
SavesNothing(c) ==
  /\ pc[c] = "save" /\ writer = NoSaver /\ ~Full(c)
  /\ Changed = {} /\ Mark(queue) = queueMark
  /\ Succeeds(c)
  /\ UNCHANGED <<memory, file, marks, writer>>

\* An error, before the commit or, in a full save, after it.  A paired save
\* then puts the captured file back, which may fail as well.  An error of the
\* save that ends a restart stops the process (Stops).
AfterError(c) ==
  /\ writer' = NoSaver
  /\ IF op[c] \in UndoneOps
     THEN pc' = [pc EXCEPT ![c] = "undo"] /\ UNCHANGED <<job, snap, overtaken>>
     ELSE Answers(c)
  /\ UNCHANGED <<process, acked, removed, left>>

Fails(c) ==
  /\ pc[c] = "write" /\ op[c] \notin PairedOps \cup {"restore"}
  /\ AfterError(c)
  /\ UNCHANGED <<memory, file, marks>>

FailsLate(c) ==
  /\ pc[c] = "write" /\ snap[c].full /\ op[c] # "restore"
  /\ file' = Written(snap[c])
  /\ torn' = TRUE
  /\ AfterError(c)
  /\ UNCHANGED <<memory, fingerprints, queueMark, ready>>

RestoresFile(c) ==
  /\ pc[c] = "write" /\ op[c] \in PairedOps
  /\ file' = snap[c].file
  /\ AfterError(c)
  /\ UNCHANGED <<memory, marks>>

\* The operation undoes its change of the memory.  The payload move may fail
\* to be undone, and then the record keeps the new path.
Undo(c) ==
  LET t == on[c] IN
  /\ pc[c] = "undo"
  /\ \/ registry' = [registry EXCEPT ![t] = IF t \in Registered THEN previous[c] ELSE 0]
     \/ op[c] = "move" /\ UNCHANGED registry
  /\ IF op[c] \in QueuedOps
     THEN pc' = [pc EXCEPT ![c] = "undo_queue"] /\ UNCHANGED <<job, snap, overtaken>>
     ELSE Answers(c)
  /\ UNCHANGED <<queue, file, marks, process, writer, acked, removed, left>>

UndoQueue(c) ==
  LET t == on[c] IN
  /\ pc[c] = "undo_queue"
  /\ queue' = IF member[c] THEN With(queue, t) ELSE Without(queue, t)
  /\ Answers(c)
  /\ UNCHANGED <<registry, file, marks, process, writer, acked, removed, left>>

-----------------------------------------------------------------------------
(* The process stops, at any point: of a write under way the file has all or *)
(* nothing.  The next one restores the file, normalises the records it read  *)
(* (states, rates, health), completes the queue and saves.                  *)
Stops ==
  /\ process # "down"
  /\ file' \in {file} \cup {Written(snap[c]) : c \in {d \in Savers : pc[d] = "write"}}
  /\ registry' = NoRecords /\ queue' = <<>>
  /\ fingerprints' = NoRecords /\ queueMark' = NoMark
  /\ ready' = FALSE /\ torn' = FALSE
  /\ process' = "down" /\ writer' = NoSaver
  /\ pc' = [c \in Savers |-> "idle"] /\ snap' = [c \in Savers |-> NoSnap]
  /\ op' = [c \in Savers |-> "none"] /\ on' = [c \in Savers |-> NoTorrent]
  /\ previous' = [c \in Savers |-> 0] /\ member' = [c \in Savers |-> FALSE]
  /\ overtaken' = {}
  /\ UNCHANGED <<acked, removed, left>>

Completed(q, known) ==
  LET kept == SelectSeq(q, LAMBDA u : u \in known)
      new == {t \in known : ~Member(kept, t)}
  IN {kept \o s : s \in {o \in Orders : {o[i] : i \in DOMAIN o} = new}}

restore_persisted_state(c) ==
  LET known == {t \in Torrents : file.rows[t] # 0} IN
  /\ process = "down" /\ file.kind # "missing"
  /\ registry' \in {r \in Records : {t \in Torrents : r[t] # 0} = known}
  /\ queue' \in Completed(file.queue, known)
  /\ process' = "restoring"
  /\ op' = [op EXCEPT ![c] = "restore"]
  /\ pc' = [pc EXCEPT ![c] = "save"]
  /\ UNCHANGED <<file, marks, writer, on, previous, member, snap, told>>

StartsEmpty ==
  /\ process = "down" /\ file.kind = "missing"
  /\ process' = "up"
  /\ UNCHANGED <<memory, file, marks, writer, pc, job, snap, told>>

Operation(c) ==
  \E t \in Torrents :
    \/ add_torrent(c, t) \/ remove_torrent(c, t) \/ selfish_remove_completed(c, t)
    \/ set_labels(c, t) \/ set_torrent_limits(c, t) \/ move_data(c, t)
    \/ release_preview_payload_gate(c, t) \/ queue_move_top(c, t)
Save(c) ==
  \/ ScanFull(c) \/ ScanPaired(c) \/ ScanPairedQueue(c) \/ ScanChanged(c)
  \/ Commits(c) \/ SavesNothing(c) \/ Fails(c) \/ FailsLate(c) \/ RestoresFile(c)
  \/ Undo(c) \/ UndoQueue(c)

Next ==
  \/ \E c \in Savers : Operation(c) \/ QueueStep(c) \/ Save(c) \/ restore_persisted_state(c)
  \/ Stops \/ StartsEmpty

Spec == Init /\ [][Next]_vars

-----------------------------------------------------------------------------
\* Every variable has its type, and the write lock is held exactly while a
\* save is between its scan and its end.
TypeOK ==
  /\ registry \in Records /\ queue \in Seq(Torrents)
  /\ file \in Files
  /\ fingerprints \in Records /\ (queueMark = NoMark \/ queueMark[1] \in Seq(Torrents))
  /\ ready \in BOOLEAN /\ torn \in BOOLEAN
  /\ process \in {"down", "restoring", "up"}
  /\ pc \in [Savers -> {"idle", "queue", "save", "paired", "write", "undo", "undo_queue"}]
  /\ op \in [Savers -> Ops \cup {"none"}] /\ on \in [Savers -> Torrents \cup {NoTorrent}]
  /\ previous \in [Savers -> Versions] /\ member \in [Savers -> BOOLEAN]
  /\ \A c \in Savers : snap[c] \in Snaps
  /\ writer \in Savers \cup {NoSaver}
  /\ \A c \in Savers : writer = c <=> pc[c] \in {"paired", "write"}
  /\ acked \subseteq Torrents /\ removed \subseteq Torrents /\ left \subseteq Torrents
  /\ overtaken \subseteq Savers

\* A changed-record save may skip what it skips: unless a full save failed
\* after its commit, a record or queue whose fingerprint is held is on disk
\* with exactly that content (persist_changed_state_locked).
SkipIsSound ==
  ~torn =>
    /\ \A t \in Torrents : fingerprints[t] # 0 => file.rows[t] = fingerprints[t]
    /\ queueMark # NoMark => queueMark = Mark(file.queue)

\* A torrent whose addition was answered with success is on disk until its
\* removal begins, whatever saves fail, whatever file a paired save puts back
\* and wherever the process stops (add_torrent_mutation).
AddedSurvives == \A t \in acked : file.rows[t] # 0

\* A torrent whose remove_torrent was answered with success is not on disk, so
\* that no restart brings it back, until it is added again.
RemovedStaysRemoved == \A t \in removed : file.rows[t] = 0

\* The same of selfish completion, as the comment on persist_state_with_mode
\* has it for every removal: "durable state can never resurrect a removed
\* torrent".
RemovalIsFinal == \A t \in removed \cup left : file.rows[t] = 0
=============================================================================
