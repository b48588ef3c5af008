-------------------------- MODULE DurabilityProofs --------------------------
(***************************************************************************)
(* What failing calls and crashes may not lose: proofs about the state     *)
(* file (DurableState) and about the move of a payload (StorageMove), for  *)
(* any torrents, files, operations and contents.                           *)
(*                                                                         *)
(* The invariant of the state file says, beside types, that a save in      *)
(* progress owns the lock and that what it is about to write is no worse   *)
(* than what is promised: it has every torrent whose addition was          *)
(* answered, none whose removal was, and a file captured for a rollback is *)
(* still the file on disk. The facts about the operators and the           *)
(* operations' changes of the memory come first, then the scans, commits   *)
(* and failures of the saves and the stops and restarts of the process.    *)
(*                                                                         *)
(* The invariant of a move says of the entry at hand what its next call    *)
(* relies on, that completed entries are at the destination, and that all  *)
(* other files of the torrent are where they were. The facts about entries *)
(* and paths come first, then one lemma per call.                          *)
(***************************************************************************)
EXTENDS StorageMove, DurableState, FiniteSetTheorems, WellFoundedInduction, TLAPS

Saving(c) == pc[c] \in {"paired", "write"}

\* Only what the argument needs of the types.
Typed ==
  /\ registry \in [Torrents -> Nat] /\ fingerprints \in [Torrents -> Nat]
  /\ file.rows \in [Torrents -> Nat]
  /\ pc \in [Savers -> {"idle", "queue", "save", "paired", "write", "undo", "undo_queue"}]
  /\ op \in [Savers -> Ops \cup {"none"}]
  /\ on \in [Savers -> Torrents \cup {NoTorrent}]
  /\ previous \in [Savers -> Nat]
  /\ acked \subseteq Torrents /\ removed \subseteq Torrents

Marked(m) == m = NoMark \/ m = Mark(m[1])
Snapped ==
  /\ snap = [c \in Savers |-> snap[c]]
  /\ \A c \in Savers : snap[c].rows \in [Torrents -> Nat] /\ Marked(snap[c].queue)

\* The write lock, the ownership lock and the operations under way.
Ordered ==
  /\ \A c \in Savers : Saving(c) => writer = c
  /\ \A c, d \in Savers : op[c] \in OwnershipOps /\ op[d] \in OwnershipOps => c = d
  /\ \A c \in Savers : pc[c] = "idle" => op[c] = "none"
  /\ \A c \in Savers : op[c] \notin {"none", "restore"} => on[c] \in Torrents
  /\ \A c \in Savers : op[c] \in {"label", "move", "release"} => previous[c] # 0
  /\ \A c \in Savers : pc[c] \in {"undo", "undo_queue"} => op[c] \in UndoneOps
  /\ process = "down" => \A c \in Savers : pc[c] = "idle"
  /\ file.kind = "missing" => \A t \in Torrents : file.rows[t] = 0

\* A captured file is the file on disk while the save lasts.
Captured ==
  \A c \in Savers :
    /\ Saving(c) /\ op[c] \in PairedOps => snap[c].file = file
    /\ pc[c] = "paired" => op[c] \in PairedOps /\ snap[c].full
    /\ pc[c] = "write" /\ snap[c].full => snap[c].queue # NoMark
    /\ pc[c] = "write" /\ op[c] = "remove" => snap[c].full

\* Whose addition was answered: registered while the process runs, and in
\* every full snapshot about to be written.
Added ==
  /\ AddedSurvives
  /\ process # "down" => \A t \in acked : registry[t] # 0
  /\ \A c \in Savers :
       /\ Saving(c) /\ snap[c].full => \A t \in acked : snap[c].rows[t] # 0
       /\ op[c] = "add" => on[c] \notin acked
       /\ op[c] = "add" /\ pc[c] = "write" /\ registry[on[c]] # 0 => snap[c].rows[on[c]] # 0

\* Whose removal was answered: neither registered nor about to be written; a
\* removal no addition has overtaken is on its way there.
Gone ==
  /\ RemovedStaysRemoved
  /\ \A t \in removed : registry[t] = 0
  /\ \A c \in Savers : Saving(c) => \A t \in removed : snap[c].rows[t] = 0
  /\ \A c \in Savers :
       op[c] = "remove" /\ c \notin overtaken =>
         /\ registry[on[c]] = 0
         /\ pc[c] = "write" => snap[c].rows[on[c]] = 0

IInv == Typed /\ Snapped /\ Ordered /\ Captured /\ Added /\ Gone /\ SkipIsSound

\* What a save leaves in the file and in the fingerprints.
LEMMA OverIs ==
  ASSUME NEW j, j.rows \in [Torrents -> Nat], NEW rows \in [Torrents -> Nat]
  PROVE  /\ Over(j, rows) \in [Torrents -> Nat]
         /\ \A t \in Torrents : Over(j, rows)[t] = IF j.full \/ j.rows[t] # 0 THEN j.rows[t] ELSE rows[t]
  BY Zenon DEF Over

\* One saver takes or gives up its snapshot.
LEMMA SnapTo ==
  ASSUME Snapped, NEW c \in Savers, NEW v, v.rows \in [Torrents -> Nat], Marked(v.queue),
         snap' = [snap EXCEPT ![c] = v]
  PROVE  Snapped' /\ snap'[c] = v /\ \A d \in Savers : d # c => snap'[d] = snap[d]
<1>1. snap' = [d \in Savers |-> IF d = c THEN v ELSE snap[d]]
  BY Zenon DEF Snapped
<1>2. snap'[c] = v /\ \A d \in Savers : d # c => snap'[d] = snap[d]
  BY Zenon, <1>1
<1>3. snap' = [d \in Savers |-> snap'[d]]
  BY Zenon, <1>1
<1> QED
  BY Zenon, <1>2, <1>3 DEF Snapped

\* The file a committed transaction leaves (write_state_transaction).
LEMMA WrittenIs ==
  ASSUME NEW j
  PROVE  /\ Written(j).rows = Over(j, file.rows)
         /\ Written(j).kind = "sqlite"
         /\ Written(j).queue = OverMark(j, Mark(file.queue))[1]
  BY Zenon DEF Written

\* The fingerprint of a queue is not the absent fingerprint.
LEMMA MarkIs == \A q : Marked(Mark(q)) /\ Mark(q) # NoMark
  BY Zenon DEF Marked, Mark, NoMark

\* Initially nothing is in memory and nothing has been answered.
LEMMA InitHolds == Init => IInv
<1> SUFFICES ASSUME Init PROVE IInv
  BY Zenon
<1>1. file.rows \in [Torrents -> Nat] /\ (file.kind = "missing" => \A t \in Torrents : file.rows[t] = 0)
  <2>1. CASE file = NoFile
    BY Zenon, <2>1 DEF NoFile, NoRecords
  <2>2. CASE file \in [kind : {"json", "sqlite"}, rows : Records, queue : Orders]
    BY <2>2, DurableStateAssumption DEF Records, Versions
  <2> QED
    BY Zenon, <2>1, <2>2 DEF Init
<1>2. Typed /\ Snapped
  BY ZenonT(40), <1>1 DEF Init, Typed, Snapped, Marked, NoRecords, NoSnap, Snap, Ops
<1> QED
  BY Zenon, <1>1, <1>2
     DEF Init, IInv, Ordered, Captured, Added, Gone, Saving, SkipIsSound, AddedSurvives,
         RemovedStaysRemoved, NoRecords, OwnershipOps

-----------------------------------------------------------------------------
(* The operations and the undoing of them change the memory only.            *)
LEMMA AddKeeps ==
  ASSUME IInv, NEW c \in Savers, NEW t \in Torrents, add_torrent(c, t)
  PROVE  IInv'
<1> USE DEF IInv, Typed, Ordered, Captured, Added, Gone, Saving, SkipIsSound, AddedSurvives,
            RemovedStaysRemoved, Registered, Begins, memory, marks, Ops, OwnershipOps,
            UndoneOps, FullOps, PairedOps, Contents
<1>1. Typed'
  BY SMTT(40), DurableStateAssumption DEF add_torrent
<1>2. Ordered' /\ Captured'
  BY SMTT(40) DEF add_torrent
<1>3. Added'
  BY SMTT(40), DurableStateAssumption DEF add_torrent
<1>4. Gone'
  BY SMTT(40) DEF add_torrent
<1> QED
  BY SMTT(40), <1>1, <1>2, <1>3, <1>4 DEF add_torrent, Snapped

\* remove_torrent and selfish_remove_completed take the record out.
LEMMA DropKeeps ==
  ASSUME IInv, NEW c \in Savers, NEW t \in Torrents, NEW o \in {"remove", "selfish"}, Drops(c, o, t)
  PROVE  IInv'
<1> USE DEF IInv, Typed, Ordered, Captured, Added, Gone, Saving, SkipIsSound, AddedSurvives,
            RemovedStaysRemoved, Registered, Begins, memory, marks, Ops, OwnershipOps,
            UndoneOps, FullOps, PairedOps
<1>1. Typed'
  BY Zenon DEF Drops
<1>2. Ordered' /\ Captured'
  BY SMTT(40) DEF Drops
<1>3. Added'
  BY SMTT(40) DEF Drops
<1>4. Gone'
  BY SMTT(40) DEF Drops
<1> QED
  BY SMTT(40), <1>1, <1>2, <1>3, <1>4 DEF Drops, Snapped

\* Label, limit, path and preview changes replace a registered record.
LEMMA ChangeKeeps ==
  ASSUME IInv, NEW c \in Savers, NEW t \in Torrents,
         NEW o \in {"label", "limits", "move", "release"}, NEW next \in {"save", "queue"}, Changes(c, o, t, next)
  PROVE  IInv'
<1> USE DEF IInv, Typed, Ordered, Captured, Added, Gone, Saving, SkipIsSound, AddedSurvives,
            RemovedStaysRemoved, Registered, Begins, memory, marks, told, Ops, OwnershipOps,
            UndoneOps, FullOps, PairedOps, Contents
<1>1. Typed'
  BY SMTT(40), DurableStateAssumption DEF Changes
<1>2. Ordered' /\ Captured'
  BY SMTT(40) DEF Changes
<1>3. Added'
  BY SMTT(40), DurableStateAssumption DEF Changes
<1>4. Gone'
  BY SMTT(40) DEF Changes
<1> QED
  BY SMTT(40), <1>1, <1>2, <1>3, <1>4 DEF Changes, Snapped

\* The queue carries no promise of the invariant.
LEMMA QueueKeeps ==
  ASSUME IInv, NEW c \in Savers, QueueStep(c) \/ \E t \in Torrents : queue_move_top(c, t)
  PROVE  IInv'
<1> USE DEF IInv, Typed, Ordered, Captured, Added, Gone, Saving, SkipIsSound, AddedSurvives,
            RemovedStaysRemoved, Registered, Begins, memory, marks, job, told, Ops, OwnershipOps,
            UndoneOps, FullOps, PairedOps
<1>1. CASE QueueStep(c)
  BY SMTT(40), <1>1 DEF QueueStep, Snapped
<1>2. ASSUME NEW t \in Torrents, queue_move_top(c, t) PROVE IInv'
  <2>1. Typed' /\ Snapped'
    BY SMTT(40), <1>2 DEF queue_move_top, Snapped
  <2>2. Ordered' /\ Captured'
    BY SMTT(40), <1>2 DEF queue_move_top
  <2>3. Added'
    BY SMTT(40), <1>2 DEF queue_move_top
  <2>4. Gone'
    BY SMTT(40), <1>2 DEF queue_move_top
  <2> QED
    BY ZenonT(40), <1>2, <2>1, <2>2, <2>3, <2>4 DEF queue_move_top
<1> QED
  BY Zenon, <1>1, <1>2

-----------------------------------------------------------------------------
(* The end of an operation.  Saver c leaves its save: it is idle, or goes on *)
(* to undo its change; the other savers stay where they are.                 *)
Leaves(c) ==
  /\ pc' \in [Savers -> {"idle", "queue", "save", "paired", "write", "undo", "undo_queue"}]
  /\ op' \in [Savers -> Ops \cup {"none"}]
  /\ on' \in [Savers -> Torrents \cup {NoTorrent}]
  /\ previous' \in [Savers -> Nat]
  /\ Snapped'
  /\ \A d \in Savers \ {c} :
       /\ pc'[d] = pc[d] /\ op'[d] = op[d] /\ on'[d] = on[d] /\ previous'[d] = previous[d]
       /\ snap'[d] = snap[d] /\ (d \in overtaken' <=> d \in overtaken)
  /\ \/ pc'[c] = "idle" /\ op'[c] = "none"
     \/ /\ pc'[c] \in {"undo", "undo_queue"} /\ op[c] \in UndoneOps
        /\ op'[c] = op[c] /\ on'[c] = on[c] /\ previous'[c] = previous[c]

\* A finished operation gives up its own job and snapshot only.
LEMMA AnswerLeaves ==
  ASSUME IInv, NEW c \in Savers, Answers(c)
  PROVE  Leaves(c) /\ op'[c] = "none"
<1>1. NoSnap.rows \in [Torrents -> Nat] /\ Marked(NoSnap.queue)
  BY Zenon DEF NoSnap, Snap, NoRecords, Marked
<1>2. Snapped' /\ \A d \in Savers : d # c => snap'[d] = snap[d]
  BY Zenon, <1>1, SnapTo DEF Answers, IInv
<1>3. /\ pc' = [pc EXCEPT ![c] = "idle"] /\ op' = [op EXCEPT ![c] = "none"]
      /\ on' = [on EXCEPT ![c] = NoTorrent] /\ previous' = [previous EXCEPT ![c] = 0]
      /\ overtaken' = overtaken \ {c}
  BY Zenon DEF Answers
<1>4. /\ pc \in [Savers -> {"idle", "queue", "save", "paired", "write", "undo", "undo_queue"}]
      /\ op \in [Savers -> Ops \cup {"none"}]
      /\ on \in [Savers -> Torrents \cup {NoTorrent}]
      /\ previous \in [Savers -> Nat]
  BY Zenon DEF IInv, Typed
<1> QED
  BY Zenon, <1>2, <1>3, <1>4 DEF Leaves

\* An operation that has something to undo keeps its job.
LEMMA UndoLeaves ==
  ASSUME IInv, NEW c \in Savers, NEW p \in {"undo", "undo_queue"}, op[c] \in UndoneOps,
         pc' = [pc EXCEPT ![c] = p], UNCHANGED <<job, snap, overtaken>>
  PROVE  Leaves(c)
<1>1. UNCHANGED <<op, on, previous, snap, overtaken>>
  BY Zenon DEF job
<1>2. Snapped'
  BY Zenon, <1>1 DEF IInv, Snapped
<1> QED
  BY Zenon, <1>1, <1>2 DEF IInv, Typed, Leaves

LEMMA ErrorLeaves ==
  ASSUME IInv, NEW c \in Savers, AfterError(c)
  PROVE  Leaves(c)
<1>1. CASE op[c] \in UndoneOps
  BY Zenon, <1>1, UndoLeaves DEF AfterError
<1>2. CASE op[c] \notin UndoneOps
  BY Zenon, <1>2, AnswerLeaves DEF AfterError
<1> QED
  BY Zenon, <1>1, <1>2

\* A process with an operation under way is not down, and a save under way
\* is the only one.
LEMMA UnderWay ==
  ASSUME IInv, NEW c \in Savers, pc[c] # "idle"
  PROVE  process # "down" /\ (Saving(c) => \A d \in Savers : d # c => ~Saving(d))
  BY Zenon DEF IInv, Ordered

LEMMA LeavesOrdered ==
  ASSUME IInv, NEW c \in Savers, Leaves(c), process' # "down",
         \A d \in Savers : d # c /\ Saving(d) => writer' = d,
         file'.kind = "missing" => \A t \in Torrents : file'.rows[t] = 0
  PROVE  Ordered'
<1>1. \A d \in Savers : Saving(d)' => writer' = d
  BY Zenon DEF Leaves, Saving
<1>2. \A d, e \in Savers : op'[d] \in OwnershipOps /\ op'[e] \in OwnershipOps => d = e
  <2>1. \A d \in Savers : op'[d] \in OwnershipOps => op[d] \in OwnershipOps
    BY Zenon DEF Leaves, OwnershipOps
  <2> QED
    BY Zenon, <2>1 DEF IInv, Ordered
<1>3. \A d \in Savers :
        /\ pc'[d] = "idle" => op'[d] = "none"
        /\ op'[d] \notin {"none", "restore"} => on'[d] \in Torrents
        /\ op'[d] \in {"label", "move", "release"} => previous'[d] # 0
        /\ pc'[d] \in {"undo", "undo_queue"} => op'[d] \in UndoneOps
  <2>1. ASSUME NEW d \in Savers, d # c PROVE <1>3!(d)
    BY ZenonT(40), <2>1 DEF Leaves, IInv, Ordered
  <2>2. <1>3!(c)
    BY Zenon DEF Leaves, IInv, Ordered, UndoneOps
  <2> QED
    BY Zenon, <2>1, <2>2
<1> QED
  BY Zenon, <1>1, <1>2, <1>3 DEF Ordered

LEMMA LeavesCaptured ==
  ASSUME IInv, NEW c \in Savers, Leaves(c),
         \A d \in Savers : d # c /\ Saving(d) => file' = file
  PROVE  Captured'
<1>1. ~Saving(c)' /\ \A d \in Savers : d # c => (Saving(d)' <=> Saving(d))
  BY Zenon DEF Leaves, Saving
<1> QED
  BY <1>1 DEF IInv, Captured, Leaves, Saving

LEMMA LeavesAdded ==
  ASSUME IInv, NEW c \in Savers, Leaves(c), AddedSurvives', \A t \in acked' : registry'[t] # 0,
         \A t \in Torrents : registry'[t] # 0 => registry[t] # 0,
         \/ acked' = acked
         \/ /\ op[c] = "add" /\ op'[c] = "none" /\ acked' \subseteq acked \cup {on[c]}
            /\ \A d \in Savers : d # c => ~Saving(d)
  PROVE  Added'
<1>1. ~Saving(c)' /\ \A d \in Savers : d # c => (Saving(d)' <=> Saving(d))
  BY Zenon DEF Leaves, Saving
<1>2. \A d \in Savers : Saving(d)' /\ snap'[d].full => \A t \in acked' : snap'[d].rows[t] # 0
  BY SMTT(40), <1>1 DEF IInv, Added, Leaves
<1>3. \A d \in Savers : op'[d] = "add" => on'[d] \notin acked'
  <2>1. ASSUME NEW d \in Savers, op'[d] = "add" PROVE op[d] = "add" /\ on'[d] = on[d]
    BY Zenon, <2>1 DEF Leaves
  <2>2. CASE acked' = acked
    BY Zenon, <2>1, <2>2 DEF IInv, Added
  <2>3. CASE op[c] = "add" /\ op'[c] = "none"
    BY ZenonT(40), <2>1, <2>3 DEF IInv, Ordered, OwnershipOps, Leaves
  <2> QED
    BY Zenon, <2>2, <2>3
<1>4. \A d \in Savers :
        op'[d] = "add" /\ pc'[d] = "write" /\ registry'[on'[d]] # 0 => snap'[d].rows[on'[d]] # 0
  BY SMTT(40) DEF IInv, Ordered, Added, Leaves
<1> QED
  BY Zenon, <1>2, <1>3, <1>4 DEF Added

LEMMA LeavesGone ==
  ASSUME IInv, NEW c \in Savers, Leaves(c), RemovedStaysRemoved',
         \A t \in removed' : registry'[t] = 0,
         \A t \in Torrents : registry'[t] # 0 => registry[t] # 0,
         removed' = removed \/ \A d \in Savers : d # c => ~Saving(d)
  PROVE  Gone'
<1>1. ~Saving(c)' /\ \A d \in Savers : d # c => (Saving(d)' <=> Saving(d))
  BY Zenon DEF Leaves, Saving
<1>2. \A d \in Savers : Saving(d)' => \A t \in removed' : snap'[d].rows[t] = 0
  BY SMTT(40), <1>1 DEF IInv, Gone, Leaves
<1>3. op'[c] # "remove"
  BY Zenon DEF Leaves, UndoneOps
<1>4. ASSUME NEW d \in Savers, op'[d] = "remove", d \notin overtaken'
      PROVE  registry'[on'[d]] = 0 /\ (pc'[d] = "write" => snap'[d].rows[on'[d]] = 0)
  BY SMTT(40), <1>3, <1>4 DEF IInv, Ordered, Gone, Leaves
<1> QED
  BY Zenon, <1>2, <1>4 DEF Gone

\* Undoing restores a record that was there, or takes out an addition
\* that was never answered.
LEMMA UndoKeeps ==
  ASSUME IInv, NEW c \in Savers, Undo(c) \/ UndoQueue(c)
  PROVE  IInv'
<1>1. /\ pc[c] \in {"undo", "undo_queue"}
      /\ UNCHANGED <<file, fingerprints, queueMark, torn, process, writer, acked, removed>>
  BY ZenonT(40) DEF Undo, UndoQueue, marks
<1>2. op[c] \in UndoneOps /\ on[c] \in Torrents /\ process # "down"
  BY Zenon, <1>1, UnderWay DEF IInv, Ordered, UndoneOps
<1>3. Leaves(c)
  <2>1. CASE UndoQueue(c)
    BY Zenon, <2>1, AnswerLeaves DEF UndoQueue
  <2>2. CASE Undo(c) /\ op[c] \in QueuedOps
    BY Zenon, <2>2, <1>2, UndoLeaves DEF Undo
  <2>3. CASE Undo(c) /\ op[c] \notin QueuedOps
    BY Zenon, <2>3, AnswerLeaves DEF Undo
  <2> QED
    BY Zenon, <2>1, <2>2, <2>3
<1>4. /\ registry' \in [Torrents -> Nat]
      /\ \A t \in Torrents : registry'[t] # 0 => registry[t] # 0
      /\ \A t \in Torrents : registry'[t] = registry[t] \/ (t = on[c] /\ (registry[t] # 0 => registry'[t] = previous[c]))
  BY Zenon, <1>2 DEF Undo, UndoQueue, IInv, Typed, Registered
<1>5. \A t \in acked' : registry'[t] # 0
  <2>1. \A t \in acked : t \in Torrents /\ registry[t] # 0
    BY Zenon, <1>2 DEF IInv, Typed, Added
  <2>2. on[c] \in acked => previous[c] # 0
    BY Zenon, <1>2 DEF IInv, Added, Ordered, UndoneOps
  <2> QED
    BY Zenon, <1>1, <1>4, <2>1, <2>2
<1>6. AddedSurvives' /\ RemovedStaysRemoved' /\ \A t \in removed' : registry'[t] = 0
  BY Zenon, <1>1, <1>4 DEF IInv, Typed, Added, Gone, AddedSurvives, RemovedStaysRemoved
<1>7. Ordered' /\ Captured'
  BY Zenon, <1>1, <1>2, <1>3, LeavesOrdered, LeavesCaptured DEF IInv, Ordered
<1>8. Added' /\ Gone'
  BY ZenonT(40), <1>1, <1>3, <1>4, <1>5, <1>6, LeavesAdded, LeavesGone
<1>9. Typed' /\ SkipIsSound'
  BY Zenon, <1>1, <1>3, <1>4 DEF IInv, Typed, SkipIsSound, Leaves
<1> QED
  BY Zenon, <1>3, <1>7, <1>8, <1>9 DEF IInv, Leaves
-----------------------------------------------------------------------------
(* A scan takes the lock, so no other save is under way, and reads what the  *)
(* invariant says of the memory.                                            *)

\* Saver c holds the lock, alone, and only its step and its snapshot change.
Scans(c, p) ==
  /\ pc' = [pc EXCEPT ![c] = p] /\ pc[c] # "idle" /\ writer' = c
  /\ \A d \in Savers : d # c => ~Saving(d) /\ snap'[d] = snap[d]
  /\ Snapped'
  /\ registry' = registry /\ file' = file /\ fingerprints' = fingerprints
  /\ queueMark' = queueMark /\ torn' = torn /\ process' = process
  /\ op' = op /\ on' = on /\ previous' = previous
  /\ acked' = acked /\ removed' = removed /\ overtaken' = overtaken

\* What c has read is no worse than what was promised.
ReadsRight(c, p) ==
  /\ snap'[c].full => \A t \in acked : snap'[c].rows[t] # 0
  /\ \A t \in removed : snap'[c].rows[t] = 0
  /\ p = "write" =>
       /\ op[c] = "add" /\ registry[on[c]] # 0 => snap'[c].rows[on[c]] # 0
       /\ op[c] = "remove" /\ c \notin overtaken => snap'[c].rows[on[c]] = 0
       /\ op[c] = "remove" => snap'[c].full
       /\ snap'[c].full => snap'[c].queue # NoMark
  /\ op[c] \in PairedOps => snap'[c].file = file
  /\ p = "paired" => op[c] \in PairedOps /\ snap'[c].full

LEMMA ScanKeeps ==
  ASSUME IInv, NEW c \in Savers, NEW p \in {"paired", "write"}, Scans(c, p), ReadsRight(c, p)
  PROVE  IInv'
<1>1. /\ pc'[c] = p /\ Saving(c)'
      /\ \A d \in Savers : d # c => pc'[d] = pc[d] /\ ~Saving(d)'
  BY Zenon DEF Scans, IInv, Typed, Saving
<1>2. Typed' /\ SkipIsSound'
  BY Zenon DEF Scans, IInv, Typed, SkipIsSound
<1>3. Ordered'
  BY Zenon, <1>1 DEF Scans, IInv, Ordered
<1>4. Captured'
  BY Zenon, <1>1 DEF Scans, ReadsRight, IInv, Captured, Saving
<1>5. Added'
  BY ZenonT(40), <1>1 DEF Scans, ReadsRight, IInv, Added, AddedSurvives, Saving
<1>6. Gone'
  BY SMTT(40), <1>1 DEF Scans, ReadsRight, IInv, Gone, RemovedStaysRemoved, Saving
<1> QED
  BY ZenonT(40), <1>2, <1>3, <1>4, <1>5, <1>6 DEF Scans, IInv

\* The common part of the four scans.
LEMMA TakesScans ==
  ASSUME IInv, NEW c \in Savers, NEW p \in {"paired", "write"}, NEW v,
         v.rows \in [Torrents -> Nat], Marked(v.queue),
         snap' = [snap EXCEPT ![c] = v], pc' = [pc EXCEPT ![c] = p],
         Takes(c) \/ (pc[c] = "paired" /\ writer' = writer),
         UNCHANGED <<memory, file, fingerprints, queueMark, torn, process, job, told>>
  PROVE  Scans(c, p) /\ snap'[c] = v
<1>1. Snapped' /\ snap'[c] = v /\ \A d \in Savers : d # c => snap'[d] = snap[d]
  BY Zenon, SnapTo DEF IInv
<1>2. pc[c] # "idle" /\ writer' = c /\ \A d \in Savers : d # c => ~Saving(d)
  BY Zenon, DurableStateAssumption DEF Takes, NoSaver, IInv, Ordered, Saving
<1> QED
  BY ZenonT(40), <1>1, <1>2 DEF Scans, memory, job, told

\* What the registry holds of the torrents that were answered.
LEMMA RegistryRight ==
  ASSUME IInv, NEW c \in Savers, pc[c] # "idle"
  PROVE  /\ \A t \in acked : registry[t] # 0
         /\ \A t \in removed : registry[t] = 0
         /\ op[c] = "remove" /\ c \notin overtaken => registry[on[c]] = 0
  BY Zenon, UnderWay DEF IInv, Added, Gone

LEMMA ScanFullKeeps ==
  ASSUME IInv, NEW c \in Savers, ScanFull(c)
  PROVE  IInv'
<1> DEFINE v == Snap(registry, Mark(queue), TRUE, NoFile)
<1>1. v.full /\ v.rows = registry /\ v.queue = Mark(queue)
  BY Zenon DEF Snap
<1>2. snap' = [snap EXCEPT ![c] = v]
  BY Zenon DEF ScanFull
<1> HIDE DEF v
<1>3. Scans(c, "write") /\ snap'[c] = v
  BY ZenonT(40), <1>1, <1>2, TakesScans, MarkIs DEF ScanFull, IInv, Typed
<1>4. pc[c] # "idle" /\ op[c] \notin PairedOps
  BY Zenon DEF ScanFull, Takes
<1>5. ReadsRight(c, "write")
  BY Zenon, <1>1, <1>3, <1>4, RegistryRight, MarkIs DEF ReadsRight
<1> QED
  BY Zenon, <1>3, <1>5, ScanKeeps

\* The paired save captures the file together with the lock
\* (persist_state_with_file_rollback).
LEMMA ScanPairedKeeps ==
  ASSUME IInv, NEW c \in Savers, ScanPaired(c)
  PROVE  IInv'
<1> DEFINE v == Snap(registry, NoMark, TRUE, file)
<1>1. v.full /\ v.rows = registry /\ v.queue = NoMark /\ v.file = file
  BY Zenon DEF Snap
<1>2. snap' = [snap EXCEPT ![c] = v]
  BY Zenon DEF ScanPaired
<1> HIDE DEF v
<1>3. Scans(c, "paired") /\ snap'[c] = v
  BY Zenon, <1>1, <1>2, TakesScans DEF ScanPaired, IInv, Typed, Marked, marks
<1>4. pc[c] # "idle" /\ op[c] \in PairedOps
  BY Zenon DEF ScanPaired, Takes
<1>5. ReadsRight(c, "paired")
  BY Zenon, <1>1, <1>3, <1>4, RegistryRight DEF ReadsRight
<1> QED
  BY Zenon, <1>3, <1>5, ScanKeeps

\* Its queue is read later; its records stay those of the first read.
LEMMA ScanPairedQueueKeeps ==
  ASSUME IInv, NEW c \in Savers, ScanPairedQueue(c)
  PROVE  IInv'
<1> DEFINE v == Snap(snap[c].rows, Mark(queue), TRUE, snap[c].file)
<1>1. v.full /\ v.rows = snap[c].rows /\ v.queue = Mark(queue) /\ v.file = snap[c].file
  BY Zenon DEF Snap
<1>2. snap' = [snap EXCEPT ![c] = v]
  BY Zenon DEF ScanPairedQueue
<1> HIDE DEF v
<1>a. v.rows \in [Torrents -> Nat] /\ Marked(v.queue)
  BY Zenon, <1>1, MarkIs DEF IInv, Snapped
<1>b. /\ pc' = [pc EXCEPT ![c] = "write"] /\ pc[c] = "paired" /\ writer' = writer
      /\ UNCHANGED <<memory, file, fingerprints, queueMark, torn, process, job, told>>
  BY Zenon DEF ScanPairedQueue, marks
<1>3. Scans(c, "write") /\ snap'[c] = v
  BY Zenon, <1>2, <1>a, <1>b, TakesScans
<1>4. pc[c] = "paired" /\ op[c] \in PairedOps /\ snap[c].full /\ snap[c].file = file
  BY Zenon DEF ScanPairedQueue, IInv, Captured, Saving
<1>5. /\ \A t \in acked : snap[c].rows[t] # 0
      /\ \A t \in removed : snap[c].rows[t] = 0
  BY Zenon, <1>4 DEF IInv, Added, Gone, Saving
<1>6. ReadsRight(c, "write")
  BY Zenon, <1>1, <1>3, <1>4, <1>5, MarkIs DEF ReadsRight, PairedOps
<1> QED
  BY Zenon, <1>3, <1>6, ScanKeeps

\* A changed-record save has a subset of the registry's records
\* (persist_changed_state_locked).
LEMMA ScanChangedKeeps ==
  ASSUME IInv, NEW c \in Savers, ScanChanged(c)
  PROVE  IInv'
<1> DEFINE mark == IF Mark(queue) # queueMark THEN Mark(queue) ELSE NoMark
           rows == [t \in Torrents |-> IF t \in Changed THEN registry[t] ELSE 0]
           v == Snap(rows, mark, FALSE, NoFile)
<1>1. ~v.full /\ v.rows = rows /\ v.queue = mark
  BY Zenon DEF Snap
<1>2. snap' = [snap EXCEPT ![c] = v]
  BY Zenon DEF ScanChanged
<1>3. rows \in [Torrents -> Nat] /\ \A t \in Torrents : rows[t] \in {0, registry[t]}
  BY Zenon DEF IInv, Typed
<1>4. Marked(mark)
  BY Zenon, MarkIs DEF Marked
<1> HIDE DEF v, rows, mark
<1>5. Scans(c, "write") /\ snap'[c] = v
  BY Zenon, <1>1, <1>2, <1>3, <1>4, TakesScans DEF ScanChanged, marks
<1>6. pc[c] # "idle" /\ op[c] \notin {"remove", "release", "add"}
  BY Zenon DEF ScanChanged, Takes, Full, FullOps, PairedOps
<1>7. ReadsRight(c, "write")
  BY Zenon, <1>1, <1>3, <1>5, <1>6, RegistryRight DEF ReadsRight, PairedOps, IInv, Typed
<1> QED
  BY Zenon, <1>5, <1>7, ScanKeeps

-----------------------------------------------------------------------------
(* What is written is the snapshot over the file; the lock leaves no other   *)
(* save under way that could write something older.                         *)

\* A failure before the commit, or one whose captured file is put back,
\* leaves the file as it was.
LEMMA FailKeeps ==
  ASSUME IInv, NEW c \in Savers, Fails(c) \/ RestoresFile(c)
  PROVE  IInv'
<1>1. /\ file' = file /\ AfterError(c) /\ pc[c] = "write"
      /\ UNCHANGED <<registry, fingerprints, queueMark, torn>>
  BY Zenon DEF Fails, RestoresFile, IInv, Captured, Saving, memory, marks
<1>2. UNCHANGED <<process, acked, removed>>
  BY Zenon, <1>1 DEF AfterError
<1>3. Leaves(c) /\ process # "down" /\ \A d \in Savers : d # c => ~Saving(d)
  BY Zenon, <1>1, ErrorLeaves, UnderWay DEF Saving
<1>4. AddedSurvives' /\ RemovedStaysRemoved'
  BY Zenon, <1>1, <1>2 DEF IInv, Added, Gone, AddedSurvives, RemovedStaysRemoved
<1>5. (\A t \in acked' : registry'[t] # 0) /\ (\A t \in removed' : registry'[t] = 0)
  BY Zenon, <1>1, <1>2, <1>3 DEF IInv, Added, Gone
<1>6. Ordered' /\ Captured'
  BY ZenonT(40), <1>1, <1>2, <1>3, LeavesOrdered, LeavesCaptured DEF IInv, Ordered
<1>7. Added' /\ Gone'
  BY ZenonT(40), <1>1, <1>2, <1>3, <1>4, <1>5, LeavesAdded, LeavesGone
<1>8. Typed' /\ SkipIsSound'
  BY ZenonT(40), <1>1, <1>2, <1>3 DEF IInv, Typed, SkipIsSound, Leaves
<1> QED
  BY ZenonT(40), <1>3, <1>6, <1>7, <1>8 DEF IInv, Leaves

\* A failure after the commit leaves the full snapshot in the file.
LEMMA FailLateKeeps ==
  ASSUME IInv, NEW c \in Savers, FailsLate(c)
  PROVE  IInv'
<1>1. /\ file'.rows \in [Torrents -> Nat] /\ file'.kind = "sqlite"
      /\ \A t \in Torrents : file'.rows[t] = snap[c].rows[t]
  BY SMTT(40), OverIs, WrittenIs DEF FailsLate, IInv, Typed, Snapped
<1>2. /\ AfterError(c) /\ pc[c] = "write" /\ snap[c].full /\ torn' = TRUE
      /\ UNCHANGED <<registry, fingerprints, queueMark>>
  BY Zenon DEF FailsLate, memory
<1>3. UNCHANGED <<process, acked, removed>>
  BY Zenon, <1>2 DEF AfterError
<1>4. Leaves(c) /\ process # "down" /\ \A d \in Savers : d # c => ~Saving(d)
  BY Zenon, <1>2, ErrorLeaves, UnderWay DEF Saving
<1>5. AddedSurvives' /\ RemovedStaysRemoved'
  BY SMTT(40), <1>1, <1>2, <1>3 DEF IInv, Typed, Added, Gone, Saving, AddedSurvives, RemovedStaysRemoved
<1>6. (\A t \in acked' : registry'[t] # 0) /\ (\A t \in removed' : registry'[t] = 0)
  BY Zenon, <1>2, <1>3, <1>4 DEF IInv, Added, Gone
<1>7. Ordered' /\ Captured'
  BY Zenon, <1>1, <1>3, <1>4, LeavesOrdered, LeavesCaptured
<1>8. Added' /\ Gone'
  BY Zenon, <1>2, <1>3, <1>4, <1>5, <1>6, LeavesAdded, LeavesGone
<1>9. Typed' /\ SkipIsSound'
  BY ZenonT(40), <1>1, <1>2, <1>3, <1>4 DEF IInv, Typed, SkipIsSound, Leaves
<1> QED
  BY Zenon, <1>4, <1>7, <1>8, <1>9 DEF IInv, Leaves

\* A commit adopts the fingerprints of what it wrote, and answers
\* (adopt_durable_snapshot).
LEMMA CommitKeeps ==
  ASSUME IInv, NEW c \in Savers, Commits(c)
  PROVE  IInv'
<1>1. /\ file'.rows \in [Torrents -> Nat] /\ file'.kind = "sqlite"
      /\ \A t \in Torrents :
           file'.rows[t] = IF snap[c].full \/ snap[c].rows[t] # 0 THEN snap[c].rows[t] ELSE file.rows[t]
  <2>1. Over(snap[c], file.rows) = file'.rows /\ file'.kind = "sqlite"
    BY Zenon, WrittenIs DEF Commits
  <2>2. snap[c].rows \in [Torrents -> Nat] /\ file.rows \in [Torrents -> Nat]
    BY Zenon DEF IInv, Typed, Snapped
  <2> QED
    BY SMTT(40), <2>1, <2>2, OverIs
<1>2. /\ fingerprints' \in [Torrents -> Nat]
      /\ \A t \in Torrents :
           fingerprints'[t] = IF snap[c].full \/ snap[c].rows[t] # 0 THEN snap[c].rows[t] ELSE fingerprints[t]
  BY SMTT(40), OverIs DEF Commits, IInv, Typed, Snapped
<1>3. /\ Succeeds(c) /\ pc[c] = "write" /\ writer' = NoSaver
      /\ torn' = (torn /\ ~snap[c].full)
      /\ UNCHANGED registry
  BY Zenon DEF Commits, memory
<1>4. queueMark' # NoMark => torn' \/ queueMark' = Mark(file'.queue)
  <2>1. CASE snap[c].queue = NoMark
    <3>1. ~snap[c].full
      BY Zenon, <2>1 DEF Commits, IInv, Captured
    <3>2. torn => torn'
      BY ZenonT(40), <3>1 DEF Commits
    <3>3. queueMark' = queueMark /\ file'.queue = file.queue
      BY Zenon, <2>1, WrittenIs DEF Commits, OverMark, Mark
    <3> QED
      BY Zenon, <3>2, <3>3 DEF IInv, SkipIsSound
  <2>2. CASE snap[c].queue # NoMark
    BY Zenon, <2>2, WrittenIs DEF Commits, OverMark, IInv, Snapped, Marked
  <2> QED
    BY Zenon, <2>1, <2>2
<1>5. Leaves(c) /\ op'[c] = "none" /\ process # "down" /\ \A d \in Savers : d # c => ~Saving(d)
  BY Zenon, <1>3, AnswerLeaves, UnderWay DEF Succeeds, Saving
<1>6. /\ process' # "down"
      /\ acked' = IF op[c] = "add" THEN acked \cup ({on[c]} \cap Registered) ELSE acked
      /\ \/ removed' = removed
         \/ op[c] = "remove" /\ c \notin overtaken /\ removed' = removed \cup {on[c]}
  BY Zenon, <1>3, <1>5 DEF Succeeds
<1>7. acked' \subseteq Torrents /\ removed' \subseteq Torrents
  BY Zenon, <1>6 DEF IInv, Typed, Ordered, Registered
<1>8. AddedSurvives' /\ \A t \in acked' : registry'[t] # 0
  <2>1. \A t \in acked : registry[t] # 0 /\ file.rows[t] # 0 /\ (snap[c].full => snap[c].rows[t] # 0)
    BY Zenon, <1>3, <1>5 DEF IInv, Added, AddedSurvives, Saving
  <2>2. op[c] = "add" /\ on[c] \in Registered => registry[on[c]] # 0 /\ snap[c].rows[on[c]] # 0
    BY Zenon, <1>3 DEF IInv, Added, Registered
  <2>3. \A t \in acked' : t \in acked \/ (t = on[c] /\ op[c] = "add" /\ on[c] \in Registered)
    BY Zenon, <1>6
  <2> QED
    BY Zenon, <1>1, <1>3, <1>7, <2>1, <2>2, <2>3 DEF AddedSurvives
<1>9. RemovedStaysRemoved' /\ \A t \in removed' : registry'[t] = 0
  <2>1. \A t \in removed : registry[t] = 0 /\ file.rows[t] = 0 /\ snap[c].rows[t] = 0
    BY Zenon, <1>3 DEF IInv, Gone, RemovedStaysRemoved, Saving
  <2>2. op[c] = "remove" /\ c \notin overtaken =>
          registry[on[c]] = 0 /\ snap[c].rows[on[c]] = 0 /\ snap[c].full
    BY Zenon, <1>3 DEF IInv, Gone, Captured
  <2> QED
    BY SMTT(40), <1>1, <1>3, <1>6, <1>7, <2>1, <2>2 DEF RemovedStaysRemoved
<1>10. Ordered' /\ Captured'
  BY Zenon, <1>1, <1>5, <1>6, LeavesOrdered, LeavesCaptured
<1>11. Added'
  BY Zenon, <1>3, <1>5, <1>6, <1>8, LeavesAdded
<1>12. Gone'
  BY Zenon, <1>3, <1>5, <1>9, LeavesGone
<1>13. Typed'
  BY ZenonT(40), <1>1, <1>2, <1>3, <1>5, <1>7 DEF IInv, Typed, Leaves
<1>14. SkipIsSound'
  <2>1. ~torn' => ~torn \/ snap[c].full
    BY ZenonT(40), <1>3
  <2> QED
    BY Zenon, <1>1, <1>2, <1>4, <2>1 DEF IInv, SkipIsSound
<1> QED
  BY ZenonT(40), <1>5, <1>10, <1>11, <1>12, <1>13, <1>14 DEF IInv, Leaves

\* A changed-record save that finds nothing to write answers at once.
LEMMA NothingKeeps ==
  ASSUME IInv, NEW c \in Savers, SavesNothing(c)
  PROVE  IInv'
<1>1. /\ pc[c] = "save" /\ Answers(c) /\ op[c] \notin {"add", "remove"}
      /\ UNCHANGED <<registry, file, fingerprints, queueMark, torn, writer, acked, removed>>
      /\ process' \in {"up", process}
  BY Zenon DEF SavesNothing, Succeeds, Full, FullOps, memory, marks
<1>2. Leaves(c) /\ process # "down"
  BY Zenon, <1>1, AnswerLeaves, UnderWay
<1>3. AddedSurvives' /\ RemovedStaysRemoved'
  BY ZenonT(40), <1>1 DEF IInv, Added, Gone, AddedSurvives, RemovedStaysRemoved
<1>4. (\A t \in acked' : registry'[t] # 0) /\ (\A t \in removed' : registry'[t] = 0)
  BY Zenon, <1>1, <1>2 DEF IInv, Added, Gone
<1>5. Ordered' /\ Captured'
  BY ZenonT(40), <1>1, <1>2, LeavesOrdered, LeavesCaptured DEF IInv, Ordered
<1>6. Added' /\ Gone'
  BY ZenonT(40), <1>1, <1>2, <1>3, <1>4, LeavesAdded, LeavesGone
<1>7. Typed' /\ SkipIsSound'
  BY ZenonT(40), <1>1, <1>2 DEF IInv, Typed, SkipIsSound, Leaves
<1> QED
  BY Zenon, <1>2, <1>5, <1>6, <1>7 DEF IInv, Leaves

-----------------------------------------------------------------------------
(* The process stops with all or nothing of the write under way on disk, and *)
(* the next one knows exactly the torrents it finds there.                  *)
LEMMA StopKeeps ==
  ASSUME IInv, Stops
  PROVE  IInv'
<1>1. /\ file'.rows \in [Torrents -> Nat]
      /\ file'.kind = "missing" => \A t \in Torrents : file'.rows[t] = 0
      /\ \A t \in acked : file'.rows[t] # 0
      /\ \A t \in removed : file'.rows[t] = 0
  <2>1. CASE file' = file
    BY ZenonT(40), <2>1 DEF IInv, Typed, Ordered, Added, Gone, AddedSurvives, RemovedStaysRemoved
  <2>2. ASSUME NEW c \in Savers, pc[c] = "write", file' = Written(snap[c])
        PROVE  <1>1!1 /\ <1>1!2 /\ <1>1!3 /\ <1>1!4
    <3>1. /\ file'.kind = "sqlite" /\ file'.rows \in [Torrents -> Nat]
          /\ \A t \in Torrents :
               file'.rows[t] = IF snap[c].full \/ snap[c].rows[t] # 0 THEN snap[c].rows[t] ELSE file.rows[t]
      BY <2>2, OverIs, WrittenIs DEF IInv, Typed, Snapped
    <3> QED
      BY ZenonT(40), <2>2, <3>1
         DEF IInv, Typed, Added, Gone, Saving, AddedSurvives, RemovedStaysRemoved
  <2> QED
    BY Zenon, <2>1, <2>2 DEF Stops
<1>2. Typed' /\ Snapped'
  BY Zenon, <1>1 DEF Stops, IInv, Typed, Snapped, Marked, NoRecords, NoSnap, Snap, Ops
<1> QED
  BY Zenon, <1>1, <1>2
     DEF Stops, IInv, Ordered, Captured, Added, Gone, Saving, SkipIsSound, AddedSurvives,
         RemovedStaysRemoved, Typed, NoRecords, OwnershipOps

\* restore_persisted_state registers exactly the torrents of the file.
LEMMA RestoreKeeps ==
  ASSUME IInv, NEW c \in Savers, restore_persisted_state(c)
  PROVE  IInv'
<1>1. /\ registry' \in [Torrents -> Nat]
      /\ \A t \in Torrents : registry'[t] # 0 <=> file.rows[t] # 0
  BY SMTT(40), DurableStateAssumption DEF restore_persisted_state, Records, Versions
<1>2. /\ process = "down" /\ process' = "restoring"
      /\ op' = [op EXCEPT ![c] = "restore"] /\ pc' = [pc EXCEPT ![c] = "save"]
      /\ UNCHANGED <<file, fingerprints, queueMark, torn, writer, on, previous, snap, acked, removed, overtaken>>
  BY Zenon DEF restore_persisted_state, marks, told
<1>3. \A d \in Savers : pc[d] = "idle" /\ op[d] = "none"
  BY Zenon, <1>2 DEF IInv, Ordered
<1>4. \A d \in Savers : /\ pc'[d] \in {"idle", "save"} /\ op'[d] \in {"none", "restore"}
                        /\ pc'[d] = "idle" => op'[d] = "none"
  BY Zenon, <1>2, <1>3 DEF IInv, Typed
<1>5. Typed' /\ Snapped'
  BY Zenon, <1>1, <1>2 DEF IInv, Typed, Snapped, Ops
<1>6. Ordered' /\ Captured'
  BY Zenon, <1>2, <1>4 DEF IInv, Ordered, Captured, Saving, OwnershipOps
<1>7. Added' /\ Gone'
  BY ZenonT(40), <1>1, <1>2, <1>4 DEF IInv, Typed, Added, Gone, Saving, AddedSurvives, RemovedStaysRemoved
<1>8. SkipIsSound'
  BY ZenonT(40), <1>2 DEF IInv, SkipIsSound
<1> QED
  BY Zenon, <1>5, <1>6, <1>7, <1>8 DEF IInv

\* Without a file the daemon starts with nothing.
LEMMA EmptyKeeps ==
  ASSUME IInv, StartsEmpty
  PROVE  IInv'
  BY ZenonT(40) DEF StartsEmpty, IInv, Typed, Snapped, Ordered, Captured, Added, Gone, Saving, SkipIsSound,
         AddedSurvives, RemovedStaysRemoved, memory, marks, job, told

\* Every step of the daemon keeps the invariant.
LEMMA NextKeeps == IInv /\ [Next]_vars => IInv'
<1> SUFFICES ASSUME IInv, [Next]_vars PROVE IInv'
  BY Zenon
<1>1. ASSUME NEW c \in Savers, NEW t \in Torrents, Operation(c) PROVE IInv'
  BY Zenon, <1>1, AddKeeps, DropKeeps, ChangeKeeps, QueueKeeps
     DEF Operation, remove_torrent, selfish_remove_completed, set_labels, set_torrent_limits,
         move_data, release_preview_payload_gate
<1>2. ASSUME NEW c \in Savers, Save(c) PROVE IInv'
  BY Zenon, <1>2, ScanFullKeeps, ScanPairedKeeps, ScanPairedQueueKeeps, ScanChangedKeeps, CommitKeeps,
     NothingKeeps, FailKeeps, FailLateKeeps, UndoKeeps DEF Save
<1>3. CASE UNCHANGED vars
  <2> USE <1>3 DEF vars, memory, marks, job, told
  <2>1. Typed' /\ Snapped'
    BY Zenon DEF IInv, Typed, Snapped
  <2>2. Ordered' /\ Captured'
    BY Zenon DEF IInv, Ordered, Captured, Saving
  <2>3. Added'
    BY ZenonT(40) DEF IInv, Added, Saving, AddedSurvives
  <2>4. Gone'
    BY Zenon DEF IInv, Gone, Saving, RemovedStaysRemoved
  <2>5. SkipIsSound'
    BY Zenon DEF IInv, SkipIsSound
  <2> QED
    BY Zenon, <2>1, <2>2, <2>3, <2>4, <2>5 DEF IInv
<1> QED
  BY Zenon, <1>1, <1>2, <1>3, QueueKeeps, RestoreKeeps, StopKeeps, EmptyKeeps DEF Next, Operation

\* The invariant holds in every behaviour of the saves.
THEOREM IInvHolds == Spec => []IInv
  BY InitHolds, NextKeeps, PTL DEF Spec

\* A changed-record save skips only what is on disk with that content
\* (persist_changed_state_locked), however many torrents, savers and contents.
THEOREM SkippingIsSound == Spec => []SkipIsSound
<1>1. IInv => SkipIsSound
  BY Zenon DEF IInv
<1> QED
  BY <1>1, IInvHolds, PTL

\* A torrent whose addition was answered with success is on disk until its
\* removal begins (add_torrent_mutation), whatever fails or stops.
THEOREM AdditionsSurvive == Spec => []AddedSurvives
<1>1. IInv => AddedSurvives
  BY Zenon DEF IInv, Added
<1> QED
  BY <1>1, IInvHolds, PTL

\* A torrent whose remove_torrent was answered with success is off the disk
\* until it is added again, so that no restart brings it back.
THEOREM RemovalsStay == Spec => []RemovedStaysRemoved
<1>1. IInv => RemovedStaysRemoved
  BY Zenon DEF IInv, Gone
<1> QED
  BY <1>1, IInvHolds, PTL

-----------------------------------------------------------------------------
(* The files of the plan as they stand while a move is under way. The source *)
(* of the entry at hand is there until the entry is settled: only its        *)
(* directories are left to be synced.                                        *)
Settled == call = "sync" /\ at[Target] # "part"

(* What the next call for the entry relies on. *)
EntryAtHand ==
  /\ call \in {"link", "unlink"} => plan[entry] = "existing"
  /\ call # "start" => plan[entry] # "absent"
  /\ plan[entry] = "empty" => (moving = "back" => call \in {"start", "undo", "sync"})
                              /\ (moving = "forward" => call \in {"start", "copy", "sync"})
  /\ plan[entry] = "existing" /\ ~Settled => at[Source] # "none"
  /\ plan[entry] = "existing" /\ call \in {"unlink", "undo"} =>
       at[Target] = at[Source] /\ Target \notin strangers
  /\ Settled /\ entry \in owned => at[Target] = "own" /\ at[Source] # "own"
  /\ Settled /\ moving = "forward" => at[Target] # "none" /\ Target \notin strangers

(* A copy is unfinished only at the target of the entry at hand. *)
PartIsAtHand ==
  \A f \in PayloadFiles, s \in Sides : at[<<f, s>>] = "part" =>
    f = entry /\ s = Away(From) /\ call = "sync" /\ plan[f] = "existing"

(* A completed entry is at the destination and is the torrent's, until its   *)
(* rollback has taken it from there.                                         *)
CompletedIsThere == \A f \in completed :
  /\ plan[f] # "absent"
  /\ ~(moving = "back" /\ f = entry /\ Settled) =>
       /\ at[<<f, "dst">>] # "none" /\ <<f, "dst">> \notin strangers
       /\ f \in owned => at[<<f, "dst">>] = "own"

(* A file of the torrent that is not completed is where it was, unless its   *)
(* rollback failed.                                                          *)
OthersAreHome ==
  stuck = {} => \A f \in owned \ completed :
    ~(moving = "forward" /\ f = entry /\ Settled) => at[<<f, "src">>] = "own"

(* Going forward, the entries before the one at hand are completed and those *)
(* after it are untouched.                                                   *)
ForwardInOrder ==
  /\ stuck = {}
  /\ \A f \in completed : f < entry /\ (f \in owned => at[<<f, "src">>] # "own")
  /\ \A f \in PayloadFiles : f < entry /\ plan[f] # "absent" => f \in completed
  /\ \A f \in PayloadFiles : f > entry /\ plan[f] = "existing" => at[<<f, "src">>] # "none"

MoveUnderway ==
  /\ \A f \in owned : plan[f] = "existing"
  /\ EntryAtHand /\ PartIsAtHand /\ CompletedIsThere /\ OthersAreHome
  /\ moving = "forward" => ForwardInOrder
  /\ moving = "back" => entry \in completed

MoveStill ==
  /\ \A f \in PayloadFiles : at[<<f, "src">>] = "part" => at[<<f, "dst">>] # "none"
  /\ moves = 0 => moving = "no" /\ \A f \in PayloadFiles : at[<<f, "dst">>] = "none"

MoveInv ==
  /\ SmTypeOK /\ MoveIsSafe
  /\ owned \subseteq PayloadFiles /\ entry \in PayloadFiles /\ moves \in Nat
  /\ strangers \subseteq PayloadFiles \X {"dst"}
  /\ resume => moving \in {"no", "failed"}
  /\ IF Underway THEN moves > 0 /\ MoveUnderway ELSE MoveStill

\* Every nonempty set of numbers has a least one.
LEMMA Least ==
  ASSUME NEW T, T \subseteq Nat, T # {}
  PROVE  \E n \in T : \A m \in T : n <= m
<1>1. PICK n \in T : \A m \in T : ~(<<m, n>> \in OpToRel(<, Nat))
  BY NatLessThanWellFounded, WFMin, Zenon
<1>2. \A m \in T : ~(m < n)
  BY Zenon, <1>1 DEF OpToRel
<1> QED BY <1>2


\* The plan's entries are numbered from 1.
LEMMA PlanIsNumbered ==
  /\ Last \in Nat /\ 1 \in PayloadFiles
  /\ \A f \in PayloadFiles : f \in Nat /\ f >= 1 /\ f <= Last
  /\ \A f \in PayloadFiles : f < Last => f + 1 \in PayloadFiles
<1>1. Last \in Nat
  BY Zenon, MoveAssumption, FS_CardinalityType DEF Last
<1> QED
  BY <1>1, MoveAssumption

\* The rollback takes up a completed entry.
LEMMA LatestIsCompleted ==
  ASSUME NEW S, S \subseteq PayloadFiles, S # {}
  PROVE  (CHOOSE f \in S : \A g \in S : g <= f) \in S
<1> DEFINE above == {n \in Nat : \A g \in S : g <= n}
<1>1. Last \in above
  BY Zenon, PlanIsNumbered
<1>2. PICK n \in above : \A m \in above : n <= m
  BY Zenon, <1>1, Least
<1>3. n \in S
  <2> SUFFICES ASSUME n \notin S PROVE FALSE
    BY Zenon
  <2>1. \A g \in S : g \in Nat /\ g >= 1 /\ g <= n /\ g # n
    BY Zenon, <1>2, PlanIsNumbered
  <2>2. n \in Nat /\ n >= 1
    BY <2>1, <1>2
  <2>3. n - 1 \in Nat /\ \A g \in S : g <= n - 1
    BY <2>1, <2>2
  <2> QED
    BY <2>3, <2>2, <1>2
<1>4. \A g \in S : g <= n
  BY Zenon, <1>2
<1> QED
  BY Zenon, <1>3, <1>4

(* The step touches no path but the two of the entry at hand, and leaves    *)
(* every file whole on one side and every stranger's in place.              *)
OnlyEntry ==
  /\ at' \in [PayloadFiles \X Sides -> {"none", "own", "part", "foreign"}]
  /\ \A f \in PayloadFiles \ {entry}, s \in Sides : at'[<<f, s>>] = at[<<f, s>>]
  /\ \A f \in owned : \E s \in Sides : at'[<<f, s>>] = "own"
  /\ \A p \in strangers : at'[p] = "foreign"

\* What a call does to the one path it writes.
LEMMA SetEffects ==
  ASSUME MoveInv, NEW s \in Sides, NEW v \in {"none", "own", "part", "foreign"},
         Set(<<entry, s>>, v)
  PROVE  /\ at' \in [PayloadFiles \X Sides -> {"none", "own", "part", "foreign"}]
         /\ \A f \in PayloadFiles, t \in Sides :
              at'[<<f, t>>] = IF f = entry /\ t = s THEN v ELSE at[<<f, t>>]
  BY Zenon DEF MoveInv, SmTypeOK, Set

\* Going forward or back, the entry's two paths are its source and its target.
LEMMA EntryPaths ==
  ASSUME MoveInv, Underway
  PROVE  /\ Source = <<entry, From>> /\ Target = <<entry, Away(From)>>
         /\ From \in Sides /\ Away(From) \in Sides /\ From # Away(From)
         /\ Away(Away(From)) = From
         /\ moving = "forward" => From = "src" /\ Away(From) = "dst"
         /\ moving = "back" => From = "dst" /\ Away(From) = "src"
         /\ at[Source] \in {"none", "own", "part", "foreign"}
         /\ at[Target] \in {"none", "own", "part", "foreign"}
  BY Zenon DEF MoveInv, SmTypeOK, Underway, Source, Target, From, Away, Sides

\* A rollback begins with every completed entry at the destination and every
\* other file where it was.
LEMMA RollBackKeeps ==
  ASSUME MoveInv, moving = "forward", Still, OnlyEntry,
         NEW done \in {{}, {entry}}, RollBack(done),
         \A s \in Sides : at'[<<entry, s>>] # "part",
         done = {} /\ entry \in owned => at'[<<entry, "src">>] = "own",
         done # {} => /\ plan[entry] # "absent"
                      /\ at'[<<entry, "dst">>] # "none" /\ <<entry, "dst">> \notin strangers
                      /\ entry \in owned => at'[<<entry, "dst">>] = "own"
  PROVE  MoveInv'
<1>1. ForwardInOrder /\ CompletedIsThere /\ OthersAreHome /\ PartIsAtHand
      /\ (\A f \in owned : plan[f] = "existing") /\ moves > 0 /\ ~resume /\ moves \in Nat
  BY Zenon DEF MoveInv, Underway, MoveUnderway
<1>2. completed' \subseteq PayloadFiles /\ stuck' = {} /\ call' = "start"
      /\ completed' = completed \cup done
  BY Zenon, <1>1 DEF MoveInv, SmTypeOK, RollBack, ForwardInOrder
<1>3. \A f \in PayloadFiles, s \in Sides : at'[<<f, s>>] # "part"
  <2> SUFFICES ASSUME NEW f \in PayloadFiles, NEW s \in Sides PROVE at'[<<f, s>>] # "part"
    BY Zenon
  <2>1. CASE f = entry
    BY Zenon, <2>1
  <2>2. CASE f # entry
    <3>1. at'[<<f, s>>] = at[<<f, s>>]
      BY Zenon, <2>2 DEF OnlyEntry
    <3> QED
      BY Zenon, <2>2, <3>1, <1>1 DEF PartIsAtHand
  <2> QED
    BY Zenon, <2>1, <2>2
<1>4. \A f \in owned \ completed' : at'[<<f, "src">>] = "own"
  BY Zenon, <1>1, <1>2 DEF OthersAreHome, OnlyEntry, MoveInv, ForwardInOrder, Sides
<1>5. \A f \in completed' : /\ plan[f] # "absent"
                            /\ at'[<<f, "dst">>] # "none" /\ <<f, "dst">> \notin strangers
                            /\ f \in owned => at'[<<f, "dst">>] = "own"
  <2> SUFFICES ASSUME NEW f \in completed'
               PROVE  /\ plan[f] # "absent"
                      /\ at'[<<f, "dst">>] # "none" /\ <<f, "dst">> \notin strangers
                      /\ f \in owned => at'[<<f, "dst">>] = "own"
    BY Zenon
  <2>1. CASE f \in completed
    <3>1. f # entry /\ f \in PayloadFiles
      BY <2>1, <1>1, <1>2, PlanIsNumbered DEF ForwardInOrder
    <3>2. at'[<<f, "dst">>] = at[<<f, "dst">>]
      BY Zenon, <3>1 DEF OnlyEntry, Sides
    <3> QED
      BY Zenon, <2>1, <3>1, <3>2, <1>1 DEF CompletedIsThere
  <2>2. CASE f \notin completed
    BY Zenon, <2>2, <1>2
  <2> QED
    BY Zenon, <2>1, <2>2
<1>6. CASE completed' = {}
  <2>1. moving' = "failed" /\ entry' = entry
    BY Zenon, <1>6 DEF RollBack
  <2> QED
    BY <1>1, <1>2, <1>3, <1>4, <1>6, <2>1
    DEF MoveInv, SmTypeOK, MoveIsSafe, Underway, MoveStill, Still, OnlyEntry, Sides
<1>7. CASE completed' # {}
  <2>1. moving' = "back" /\ entry' \in completed'
    BY Zenon, <1>2, <1>7, LatestIsCompleted DEF RollBack
  <2>2. MoveUnderway'
    BY Zenon, <1>1, <1>2, <1>3, <1>4, <1>5, <2>1
    DEF MoveUnderway, EntryAtHand, PartIsAtHand, CompletedIsThere, OthersAreHome,
        Settled, Still, Source, From
  <2> QED
    BY Zenon, <1>1, <1>2, <2>1, <2>2
    DEF MoveInv, SmTypeOK, MoveIsSafe, Underway, Still, OnlyEntry
<1> QED
  BY Zenon, <1>6, <1>7

\* Rolling one entry back leaves the others as they were; when it succeeds the
\* file is back where it was.
LEMMA RolledBackKeeps ==
  ASSUME MoveInv, moving = "back", Still, OnlyEntry,
         NEW failure \in {{}, {entry}}, RolledBack(failure),
         \A s \in Sides : at'[<<entry, s>>] # "part",
         failure = {} /\ entry \in owned => at'[<<entry, "src">>] = "own"
  PROVE  MoveInv'
<1>1. CompletedIsThere /\ OthersAreHome /\ PartIsAtHand
      /\ (\A f \in owned : plan[f] = "existing") /\ moves > 0 /\ ~resume /\ moves \in Nat
  BY Zenon DEF MoveInv, Underway, MoveUnderway
<1>2. completed' \subseteq PayloadFiles /\ stuck' \subseteq PayloadFiles /\ call' = "start"
      /\ completed' = completed \ {entry} /\ stuck' = stuck \cup failure
  BY Zenon, <1>1 DEF MoveInv, SmTypeOK, RolledBack
<1>3. \A f \in PayloadFiles, s \in Sides : at'[<<f, s>>] # "part"
  <2> SUFFICES ASSUME NEW f \in PayloadFiles, NEW s \in Sides PROVE at'[<<f, s>>] # "part"
    BY Zenon
  <2>1. CASE f = entry
    BY Zenon, <2>1
  <2>2. CASE f # entry
    <3>1. at'[<<f, s>>] = at[<<f, s>>]
      BY Zenon, <2>2 DEF OnlyEntry
    <3> QED
      BY Zenon, <2>2, <3>1, <1>1 DEF PartIsAtHand
  <2> QED
    BY Zenon, <2>1, <2>2
<1>4. stuck' = {} => \A f \in owned \ completed' : at'[<<f, "src">>] = "own"
  BY Zenon, <1>1, <1>2 DEF OthersAreHome, OnlyEntry, MoveInv, Sides
<1>5. \A f \in completed' : /\ plan[f] # "absent"
                            /\ at'[<<f, "dst">>] # "none" /\ <<f, "dst">> \notin strangers
                            /\ f \in owned => at'[<<f, "dst">>] = "own"
  BY ZenonT(40), <1>1, <1>2 DEF CompletedIsThere, OnlyEntry, MoveInv, SmTypeOK, Sides
<1>6. CASE completed' = {}
  <2>1. moving' = "failed" /\ entry' = entry
    BY Zenon, <1>6 DEF RolledBack
  <2> QED
    BY <1>1, <1>2, <1>3, <1>4, <1>6, <2>1
    DEF MoveInv, SmTypeOK, MoveIsSafe, Underway, MoveStill, Still, OnlyEntry, Sides
<1>7. CASE completed' # {}
  <2>1. moving' = "back" /\ entry' \in completed'
    BY Zenon, <1>2, <1>7, LatestIsCompleted DEF RolledBack
  <2>2. MoveUnderway'
    BY Zenon, <1>1, <1>2, <1>3, <1>4, <1>5, <2>1
    DEF MoveUnderway, EntryAtHand, PartIsAtHand, CompletedIsThere, OthersAreHome,
        Settled, Still, Source, From
  <2> QED
    BY Zenon, <1>1, <1>2, <2>1, <2>2
    DEF MoveInv, SmTypeOK, MoveIsSafe, Underway, Still, OnlyEntry
<1> QED
  BY Zenon, <1>6, <1>7

\* A call that leads to the next call for the same entry.
LEMMA CallKeeps ==
  ASSUME MoveInv, Underway, Still, OnlyEntry,
         NEW c \in {"start", "link", "copy", "unlink", "undo", "sync"}, Call(c),
         EntryAtHand',
         \A s \in Sides : at'[<<entry, s>>] = "part" =>
           s = Away(From) /\ c = "sync" /\ plan[entry] = "existing",
         moving = "forward" /\ entry \in owned /\ ~Settled' => at'[<<entry, "src">>] = "own",
         moving = "back" /\ ~Settled' =>
           /\ at'[<<entry, "dst">>] # "none" /\ <<entry, "dst">> \notin strangers
           /\ entry \in owned => at'[<<entry, "dst">>] = "own"
  PROVE  MoveInv'
<1>1. MoveUnderway /\ moves > 0 /\ ~resume
  BY Zenon DEF MoveInv, Underway
<1>2. /\ call' = c /\ moving' = moving /\ entry' = entry /\ completed' = completed
      /\ stuck' = stuck /\ plan' = plan /\ owned' = owned /\ strangers' = strangers
      /\ moves' = moves /\ resume' = resume /\ From' = From
  BY Zenon DEF Call, Still, From
<1>3. completed \subseteq PayloadFiles /\ entry \in PayloadFiles /\ owned \subseteq PayloadFiles
  BY Zenon DEF MoveInv, SmTypeOK
<1>4. PartIsAtHand'
  BY <1>1, <1>2 DEF MoveUnderway, PartIsAtHand, OnlyEntry
<1>5. CompletedIsThere'
  <2> SUFFICES ASSUME NEW f \in completed, ~(moving = "back" /\ f = entry /\ Settled')
               PROVE  /\ at'[<<f, "dst">>] # "none" /\ <<f, "dst">> \notin strangers
                      /\ f \in owned => at'[<<f, "dst">>] = "own"
    BY Zenon, <1>1, <1>2 DEF MoveUnderway, CompletedIsThere
  <2>1. CASE f = entry
    BY <2>1, <1>1, <1>3, PlanIsNumbered DEF MoveUnderway, ForwardInOrder, Underway
  <2>2. CASE f # entry
    BY Zenon, <2>2, <1>1, <1>3 DEF MoveUnderway, CompletedIsThere, OnlyEntry, Sides
  <2> QED
    BY Zenon, <2>1, <2>2
<1>6. OthersAreHome'
  BY ZenonT(40), <1>1, <1>2, <1>3 DEF MoveUnderway, OthersAreHome, OnlyEntry, Sides, Underway
<1>7. moving = "forward" => ForwardInOrder'
  <2> SUFFICES ASSUME moving = "forward" PROVE ForwardInOrder'
    BY Zenon
  <2>1. ForwardInOrder
    BY Zenon, <1>1 DEF MoveUnderway
  <2>2. \A f \in PayloadFiles : f < entry \/ f > entry =>
          at'[<<f, "src">>] = at[<<f, "src">>]
    <3>1. \A f \in PayloadFiles : f < entry \/ f > entry => f # entry
      BY <1>3, PlanIsNumbered
    <3> QED
      BY Zenon, <3>1 DEF OnlyEntry, Sides
  <2> QED
    BY Zenon, <1>2, <1>3, <2>1, <2>2 DEF ForwardInOrder
<1>8. MoveUnderway'
  BY Zenon, <1>1, <1>2, <1>4, <1>5, <1>6, <1>7 DEF MoveUnderway
<1> QED
  BY Zenon, <1>1, <1>2, <1>8 DEF MoveInv, SmTypeOK, MoveIsSafe, Underway, OnlyEntry

\* Going on to the next entry, or finishing.
LEMMA NextEntryKeeps ==
  ASSUME MoveInv, moving = "forward", Still, UNCHANGED at,
         NEW done \in {{}, {entry}}, NextEntry(done),
         done = {} => plan[entry] = "absent" /\ call = "start",
         done # {} => Settled /\ plan[entry] # "absent"
  PROVE  MoveInv'
<1>1. MoveUnderway /\ ForwardInOrder /\ moves > 0 /\ ~resume /\ moves \in Nat
  BY Zenon DEF MoveInv, Underway, MoveUnderway
<1>2. /\ completed' = completed \cup done /\ call' = "start" /\ stuck' = {}
      /\ plan' = plan /\ owned' = owned /\ strangers' = strangers
      /\ moves' = moves /\ resume' = resume /\ at' = at
  BY Zenon, <1>1 DEF NextEntry, Still, ForwardInOrder
<1>3. /\ completed \subseteq PayloadFiles /\ entry \in PayloadFiles
      /\ owned \subseteq PayloadFiles /\ completed' \subseteq PayloadFiles
      /\ (entry \in owned => plan[entry] = "existing")
  BY Zenon, <1>1, <1>2 DEF MoveInv, SmTypeOK, MoveUnderway
<1>4. \A f \in PayloadFiles, s \in Sides : at[<<f, s>>] # "part"
  BY Zenon, <1>1, <1>2 DEF MoveUnderway, PartIsAtHand, Settled, Target
<1>5. \A f \in completed' : /\ plan[f] # "absent"
                            /\ at[<<f, "dst">>] # "none" /\ <<f, "dst">> \notin strangers
                            /\ f \in owned => at[<<f, "dst">>] = "own" /\ at[<<f, "src">>] # "own"
                            /\ f <= entry
  <2> SUFFICES ASSUME NEW f \in completed'
               PROVE  /\ plan[f] # "absent"
                      /\ at[<<f, "dst">>] # "none" /\ <<f, "dst">> \notin strangers
                      /\ f \in owned => at[<<f, "dst">>] = "own" /\ at[<<f, "src">>] # "own"
                      /\ f <= entry
    BY Zenon
  <2>1. CASE f \in completed
    BY <2>1, <1>1, <1>3, PlanIsNumbered DEF MoveUnderway, CompletedIsThere, ForwardInOrder
  <2>2. CASE f \notin completed
    BY <2>2, <1>1, <1>2, <1>3, PlanIsNumbered
    DEF MoveUnderway, EntryAtHand, Target, Source, From, Away
  <2> QED
    BY Zenon, <2>1, <2>2
<1>6. \A f \in owned \ completed' : at[<<f, "src">>] = "own"
  BY Zenon, <1>1, <1>2, <1>3 DEF MoveUnderway, OthersAreHome, ForwardInOrder
<1>7. \A f \in PayloadFiles : f <= entry /\ plan[f] # "absent" => f \in completed'
  BY <1>1, <1>2, <1>3, PlanIsNumbered DEF ForwardInOrder
<1>8. CASE entry < Last
  <2>1. entry' = entry + 1 /\ moving' = "forward" /\ entry' \in PayloadFiles
    BY Zenon, <1>8, <1>3, PlanIsNumbered DEF NextEntry
  <2>2. ForwardInOrder'
    <3>1. \A f \in PayloadFiles :
            (f <= entry => f < entry') /\ (f < entry' => f <= entry) /\ (f > entry' => f > entry)
      BY <2>1, <1>3, PlanIsNumbered
    <3>2. \A f \in completed' : f < entry' /\ (f \in owned => at[<<f, "src">>] # "own")
      BY Zenon, <3>1, <1>3, <1>5
    <3>3. \A f \in PayloadFiles : f < entry' /\ plan[f] # "absent" => f \in completed'
      BY Zenon, <3>1, <1>7
    <3>4. \A f \in PayloadFiles : f > entry' /\ plan[f] = "existing" => at[<<f, "src">>] # "none"
      BY Zenon, <3>1, <1>1 DEF ForwardInOrder
    <3> QED
      BY Zenon, <1>2, <3>2, <3>3, <3>4 DEF ForwardInOrder
  <2>3. CompletedIsThere' /\ OthersAreHome' /\ PartIsAtHand'
    BY Zenon, <2>1, <1>2, <1>4, <1>5, <1>6 DEF CompletedIsThere, OthersAreHome, PartIsAtHand
  <2>4. EntryAtHand'
    BY SMTT(40), <2>1, <1>1, <1>2, <1>3, PlanIsNumbered
    DEF EntryAtHand, Settled, Source, From, ForwardInOrder
  <2> QED
    BY <1>1, <1>2, <1>3, <2>1, <2>2, <2>3, <2>4
    DEF MoveInv, SmTypeOK, MoveIsSafe, Underway, MoveUnderway
<1>9. CASE ~(entry < Last)
  <2>1. entry' = entry /\ moving' = "done"
    BY Zenon, <1>9 DEF NextEntry
  <2>2. \A f \in owned : at[<<f, "src">>] # "own" /\ at[<<f, "dst">>] = "own"
    <3>1. \A f \in PayloadFiles : f <= entry
      BY <1>3, <1>9, PlanIsNumbered
    <3>2. \A f \in owned : plan[f] # "absent"
      BY Zenon, <1>1 DEF MoveUnderway
    <3> QED
      BY Zenon, <1>3, <1>5, <1>7, <3>1, <3>2
  <2> QED
    BY <1>1, <1>2, <1>3, <1>4, <2>1, <2>2
    DEF MoveInv, SmTypeOK, MoveIsSafe, Underway, MoveStill, Sides
<1> QED
  BY Zenon, <1>8, <1>9

\* A plan is made only when the destination is free of every file.
LEMMA BuildPlanKeeps ==
  ASSUME MoveInv, BuildPlan
  PROVE  MoveInv'
<1>1. /\ MoveStill /\ moves \in Nat /\ moves' = moves + 1 /\ moving = "no"
      /\ owned \subseteq PayloadFiles /\ call' = "start" /\ completed' = {} /\ stuck' = {}
      /\ entry' = 1 /\ at' = at /\ owned' = owned /\ strangers' = strangers
  BY Zenon DEF MoveInv, BuildPlan, Underway
<1>2. CASE \E f \in PayloadFiles : at[<<f, "dst">>] # "none"
  <2>1. moving' = "failed" /\ plan' = plan /\ resume' = resume /\ moves # 0
    BY Zenon, <1>1, <1>2 DEF BuildPlan, MoveStill
  <2> QED
    BY SMTT(40), <1>1, <2>1, PlanIsNumbered DEF MoveInv, SmTypeOK, MoveIsSafe, Underway, MoveStill
<1>3. CASE \A f \in PayloadFiles : at[<<f, "dst">>] = "none"
  <2>1. /\ moving' = "forward" /\ resume' = FALSE
        /\ plan' = [f \in PayloadFiles |->
                      IF at[<<f, "src">>] # "none" THEN "existing"
                      ELSE IF f \in EmptyFiles THEN "empty" ELSE "absent"]
    BY Zenon, <1>3 DEF BuildPlan
  <2>2. plan' \in [PayloadFiles -> {"existing", "empty", "absent"}]
    BY Zenon, <2>1
  <2>3. \A f \in PayloadFiles : plan'[f] = "existing" <=> at[<<f, "src">>] # "none"
    BY Zenon, <2>1
  <2>4. \A f \in owned : at[<<f, "src">>] = "own"
    BY Zenon, <1>1, <1>3 DEF MoveInv, MoveIsSafe, Sides
  <2>5. \A f \in PayloadFiles, s \in Sides : at[<<f, s>>] # "part"
    BY Zenon, <1>1, <1>3 DEF MoveStill, Sides
  <2>6. EntryAtHand' /\ PartIsAtHand' /\ CompletedIsThere' /\ OthersAreHome'
    BY Zenon, <1>1, <2>1, <2>3, <2>4, <2>5, PlanIsNumbered
    DEF EntryAtHand, Settled, Source, From, PartIsAtHand, CompletedIsThere, OthersAreHome
  <2>7. ForwardInOrder'
    BY <1>1, <2>3, PlanIsNumbered DEF ForwardInOrder
  <2>8. MoveUnderway'
    BY Zenon, <1>1, <2>1, <2>3, <2>4, <2>6, <2>7 DEF MoveUnderway
  <2> QED
    BY <1>1, <2>1, <2>2, <2>8, PlanIsNumbered DEF MoveInv, SmTypeOK, MoveIsSafe, Underway
<1> QED
  BY Zenon, <1>2, <1>3

\* The process dies between two calls: an unfinished copy has its source.
LEMMA MoveCrashKeeps ==
  ASSUME MoveInv, Crash
  PROVE  MoveInv'
<1> Underway
  BY Zenon DEF Crash
<1>1. MoveUnderway /\ moves > 0 /\ moves \in Nat /\ ~resume
  BY Zenon DEF MoveInv, Underway
<1>2. \A f \in PayloadFiles : at[<<f, "src">>] = "part" => at[<<f, "dst">>] # "none"
  BY Zenon, <1>1 DEF MoveUnderway, PartIsAtHand, EntryAtHand, Settled, Source, Target, From, Away,
              Crash, Underway, Sides
<1> QED
  BY <1>1, <1>2 DEF MoveInv, SmTypeOK, MoveIsSafe, Underway, Crash, MoveStill

LEMMA AgainKeeps ==
  ASSUME MoveInv, Again
  PROVE  MoveInv'
  BY Zenon DEF MoveInv, SmTypeOK, MoveIsSafe, Underway, Again, MoveStill

\* Someone else makes a file where there is none.
LEMMA StrangerKeeps ==
  ASSUME MoveInv, Stranger
  PROVE  MoveInv'
<1> Underway
  BY Zenon DEF Stranger
<1>1. MoveUnderway /\ moves > 0 /\ moves \in Nat /\ ~resume
  BY Zenon DEF MoveInv, Underway
<1>2. /\ UNCHANGED <<owned, resume, plan, moving, entry, call, completed, stuck, moves>>
      /\ From' = From /\ Target' = Target /\ Source' = Source
  BY Zenon DEF Stranger, progress, From, Target, Source
<1>3. PICK g \in PayloadFiles, t \in Sides :
        /\ at[<<g, t>>] = "none" /\ Set(<<g, t>>, "foreign")
        /\ strangers' = strangers \cup (IF t = "dst" THEN {<<g, t>>} ELSE {})
  BY DEF Stranger
<1>4. /\ at' \in [PayloadFiles \X Sides -> {"none", "own", "part", "foreign"}]
      /\ \A f \in PayloadFiles, s \in Sides :
           at'[<<f, s>>] = IF f = g /\ s = t THEN "foreign" ELSE at[<<f, s>>]
  BY Zenon, <1>3 DEF MoveInv, SmTypeOK, Set
<1>5. \A f \in PayloadFiles, s \in Sides : at[<<f, s>>] # "none" =>
        /\ at'[<<f, s>>] = at[<<f, s>>]
        /\ <<f, s>> \in strangers' => <<f, s>> \in strangers
  BY Zenon, <1>3, <1>4
<1>6. \A f \in PayloadFiles, s \in Sides :
        at'[<<f, s>>] \notin {"own", "part"} \/ at'[<<f, s>>] = at[<<f, s>>]
  BY Zenon, <1>4
<1> HIDE DEF Set
<1>7. entry \in PayloadFiles /\ completed \subseteq PayloadFiles /\ owned \subseteq PayloadFiles
      /\ From \in Sides /\ Away(From) \in Sides
  BY Zenon DEF MoveInv, SmTypeOK, From, Away, Sides
<1>8. EntryAtHand'
  BY Zenon, <1>1, <1>2, <1>5, <1>6, <1>7 DEF MoveUnderway, EntryAtHand, Settled, Source, Target
<1>9. PartIsAtHand'
  BY Zenon, <1>1, <1>2, <1>6 DEF MoveUnderway, PartIsAtHand
<1>10. Settled' = Settled
  BY Zenon, <1>2, <1>5, <1>6, <1>7 DEF Settled, Target
<1>11. CompletedIsThere' /\ OthersAreHome'
  BY Zenon, <1>1, <1>2, <1>5, <1>7, <1>10 DEF MoveUnderway, CompletedIsThere, OthersAreHome, Sides
<1>12. moving = "forward" => ForwardInOrder'
  BY Zenon, <1>1, <1>2, <1>5, <1>6, <1>7 DEF MoveUnderway, ForwardInOrder, Sides
<1>13. MoveUnderway'
  BY Zenon, <1>1, <1>2, <1>8, <1>9, <1>11, <1>12 DEF MoveUnderway
<1>14. strangers' \subseteq PayloadFiles \X {"dst"} /\ \A p \in strangers' : at'[p] = "foreign"
  <2>1. strangers \subseteq PayloadFiles \X {"dst"} /\ \A p \in strangers : at[p] = "foreign"
    BY Zenon DEF MoveInv, MoveIsSafe
  <2> SUFFICES ASSUME NEW p \in strangers'
               PROVE  p \in PayloadFiles \X {"dst"} /\ at'[p] = "foreign"
    BY Zenon
  <2>2. CASE p \in strangers
    <3>1. PICK f \in PayloadFiles : p = <<f, "dst">>
      BY <2>1, <2>2
    <3>2. at[<<f, "dst">>] # "none" /\ at[p] = "foreign"
      BY Zenon, <2>1, <2>2, <3>1
    <3> QED
      BY Zenon, <2>1, <2>2, <3>1, <3>2, <1>5 DEF Sides
  <2>3. CASE p \notin strangers
    <3>1. t = "dst" /\ p = <<g, t>>
      BY Zenon, <1>3, <2>3
    <3> QED
      BY Zenon, <1>4, <3>1
  <2> QED
    BY Zenon, <2>2, <2>3
<1>15. \A f \in owned : \E s \in Sides : at'[<<f, s>>] = "own"
  BY ZenonT(40), <1>5, <1>7 DEF MoveInv, MoveIsSafe
<1> QED
  BY SMTT(40), <1>1, <1>2, <1>4, <1>7, <1>13, <1>14, <1>15
  DEF MoveInv, SmTypeOK, MoveIsSafe, Underway, Stranger

\* Writing the target where there was nothing or an unfinished copy, or
\* removing the one of two copies, leaves every file whole.
LEMMA WritesOnlyEntry ==
  ASSUME MoveInv, Underway, NEW s \in Sides, NEW v \in {"none", "own", "part", "foreign"},
         Set(<<entry, s>>, v), <<entry, s>> \notin strangers,
         \/ at[<<entry, s>>] # "own"
         \/ entry \notin owned
         \/ at[<<entry, Away(s)>>] = "own"
  PROVE  /\ OnlyEntry
         /\ at'[<<entry, s>>] = v /\ at'[<<entry, Away(s)>>] = at[<<entry, Away(s)>>]
<1>1. /\ at' \in [PayloadFiles \X Sides -> {"none", "own", "part", "foreign"}]
      /\ \A f \in PayloadFiles, t \in Sides :
           at'[<<f, t>>] = IF f = entry /\ t = s THEN v ELSE at[<<f, t>>]
  BY ZenonT(40), SetEffects
<1>2. entry \in PayloadFiles /\ owned \subseteq PayloadFiles
      /\ strangers \subseteq PayloadFiles \X {"dst"} /\ Away(s) \in Sides /\ Away(s) # s
  BY Zenon DEF MoveInv, Away, Sides
<1>3. \A p \in strangers : at'[p] = "foreign"
  <2> SUFFICES ASSUME NEW p \in strangers PROVE at'[p] = "foreign"
    BY Zenon
  <2>1. PICK f \in PayloadFiles : p = <<f, "dst">>
    BY <1>2
  <2> QED
    BY Zenon, <2>1, <1>1 DEF MoveInv, MoveIsSafe, Sides
<1>4. \A f \in owned : \E t \in Sides : at'[<<f, t>>] = "own"
  <2> SUFFICES ASSUME NEW f \in owned PROVE \E t \in Sides : at'[<<f, t>>] = "own"
    BY Zenon
  <2>1. PICK t \in Sides : at[<<f, t>>] = "own"
    BY Zenon DEF MoveInv, MoveIsSafe
  <2>2. CASE f = entry /\ t = s
    BY Zenon, <2>1, <2>2, <1>1, <1>2
  <2>3. CASE ~(f = entry /\ t = s)
    BY Zenon, <2>1, <2>3, <1>1, <1>2
  <2> QED
    BY Zenon, <2>2, <2>3
<1> QED
  BY Zenon, <1>1, <1>2, <1>3, <1>4 DEF OnlyEntry

\* A step that writes nothing.
LEMMA WritesNothing ==
  ASSUME MoveInv, UNCHANGED at
  PROVE  OnlyEntry
  BY Zenon DEF MoveInv, SmTypeOK, MoveIsSafe, OnlyEntry

(* What the calls for an entry start from. *)
AtEntry ==
  /\ MoveUnderway /\ entry \in PayloadFiles
  /\ plan[entry] \in {"existing", "empty", "absent"}
  /\ strangers \subseteq PayloadFiles \X {"dst"}
  /\ \A p \in strangers : at[p] = "foreign"
  /\ entry \in owned => plan[entry] = "existing"
  /\ moving = "forward" => entry \notin completed
  /\ moving = "back" => entry \in completed
  /\ ~(call = "sync") => at[Source] # "part" /\ at[Target] # "part"
  /\ ~Settled => at[Source] # "part"
  /\ ~Settled /\ moving = "forward" /\ entry \in owned => at[Source] = "own"
  /\ ~Settled /\ moving = "back" =>
       /\ at[Source] # "none" /\ Source \notin strangers
       /\ entry \in owned => at[Source] = "own"
  /\ ~Settled /\ plan[entry] = "existing" => at[Source] # "none"

LEMMA AtTheEntry ==
  ASSUME MoveInv, Underway
  PROVE  AtEntry
<1>1. MoveUnderway /\ entry \in PayloadFiles
  BY Zenon DEF MoveInv
<1>2. /\ plan[entry] \in {"existing", "empty", "absent"}
      /\ strangers \subseteq PayloadFiles \X {"dst"}
      /\ \A p \in strangers : at[p] = "foreign"
      /\ entry \in owned => plan[entry] = "existing"
  BY Zenon, <1>1 DEF MoveInv, SmTypeOK, MoveIsSafe, MoveUnderway
<1>3. /\ moving = "forward" => entry \notin completed
      /\ moving = "back" => entry \in completed
  <2>1. (moving = "forward" => ForwardInOrder) /\ (moving = "back" => entry \in completed)
    BY Zenon, <1>1 DEF MoveUnderway
  <2>2. ~(entry < entry)
    BY <1>1, PlanIsNumbered
  <2> QED
    BY Zenon, <2>1, <2>2 DEF ForwardInOrder
<1>4. /\ ~(call = "sync") => at[Source] # "part" /\ at[Target] # "part"
      /\ ~Settled => at[Source] # "part"
  BY Zenon, <1>1, EntryPaths DEF MoveUnderway, PartIsAtHand
<1>5. ~Settled /\ moving = "forward" /\ entry \in owned => at[Source] = "own"
  BY Zenon, <1>1, <1>3, EntryPaths DEF MoveUnderway, OthersAreHome, ForwardInOrder
<1>6. ~Settled /\ moving = "back" =>
        /\ at[Source] # "none" /\ Source \notin strangers
        /\ entry \in owned => at[Source] = "own"
  BY Zenon, <1>1, <1>3, EntryPaths DEF MoveUnderway, CompletedIsThere
<1> QED
  BY Zenon, <1>1, <1>2, <1>3, <1>4, <1>5, <1>6 DEF AtEntry, MoveUnderway, EntryAtHand

\* The entry fails before its source was removed: it is where it was.
LEMMA EntryFailsKeeps ==
  ASSUME MoveInv, Underway, Still, OnlyEntry, EntryFails,
         \A s \in Sides : at'[<<entry, s>>] # "part",
         moving = "forward" /\ entry \in owned => at'[<<entry, "src">>] = "own"
  PROVE  MoveInv'
<1>1. CASE moving = "forward"
  <2> DEFINE done == {}
  <2>1. RollBack(done) /\ done \in {{}, {entry}} /\ done = {}
    BY Zenon, <1>1 DEF EntryFails
  <2> HIDE DEF done
  <2> QED
    BY <1>1, <2>1, RollBackKeeps, Zenon
<1>2. CASE moving = "back"
  <2>1. RolledBack({entry}) /\ {entry} # {}
    BY Zenon, <1>2 DEF EntryFails
  <2> QED
    BY Zenon, <1>2, <2>1, RolledBackKeeps
<1> QED
  BY Zenon, <1>1, <1>2 DEF Underway

LEMMA CheckEntryKeeps ==
  ASSUME MoveInv, CheckEntry
  PROVE  MoveInv'
<1>1. Underway /\ moving = "forward" /\ call = "start" /\ Still /\ UNCHANGED at
  BY Zenon DEF CheckEntry, Underway
<1>2. AtEntry /\ OnlyEntry
  BY Zenon, <1>1, AtTheEntry, WritesNothing
<1>3. ~Settled /\ at' = at
  BY Zenon, <1>1 DEF Settled
<1>4. /\ \A s \in Sides : at'[<<entry, s>>] # "part"
      /\ entry \in owned => at'[<<entry, "src">>] = "own"
  BY Zenon, <1>1, <1>2, <1>3, EntryPaths DEF AtEntry, Sides
<1>5. CASE RollBack({})
  <2>1. EntryFails
    BY Zenon, <1>1, <1>5 DEF EntryFails
  <2> QED
    BY Zenon, <1>1, <1>2, <1>4, <2>1, EntryFailsKeeps
<1>6. CASE plan[entry] = "absent" /\ NextEntry({})
  BY Zenon, <1>1, <1>6, NextEntryKeeps
<1>7. ASSUME NEW c \in {"copy", "link"}, Call(c),
             plan[entry] # "absent", c = "copy" => plan[entry] = "empty",
             c = "link" => plan[entry] = "existing"
      PROVE  MoveInv'
  <2>1. EntryAtHand'
    BY Zenon, <1>1, <1>2, <1>3, <1>7, EntryPaths
    DEF Call, Still, EntryAtHand, Settled, Source, Target, From, AtEntry
  <2> QED
    BY Zenon, <1>1, <1>2, <1>4, <1>7, <2>1, CallKeeps
<1> QED
  BY Zenon, <1>1, <1>5, <1>6, <1>7 DEF CheckEntry

LEMMA BackEntryKeeps ==
  ASSUME MoveInv, BackEntry
  PROVE  MoveInv'
<1>1. Underway /\ moving = "back" /\ call = "start" /\ Still /\ UNCHANGED at
  BY Zenon DEF BackEntry, Underway
<1>2. AtEntry /\ OnlyEntry
  BY Zenon, <1>1, AtTheEntry, WritesNothing
<1>3. ~Settled /\ at' = at
  BY Zenon, <1>1 DEF Settled
<1>4. \A s \in Sides : at'[<<entry, s>>] # "part"
  BY Zenon, <1>1, <1>2, <1>3, EntryPaths DEF AtEntry, Sides
<1>5. CASE RolledBack({entry})
  <2>1. EntryFails
    BY Zenon, <1>1, <1>5 DEF EntryFails
  <2> QED
    BY Zenon, <1>1, <1>2, <1>4, <2>1, EntryFailsKeeps
<1>6. ASSUME NEW c \in {"undo", "link"}, Call(c),
             plan[entry] # "absent", c = "undo" => plan[entry] = "empty",
             c = "link" => plan[entry] = "existing"
      PROVE  MoveInv'
  <2>1. EntryAtHand'
    BY Zenon, <1>1, <1>2, <1>3, <1>6, EntryPaths
    DEF Call, Still, EntryAtHand, Settled, Source, Target, From, AtEntry
  <2>2. /\ at'[<<entry, "dst">>] # "none" /\ <<entry, "dst">> \notin strangers
        /\ entry \in owned => at'[<<entry, "dst">>] = "own"
    BY Zenon, <1>1, <1>2, <1>3, EntryPaths DEF AtEntry
  <2> QED
    BY Zenon, <1>1, <1>2, <1>4, <1>6, <2>1, <2>2, CallKeeps
<1> QED
  BY Zenon, <1>1, <1>5, <1>6 DEF BackEntry

LEMMA CreateEmptyKeeps ==
  ASSUME MoveInv, CreateEmpty
  PROVE  MoveInv'
<1>1. Underway /\ moving = "forward" /\ call = "copy" /\ Still /\ plan[entry] = "empty"
  BY Zenon DEF CreateEmpty, Underway
<1>2. AtEntry /\ ~Settled /\ entry \notin owned
  BY Zenon, <1>1, AtTheEntry DEF Settled, AtEntry
<1>3. CASE at[Target] # "none"
  <2>1. at' = at /\ EntryFails
    BY Zenon, <1>1, <1>3 DEF CreateEmpty, EntryFails
  <2>2. OnlyEntry /\ \A s \in Sides : at'[<<entry, s>>] # "part"
    BY Zenon, <1>1, <1>2, <2>1, EntryPaths, WritesNothing DEF AtEntry, Sides
  <2> QED
    BY Zenon, <1>1, <1>2, <2>1, <2>2, EntryFailsKeeps
<1>4. CASE at[Target] = "none"
  <2>1. /\ Set(<<entry, "dst">>, "own") /\ Call("sync") /\ <<entry, "dst">> \notin strangers
        /\ at[<<entry, "dst">>] = "none" /\ at[<<entry, "src">>] # "part"
    BY Zenon, <1>1, <1>2, <1>4, EntryPaths DEF CreateEmpty, AtEntry
  <2>2. OnlyEntry /\ at'[<<entry, "dst">>] = "own" /\ at'[<<entry, "src">>] = at[<<entry, "src">>]
    BY Zenon, <1>1, <2>1, WritesOnlyEntry DEF Sides, Away
  <2>3. EntryAtHand'
    BY Zenon, <1>1, <1>2, <2>1, <2>2 DEF Call, Still, EntryAtHand, Settled, Source, Target, From, Away
  <2> QED
    BY Zenon, <1>1, <1>2, <2>1, <2>2, <2>3, CallKeeps DEF Sides
<1> QED
  BY Zenon, <1>3, <1>4

LEMMA UndoEmptyKeeps ==
  ASSUME MoveInv, UndoEmpty
  PROVE  MoveInv'
<1>1. Underway /\ moving = "back" /\ call = "undo" /\ Still /\ plan[entry] = "empty"
  BY Zenon DEF UndoEmpty, Underway
<1>2. AtEntry /\ ~Settled /\ entry \notin owned
  BY Zenon, <1>1, AtTheEntry DEF Settled, AtEntry
<1>3. CASE at' = at /\ RolledBack({entry})
  <2>1. OnlyEntry /\ \A s \in Sides : at'[<<entry, s>>] # "part"
    BY Zenon, <1>1, <1>2, <1>3, EntryPaths, WritesNothing DEF AtEntry, Sides
  <2>2. EntryFails
    BY Zenon, <1>1, <1>3 DEF EntryFails
  <2> QED
    BY Zenon, <1>1, <1>2, <2>1, <2>2, EntryFailsKeeps
<1>4. CASE Set(<<entry, "dst">>, "none") /\ Call("sync")
  <2>1. <<entry, "dst">> \notin strangers /\ at[<<entry, "src">>] # "part"
    BY Zenon, <1>1, <1>2, EntryPaths DEF AtEntry
  <2>2. OnlyEntry /\ at'[<<entry, "dst">>] = "none" /\ at'[<<entry, "src">>] = at[<<entry, "src">>]
    BY Zenon, <1>1, <1>2, <1>4, <2>1, WritesOnlyEntry DEF Sides, Away
  <2>3. EntryAtHand' /\ Settled'
    BY Zenon, <1>1, <1>2, <1>4, <2>1, <2>2
    DEF Call, Still, EntryAtHand, Settled, Source, Target, From, Away
  <2> QED
    BY Zenon, <1>1, <1>2, <1>4, <2>1, <2>2, <2>3, CallKeeps DEF Sides
<1> QED
  BY Zenon, <1>1, <1>3, <1>4 DEF UndoEmpty

LEMMA HardLinkKeeps ==
  ASSUME MoveInv, Underway, HardLink
  PROVE  MoveInv'
<1>1. call = "link" /\ Still /\ plan[entry] = "existing" /\ ~Settled
  BY Zenon DEF HardLink, MoveInv, MoveUnderway, EntryAtHand, Settled
<1>2. AtEntry
  BY Zenon, AtTheEntry
<1>3. CASE at' = at /\ Call("copy")
  <2>1. OnlyEntry /\ \A s \in Sides : at'[<<entry, s>>] # "part"
    BY Zenon, <1>1, <1>2, <1>3, EntryPaths, WritesNothing DEF AtEntry, Sides
  <2>2. EntryAtHand' /\ at'[Source] = at[Source]
    BY Zenon, <1>1, <1>2, <1>3, EntryPaths
    DEF Call, Still, EntryAtHand, Settled, Source, Target, From, AtEntry
  <2> QED
    BY Zenon, <1>2, <1>3, <1>1, <2>1, <2>2, CallKeeps, EntryPaths DEF AtEntry
<1>4. CASE at[Target] = "none" /\ Set(Target, at[Source]) /\ Call("unlink")
  <2>1. Target \notin strangers /\ at[Source] \notin {"none", "part"}
    BY Zenon, <1>1, <1>2, <1>4 DEF AtEntry
  <2>2. OnlyEntry /\ at'[Target] = at[Source] /\ at'[Source] = at[Source]
    BY Zenon, <1>4, <2>1, EntryPaths, WritesOnlyEntry
  <2>3. EntryAtHand'
    BY Zenon, <1>1, <1>4, <2>1, <2>2, EntryPaths
    DEF Call, Still, EntryAtHand, Settled, Source, Target, From
  <2>4. \A s \in Sides : at'[<<entry, s>>] # "part"
    BY Zenon, <2>1, <2>2, EntryPaths DEF Sides
  <2> QED
    BY Zenon, <1>1, <1>2, <1>4, <2>2, <2>3, <2>4, CallKeeps, EntryPaths DEF AtEntry
<1> QED
  BY Zenon, <1>3, <1>4 DEF HardLink

LEMMA StartCopyKeeps ==
  ASSUME MoveInv, Underway, StartCopy
  PROVE  MoveInv'
<1>1. call = "copy" /\ Still /\ plan[entry] = "existing" /\ ~Settled
  BY Zenon DEF StartCopy, Settled
<1>2. AtEntry
  BY Zenon, AtTheEntry
<1>3. CASE at' = at /\ EntryFails
  <2>1. OnlyEntry /\ \A s \in Sides : at'[<<entry, s>>] # "part"
    BY Zenon, <1>1, <1>2, <1>3, EntryPaths, WritesNothing DEF AtEntry, Sides
  <2> QED
    BY Zenon, <1>1, <1>2, <1>3, <2>1, EntryFailsKeeps, EntryPaths DEF AtEntry
<1>4. CASE at[Target] = "none" /\ Set(Target, "part") /\ Call("sync")
  <2>1. Target \notin strangers /\ at[Source] \notin {"none", "part"}
    BY Zenon, <1>1, <1>2, <1>4 DEF AtEntry
  <2>2. OnlyEntry /\ at'[Target] = "part" /\ at'[Source] = at[Source]
    BY Zenon, <1>4, <2>1, EntryPaths, WritesOnlyEntry
  <2>3. EntryAtHand' /\ ~Settled'
    BY Zenon, <1>1, <1>4, <2>1, <2>2, EntryPaths
    DEF Call, Still, EntryAtHand, Settled, Source, Target, From
  <2>4. \A s \in Sides : at'[<<entry, s>>] = "part" => s = Away(From)
    BY Zenon, <2>1, <2>2, EntryPaths DEF Sides
  <2> QED
    BY Zenon, <1>1, <1>2, <1>4, <2>2, <2>3, <2>4, CallKeeps, EntryPaths DEF AtEntry
<1> QED
  BY Zenon, <1>3, <1>4 DEF StartCopy

LEMMA FinishCopyKeeps ==
  ASSUME MoveInv, Underway, FinishCopy
  PROVE  MoveInv'
<1>1. call = "sync" /\ Still /\ plan[entry] = "existing" /\ ~Settled /\ at[Target] = "part"
  BY Zenon DEF FinishCopy, Settled
<1>2. AtEntry /\ Target \notin strangers /\ at[Source] \notin {"none", "part"}
  BY Zenon, <1>1, AtTheEntry DEF AtEntry
<1>3. CASE Set(Target, "none") /\ EntryFails
  <2>1. OnlyEntry /\ at'[Target] = "none" /\ at'[Source] = at[Source]
    BY Zenon, <1>1, <1>2, <1>3, EntryPaths, WritesOnlyEntry
  <2>2. \A s \in Sides : at'[<<entry, s>>] # "part"
    BY Zenon, <1>2, <2>1, EntryPaths DEF Sides
  <2> QED
    BY Zenon, <1>1, <1>2, <1>3, <2>1, <2>2, EntryFailsKeeps, EntryPaths DEF AtEntry
<1>4. CASE Set(Target, at[Source]) /\ Call("unlink")
  <2>2. OnlyEntry /\ at'[Target] = at[Source] /\ at'[Source] = at[Source]
    BY Zenon, <1>1, <1>2, <1>4, EntryPaths, WritesOnlyEntry
  <2>3. EntryAtHand'
    BY Zenon, <1>1, <1>2, <1>4, <2>2, EntryPaths
    DEF Call, Still, EntryAtHand, Settled, Source, Target, From
  <2>4. \A s \in Sides : at'[<<entry, s>>] # "part"
    BY Zenon, <1>2, <2>2, EntryPaths DEF Sides
  <2> QED
    BY Zenon, <1>1, <1>2, <1>4, <2>2, <2>3, <2>4, CallKeeps, EntryPaths DEF AtEntry
<1> QED
  BY Zenon, <1>3, <1>4 DEF FinishCopy

LEMMA UnlinkSourceKeeps ==
  ASSUME MoveInv, Underway, UnlinkSource
  PROVE  MoveInv'
<1>1. call = "unlink" /\ Still /\ plan[entry] = "existing" /\ ~Settled
  BY Zenon DEF UnlinkSource, MoveInv, MoveUnderway, EntryAtHand, Settled
<1>2. AtEntry /\ Target \notin strangers /\ at[Target] = at[Source]
      /\ at[Source] \notin {"none", "part"}
  BY Zenon, <1>1, AtTheEntry DEF AtEntry, MoveUnderway, EntryAtHand
<1>3. CASE at' = at /\ Call("undo")
  <2>1. OnlyEntry /\ \A s \in Sides : at'[<<entry, s>>] # "part"
    BY Zenon, <1>1, <1>2, <1>3, EntryPaths, WritesNothing DEF AtEntry, Sides
  <2>2. EntryAtHand' /\ at'[Source] = at[Source]
    BY Zenon, <1>1, <1>2, <1>3, EntryPaths
    DEF Call, Still, EntryAtHand, Settled, Source, Target, From
  <2> QED
    BY Zenon, <1>1, <1>2, <1>3, <2>1, <2>2, CallKeeps, EntryPaths DEF AtEntry
<1>4. CASE Set(Source, "none") /\ Call("sync")
  <2>1. Source \notin strangers
    BY <1>1, <1>2, EntryPaths DEF AtEntry, Underway
  <2>2. entry \in owned => at[Source] = "own"
    BY Zenon, <1>1, <1>2 DEF AtEntry, Underway
  <2>3. OnlyEntry /\ at'[Source] = "none" /\ at'[Target] = at[Target]
    BY Zenon, <1>1, <1>2, <1>4, <2>1, <2>2, EntryPaths, WritesOnlyEntry
  <2>4. EntryAtHand' /\ Settled'
    BY Zenon, <1>1, <1>2, <1>4, <2>1, <2>2, <2>3, EntryPaths
    DEF Call, Still, EntryAtHand, Settled, Source, Target, From
  <2>5. \A s \in Sides : at'[<<entry, s>>] # "part"
    BY Zenon, <1>2, <2>3, EntryPaths DEF Sides
  <2> QED
    BY Zenon, <1>1, <1>2, <1>4, <2>3, <2>4, <2>5, CallKeeps, EntryPaths DEF AtEntry
<1> QED
  BY Zenon, <1>3, <1>4 DEF UnlinkSource

LEMMA UndoTargetKeeps ==
  ASSUME MoveInv, Underway, UndoTarget
  PROVE  MoveInv'
<1>1. call = "undo" /\ Still /\ plan[entry] = "existing" /\ ~Settled /\ EntryFails
  BY Zenon DEF UndoTarget, Settled
<1>2. AtEntry /\ Target \notin strangers /\ at[Target] = at[Source]
      /\ at[Source] \notin {"none", "part"} /\ (entry \in owned => at[Source] = "own")
  BY Zenon, <1>1, AtTheEntry DEF AtEntry, MoveUnderway, EntryAtHand, Underway
<1>3. OnlyEntry /\ at'[Source] = at[Source] /\ at'[Target] # "part"
  <2>1. CASE at' = at
    BY Zenon, <1>2, <2>1, WritesNothing
  <2>2. CASE Set(Target, "none")
    BY Zenon, <1>2, <2>2, EntryPaths, WritesOnlyEntry
  <2> QED
    BY Zenon, <2>1, <2>2 DEF UndoTarget
<1>4. \A s \in Sides : at'[<<entry, s>>] # "part"
  BY Zenon, <1>2, <1>3, EntryPaths DEF Sides
<1> QED
  BY Zenon, <1>1, <1>2, <1>3, <1>4, EntryFailsKeeps, EntryPaths

LEMMA SyncParentsKeeps ==
  ASSUME MoveInv, Underway, SyncParents
  PROVE  MoveInv'
<1>1. call = "sync" /\ Still /\ Settled /\ at' = at
  BY Zenon DEF SyncParents, Settled
<1>2. AtEntry /\ OnlyEntry
  BY Zenon, <1>1, AtTheEntry, WritesNothing
<1>3. \A s \in Sides : at'[<<entry, s>>] # "part"
  BY Zenon, <1>1, EntryPaths DEF MoveInv, MoveUnderway, PartIsAtHand, Settled
<1>4. plan[entry] # "absent" /\ (entry \in owned => at[Target] = "own")
      /\ (moving = "forward" => at[Target] # "none" /\ Target \notin strangers)
  BY Zenon, <1>1, <1>2 DEF AtEntry, MoveUnderway, EntryAtHand
<1>5. CASE moving = "forward" /\ NextEntry({entry})
  BY Zenon, <1>1, <1>4, <1>5, NextEntryKeeps
<1>6. CASE moving = "forward" /\ RollBack({entry})
  <2>1. {entry} # {} /\ {entry} \in {{}, {entry}}
    BY Zenon
  <2> QED
    BY Zenon, <1>1, <1>2, <1>3, <1>4, <1>6, <2>1, EntryPaths, RollBackKeeps
<1>7. CASE moving = "back" /\ (RolledBack({}) \/ RolledBack({entry}))
  BY Zenon, <1>1, <1>2, <1>3, <1>4, <1>7, EntryPaths, RolledBackKeeps
<1> QED
  BY Zenon, <1>5, <1>6, <1>7 DEF SyncParents, Underway

\* Every reachable state of a move satisfies the invariant.
LEMMA MoveInvHolds == SmSpec => []MoveInv
<1>1. SmInit => MoveInv
  <2> SUFFICES ASSUME SmInit PROVE MoveInv
    BY Zenon
  <2>1. SmTypeOK
    BY Zenon DEF SmInit, SmTypeOK
  <2>2. \A f \in PayloadFiles : at[<<f, "dst">>] = "none" /\ at[<<f, "src">>] # "part"
                                /\ (f \in owned => at[<<f, "src">>] = "own")
    BY Zenon DEF SmInit, Sides
  <2> QED
    BY Zenon, <2>1, <2>2, PlanIsNumbered DEF SmInit, MoveInv, MoveIsSafe, Underway, MoveStill, Sides
<1>2. MoveInv /\ [SmNext]_sm_vars => MoveInv'
  <2> SUFFICES ASSUME MoveInv, [SmNext]_sm_vars PROVE MoveInv'
    BY Zenon
  <2>1. CASE UNCHANGED sm_vars
    <3>1. /\ at' = at /\ owned' = owned /\ strangers' = strangers /\ resume' = resume
          /\ plan' = plan /\ moving' = moving /\ entry' = entry /\ call' = call
          /\ completed' = completed /\ stuck' = stuck /\ moves' = moves
      BY Zenon, <2>1 DEF sm_vars, progress
    <3>2. From' = From /\ Source' = Source /\ Target' = Target
      BY Zenon, <3>1 DEF From, Source, Target
    <3>3. Settled' = Settled /\ Underway' = Underway /\ MoveStill' = MoveStill
      BY Zenon, <3>1, <3>2 DEF Settled, Underway, MoveStill
    <3>4. EntryAtHand' = EntryAtHand /\ PartIsAtHand' = PartIsAtHand
      BY Zenon, <3>1, <3>2, <3>3 DEF EntryAtHand, PartIsAtHand
    <3>5. CompletedIsThere' = CompletedIsThere /\ OthersAreHome' = OthersAreHome
          /\ ForwardInOrder' = ForwardInOrder
      BY Zenon, <3>1, <3>3 DEF CompletedIsThere, OthersAreHome, ForwardInOrder
    <3>6. MoveUnderway' = MoveUnderway
      BY Zenon, <3>1, <3>4, <3>5 DEF MoveUnderway
    <3> QED
      BY Zenon, <3>1, <3>3, <3>6 DEF MoveInv, SmTypeOK, MoveIsSafe
  <2>2. CASE MoveCalls
    BY Zenon, <2>2, CheckEntryKeeps, BackEntryKeeps, CreateEmptyKeeps, UndoEmptyKeeps, HardLinkKeeps,
       StartCopyKeeps, FinishCopyKeeps, UnlinkSourceKeeps, UndoTargetKeeps, SyncParentsKeeps
    DEF MoveCalls
  <2> QED
    BY Zenon, <2>1, <2>2, BuildPlanKeeps, MoveCrashKeeps, StrangerKeeps, AgainKeeps DEF SmNext
<1> QED
  BY <1>1, <1>2, PTL DEF SmSpec

(* Moving a payload never loses a file and never replaces or removes one that *)
(* someone else made, whatever call fails and wherever the process dies: for  *)
(* any number of files and of attempts, every file of the torrent is whole on *)
(* one side, a finished move left none behind, a first attempt whose rollback *)
(* succeeded left every file where it was, and a resume file that is left     *)
(* describes the layout in place.                                             *)
THEOREM MoveKeepsEveryFile == SmSpec => []MoveIsSafe
<1>1. MoveInv => MoveIsSafe
  BY Zenon DEF MoveInv
<1> QED
  BY <1>1, MoveInvHolds, PTL
=============================================================================
