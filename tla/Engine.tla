------------------------------- MODULE Engine -------------------------------
(* One torrent's engine, piece by piece: which pieces are on disk, which the  *)
(* engine believes in, and which the fast-resume file records                 *)
(* (swarmotterd/src/engine/{mod,download,webseed,endgame,parallel,            *)
(* peer_session,progress,v2}.rs over swarmotter-core/src/storage/io).         *)
(*                                                                            *)
(* A piece is a member of Pieces; its bytes are abstracted to whether the     *)
(* verified bytes are on disk. The file-metadata stamps of a resume file are  *)
(* abstracted to whether they still equal the stamps of the payload: every    *)
(* write that lands changes the payload's stamps.                             *)
(*                                                                            *)
(* tokio::fs::File accepts a write before it reaches the file: a written      *)
(* piece is first buffered, then lands or fails in the background. A failure  *)
(* is reported to the NEXT operation on the handle, once. The payload is one  *)
(* file, so there is one handle; StorageHandles models many.                  *)
(*                                                                            *)
(* A round (webseed, endgame, parallel) is the set of pieces its sessions     *)
(* verify and write, in any order; PieceRound and Endgame model the sessions. *)
EXTENDS Naturals, FiniteSets

CONSTANTS
  Pieces,       \* the torrent's pieces
  TorrentKinds,     \* kinds of torrent: [selected, split, v2]
  Window,       \* RESUME_CHECKPOINT_PIECES
  Threshold,    \* ENDGAME_THRESHOLD
  MaxStarts,    \* bound: engine starts
  MaxFaults     \* bound: failed writes, saves and moves, and changes by others

ASSUME EngineAssumption ==
  /\ IsFiniteSet(Pieces)
  /\ TorrentKinds \subseteq [selected : SUBSET Pieces, split : BOOLEAN, v2 : BOOLEAN]
  /\ Window \in Nat \ {0}
  /\ Threshold \in Nat
  /\ MaxStarts \in Nat
  /\ MaxFaults \in Nat

VARIABLES
  torrent,   \* selected: the pieces PieceSelection wants; split: download_dir is not
             \* complete_dir; v2: a pure-v2 torrent, run_v2 instead of the loop
  disk,      \* pieces whose verified bytes are in the payload file
  root,      \* where the payload is: the active or the complete directory
  buffered,  \* written pieces in flight behind this engine's file handle
  stray,     \* written pieces in flight behind the handle of an engine that ended
  failed,    \* a background write failed and no operation has reported it yet
  lost,      \* history: pieces written without error whose bytes never landed
  resume,    \* the fast-resume file
  stamped,   \* stamps read for the resume being saved still equal the payload's
  at,        \* where the engine's task is
  after,     \* where it goes after a resume checkpoint
  have,      \* `have` of run
  shown,     \* EngineState.pieces_have
  shared,    \* the bitfield the sessions of the current or last round share
  writing,   \* pieces written by a session that has not set its bit yet
  progress,  \* made_progress
  pending,   \* resume_dirty_generation - resume_checkpointed_generation
  elapsed,   \* RESUME_CHECKPOINT_INTERVAL has passed since the checkpoint
  finished,  \* EngineState.finished
  starts, faults

files == <<disk, root, buffered, stray, failed, lost>>
record == <<resume, stamped>>
round == <<shared, writing>>
counters == <<pending, elapsed>>
bounds == <<starts, faults>>
engine_vars == <<files, record, round, counters, bounds,
          torrent, at, after, have, shown, progress, finished>>

Rounds == {"webround", "endround", "parround"}
Stages == {"off", "exit", "bootcomplete", "bootactive", "poll", "webseed", "endgame",
           "parallel", "serial", "v2peers", "stamp", "save", "finish", "move"} \cup Rounds

EngineTypeOK ==
  /\ torrent \in TorrentKinds
  /\ disk \subseteq Pieces /\ buffered \subseteq Pieces /\ stray \subseteq Pieces
  /\ lost \subseteq Pieces
  /\ root \in {"active", "complete"}
  /\ failed \in BOOLEAN
  /\ resume \in [present : BOOLEAN, pieces : SUBSET Pieces, fresh : BOOLEAN]
  /\ stamped \in BOOLEAN
  /\ at \in Stages /\ after \in Stages
  /\ have \subseteq Pieces /\ shown \subseteq Pieces /\ shared \subseteq Pieces
  /\ writing \subseteq Pieces
  /\ progress \in BOOLEAN /\ elapsed \in BOOLEAN
  /\ finished \in BOOLEAN
  /\ pending \in Nat
  /\ starts \in Nat /\ faults \in Nat

Complete(pieces) == torrent.selected \subseteq pieces

(* A new torrent: nothing on disk, no resume file, no engine. *)
EngineInit ==
  /\ torrent \in TorrentKinds
  /\ disk = {} /\ root = "active"
  /\ buffered = {} /\ stray = {} /\ failed = FALSE /\ lost = {}
  /\ resume = [present |-> FALSE, pieces |-> {}, fresh |-> FALSE] /\ stamped = FALSE
  /\ at = "off" /\ after = "exit"
  /\ have = {} /\ shown = {} /\ shared = {} /\ writing = {}
  /\ progress = FALSE /\ pending = 0 /\ elapsed = FALSE
  /\ finished = FALSE
  /\ starts = 0 /\ faults = 0

-----------------------------------------------------------------------------
(* The payload file and its handle. *)

(* The payload's stamps change: no resume file matches them any more. *)
Touched ==
  /\ resume' = [resume EXCEPT !.fresh = FALSE]
  /\ stamped' = FALSE

(* Bytes of the pieces reach the file. *)
Lands(pieces) ==
  /\ disk' = disk \cup pieces
  /\ lost' = lost \ pieces

(* A background write ends, behind the live handle or one of an ended engine. *)
Land(p) ==
  /\ \/ p \in buffered /\ buffered' = buffered \ {p} /\ UNCHANGED stray
     \/ p \in stray /\ stray' = stray \ {p} /\ UNCHANGED buffered
  /\ Lands({p})
  /\ Touched
  /\ UNCHANGED <<root, failed, round, counters, bounds, torrent, at, after, have, shown,
                 progress, finished>>

(* A background write fails: the handle remembers the error for its next       *)
(* operation; an ended engine's handle takes it to the grave.                  *)
WriteFails(p) ==
  /\ faults < MaxFaults
  /\ faults' = faults + 1
  /\ \/ p \in buffered /\ buffered' = buffered \ {p} /\ failed' = TRUE /\ UNCHANGED stray
     \/ p \in stray /\ stray' = stray \ {p} /\ UNCHANGED <<buffered, failed>>
  /\ lost' = (lost \cup {p}) \ disk
  /\ UNCHANGED <<disk, root, record, round, counters, starts, torrent, at, after, have, shown,
                 progress, finished>>

(* Another program changes an unfinished payload while no engine runs. *)
Tamper(p) ==
  /\ faults < MaxFaults
  /\ at = "off" /\ ~finished /\ stray = {} /\ root = "active"
  /\ p \in disk
  /\ faults' = faults + 1
  /\ disk' = disk \ {p}
  /\ Touched
  /\ UNCHANGED <<root, buffered, stray, failed, lost, round, counters, starts,
                 torrent, at, after, have, shown, progress, finished>>

-----------------------------------------------------------------------------
(* Starting. *)

(* An engine's task ends: what it buffered is in flight behind an abandoned     *)
(* handle, whose pending error nobody reads, and its memory is gone.            *)
Forget ==
  /\ at' = "off" /\ after' = "exit"
  /\ have' = {} /\ shown' = {} /\ shared' = {} /\ writing' = {}
  /\ pending' = 0 /\ elapsed' = FALSE /\ progress' = FALSE

Drop ==
  /\ buffered' = {}
  /\ stray' = stray \cup buffered
  /\ failed' = FALSE
  /\ Forget
  /\ UNCHANGED <<disk, root, lost, record, bounds, torrent, finished>>

EngineExits == at = "exit" /\ Drop

(* The daemon starts an engine for a torrent that is not recorded as finished; *)
(* run resolves the selection and checks containment and free space. A payload *)
(* that was moved with bytes missing is not started again in this model.       *)
Start ==
  /\ at = "off" /\ ~finished
  /\ root = "complete" => Complete(disk)
  /\ starts < MaxStarts
  /\ starts' = starts + 1
  /\ at' = IF torrent.split THEN "bootcomplete" ELSE "bootactive"
  /\ UNCHANGED <<files, record, round, counters, faults, torrent, after, have, shown,
                 progress, finished>>

(* load_or_recheck: a resume file whose stamps match is believed, anything     *)
(* else leads to a recheck of the payload.                                     *)
BelieveAnyResume == IF resume.present THEN resume.pieces ELSE disk
LoadOrRecheck == IF resume.present /\ resume.fresh THEN resume.pieces ELSE disk

(* load_or_recheck_v2: the same rule over the file-aligned layout. *)
LoadOrRecheckV2 == LoadOrRecheck

(* The pieces found at start decide whether there is anything to download. *)
Booted(pieces, next) ==
  /\ have' = pieces
  /\ shown' = pieces
  /\ at' = IF Complete(pieces) THEN "finish" ELSE next

(* The complete directory is looked at first: a torrent that was moved there   *)
(* is finished. A resume file kept for the active root never matches its       *)
(* stamps, so what counts is the recheck.                                      *)
BootComplete ==
  /\ at = "bootcomplete" /\ ~torrent.v2
  /\ IF root = "complete" THEN Booted(disk, "bootactive")
       ELSE at' = "bootactive" /\ UNCHANGED <<have, shown>>
  /\ UNCHANGED <<files, record, round, counters, bounds, torrent, after, progress,
                 finished>>

(* run_v2 looks at the complete directory in the same way. *)
BootCompleteV2 ==
  /\ at = "bootcomplete" /\ torrent.v2
  /\ IF root = "complete" THEN Booted(disk, "bootactive")
       ELSE at' = "bootactive" /\ UNCHANGED <<have, shown>>
  /\ UNCHANGED <<files, record, round, counters, bounds, torrent, after, progress,
                 finished>>

(* The layout is created, which may touch the payload; then resume or recheck. *)
BootActive ==
  /\ at = "bootactive" /\ ~torrent.v2
  /\ \/ Booted(LoadOrRecheck, "poll") /\ UNCHANGED record
     \/ Booted(disk, "poll") /\ Touched
  /\ UNCHANGED <<files, round, counters, bounds, torrent, after, progress, finished>>

BootActiveV2 ==
  /\ at = "bootactive" /\ torrent.v2
  /\ \/ Booted(LoadOrRecheckV2, "v2peers") /\ UNCHANGED record
     \/ Booted(disk, "v2peers") /\ Touched
  /\ UNCHANGED <<files, round, counters, bounds, torrent, after, progress, finished>>

-----------------------------------------------------------------------------
(* The coalesced checkpoint. *)

(* resume_checkpoint_due without force *)
DueByCountOnly(dirty) == dirty >= Window
Due(dirty) == dirty > 0 /\ (elapsed \/ dirty >= Window)

(* maybe_persist_resume(.., false), then next *)
MaybePersist(dirty, next) ==
  IF Due(dirty) THEN at' = "stamp" /\ after' = next ELSE at' = next /\ UNCHANGED after

(* persist_resume up to the stamps: the pieces are copied from `have`, every    *)
(* writable handle is flushed, then the stamps are read. An unreported write    *)
(* error fails the flush; the checkpoint is given up and the error forgotten.   *)
StampWithoutFlush ==
  /\ at = "stamp"
  /\ stamped' = TRUE
  /\ at' = "save"
  /\ UNCHANGED <<files, resume, round, counters, bounds, torrent, after, have, shown, progress, finished>>
Stamp ==
  /\ at = "stamp"
  /\ \/ /\ ~failed
        /\ Lands(buffered)
        /\ buffered' = {}
        /\ resume' = [resume EXCEPT !.fresh = @ /\ buffered = {}]
        /\ stamped' = TRUE
        /\ at' = "save"
        /\ UNCHANGED <<stray, failed, after>>
     \/ /\ failed
        /\ failed' = FALSE
        /\ at' = after /\ after' = "exit"
        /\ UNCHANGED <<disk, buffered, stray, lost, record>>
  /\ UNCHANGED <<root, round, counters, bounds, torrent, have, shown, progress, finished>>

(* save_resume and complete_resume_checkpoint. The file is written beside and  *)
(* renamed, so it is the old one or the new one.                               *)
Save ==
  /\ at = "save"
  /\ resume' = [present |-> TRUE, pieces |-> have, fresh |-> stamped]
  /\ pending' = 0 /\ elapsed' = FALSE
  /\ at' = after /\ after' = "exit"
  /\ UNCHANGED <<files, stamped, round, bounds, torrent, have, shown, progress, finished>>

(* A save that fails is logged and the engine goes on; after a completed       *)
(* selection it ends the engine.                                               *)
SaveFails ==
  /\ at = "save" /\ faults < MaxFaults
  /\ faults' = faults + 1
  /\ at' = after /\ after' = "exit"
  /\ UNCHANGED <<files, record, round, counters, starts, torrent, have, shown,
                 progress, finished>>

(* RESUME_CHECKPOINT_INTERVAL passes. *)
Tick ==
  /\ pending > 0 /\ ~elapsed
  /\ elapsed' = TRUE
  /\ UNCHANGED <<files, record, round, pending, bounds, torrent, at, after, have, shown, progress, finished>>

-----------------------------------------------------------------------------
(* The download loop. *)

(* A stop waits a bounded time for the engine, then aborts its task. *)
AbortEngine == at # "off" /\ Drop

(* poll_commands finds Stop: a forced checkpoint, then the loop ends. *)
PollStop ==
  /\ at = "poll"
  /\ at' = "stamp" /\ after' = "exit"
  /\ UNCHANGED <<files, record, round, counters, bounds, torrent, have, shown, progress,
                 finished>>

(* sync_have_from_state: only a larger bitfield is merged. *)
Synced == IF Cardinality(shown) > Cardinality(have) THEN have \cup shown ELSE have

(* No command: sync_have_from_state, the completion check, and the periodic    *)
(* checkpoint.                                                                 *)
Poll ==
  /\ at = "poll"
  /\ have' = Synced
  /\ progress' = FALSE
  /\ IF Complete(Synced) THEN at' = "finish" /\ UNCHANGED after
       ELSE MaybePersist(pending, "webseed")
  /\ UNCHANGED <<files, record, round, counters, bounds, torrent, shown, finished>>

NoSessions == shared' = {} /\ writing' = {}

(* A round's sessions share a copy of have. *)
StartRound(kind, stages) ==
  /\ at \in stages
  /\ at' = kind
  /\ shared' = have /\ writing' = {}
  /\ UNCHANGED <<files, record, counters, bounds, torrent, after, have, shown, progress,
                 finished>>

(* A session has verified piece p: write_piece. An earlier write's error comes *)
(* out here and fails this session instead.                                    *)
WritePiece(p) ==
  /\ at \in Rounds
  /\ p \in torrent.selected \ shared
  /\ IF failed THEN failed' = FALSE /\ UNCHANGED <<buffered, writing>>
       ELSE /\ buffered' = buffered \cup {p}
            /\ writing' = writing \cup {p}
            /\ UNCHANGED failed
  /\ UNCHANGED <<disk, root, stray, lost, record, shared, counters, bounds, torrent,
                 at, after, have, shown, progress, finished>>

(* The session sets its bit under the round's lock. *)
SetBit(p) ==
  /\ p \in writing
  /\ writing' = writing \ {p}
  /\ shared' = shared \cup {p}
  /\ UNCHANGED <<files, record, counters, bounds, torrent, at, after, have, shown, progress, finished>>

(* The end of a round: what it verified is merged, counted and, when due,      *)
(* checkpointed.                                                               *)
NewPieces == Cardinality(shared) - Cardinality(have)

Merge(progressed, next) ==
  /\ IF progressed
       THEN /\ have' = shared
            /\ pending' = pending + NewPieces
            /\ MaybePersist(pending + NewPieces, next)
       ELSE at' = next /\ UNCHANGED <<have, pending, after>>
  /\ UNCHANGED elapsed

(* Every session of the round was joined. *)
Joined ==
  /\ writing = {}
  /\ shown' = shared
  /\ NoSessions

(* The round's other sessions are aborted, which stops them at their next await. *)
(* A session stores its copy of the bitfield in EngineState outside the round's  *)
(* lock (update_progress_state), so copies may arrive in any order, and one may  *)
(* arrive after the merge, of a bitfield with a bit set after it.                *)
Aborted ==
  /\ \E copy \in SUBSET (shared \cup writing) : shown' = copy
  /\ NoSessions

(* run_webseed_round joins every task, or aborts them when the selection is    *)
(* complete; only a joined task counts as progress.                            *)
EndWebseed ==
  /\ at = "webround"
  /\ \E progressed \in BOOLEAN :
       /\ progressed => shared # have
       /\ \/ Joined /\ progressed = (shared # have)
          \/ Complete(shared) /\ Aborted
       /\ progress' = progressed
       /\ Merge(progressed, IF progressed /\ Complete(shared) THEN "poll" ELSE "endgame")
  /\ UNCHANGED <<files, record, bounds, torrent, finished>>

StartEndgame ==
  /\ Cardinality(torrent.selected \ have) \in 1 .. Threshold
  /\ StartRound("endround", {"webseed", "endgame"})

(* run_endgame awaits every session. *)
EndEndgame ==
  /\ at = "endround" /\ Joined
  /\ Merge(shared # have, IF shared # have THEN "poll" ELSE "parallel")
  /\ UNCHANGED <<files, record, bounds, torrent, progress, finished>>

(* No round, or no further one: the serial candidates are next, unless a       *)
(* webseed round made progress.                                                *)
NoFurtherRound ==
  /\ at \in {"webseed", "endgame", "parallel"}
  /\ at' = IF progress THEN "poll" ELSE "serial"
  /\ UNCHANGED <<files, record, round, counters, bounds, torrent, after, have, shown, progress,
                 finished>>

(* run_parallel_peer_round aborts its sessions at the deadline and when the    *)
(* selection is complete. Its progress replaces the webseed round's.           *)
EndParallel ==
  /\ at = "parround"
  /\ progress' = (shared # have)
  /\ Merge(shared # have, IF shared # have THEN "poll" ELSE "serial")
  /\ Joined \/ Aborted
  /\ UNCHANGED <<files, record, bounds, torrent, finished>>

(* A serial session verifies piece p: written, set, shown, counted, and        *)
(* checkpointed when due.                                                      *)
OnePiece(p, next) ==
  /\ p \in torrent.selected \ have
  /\ IF failed
       THEN /\ failed' = FALSE
            /\ UNCHANGED <<buffered, have, shown, progress, pending, at, after>>
       ELSE /\ buffered' = buffered \cup {p}
            /\ have' = have \cup {p}
            /\ shown' = have \cup {p}
            /\ progress' = TRUE
            /\ pending' = pending + 1
            /\ MaybePersist(pending + 1, next)
            /\ UNCHANGED failed
  /\ UNCHANGED <<disk, root, stray, lost, record, round, elapsed, bounds, torrent,
                 finished>>

SerialPiece(p) == at = "serial" /\ OnePiece(p, "serial")

(* The candidates are tried. Without progress the engine looks for peers again *)
(* or, when the swarm is confirmed empty, ends.                                *)
SerialDone ==
  /\ at = "serial"
  /\ \/ at' = "poll"
     \/ ~progress /\ at' = "exit"
  /\ UNCHANGED <<files, record, round, counters, bounds, torrent, after, have, shown, progress, finished>>

(* run_v2: one pass over the peers, no command is polled. *)
V2Piece(p) == at = "v2peers" /\ OnePiece(p, "v2peers")

V2Done ==
  /\ at = "v2peers"
  /\ at' = IF Complete(have) THEN "finish" ELSE "exit"
  /\ UNCHANGED <<files, record, round, counters, bounds, torrent, after, have, shown, progress, finished>>

-----------------------------------------------------------------------------
(* Completion. *)

(* finish_selection with every piece: move_to or finalize_partial_file_suffix  *)
(* flush the handles first; the move to another root drops the resume file     *)
(* before it touches the payload.                                              *)
MoveWithoutFlush ==
  /\ at = "finish" /\ have = Pieces
  /\ resume' = IF torrent.split THEN [resume EXCEPT !.present = FALSE] ELSE resume
  /\ buffered' = {}
  /\ at' = "move"
  /\ UNCHANGED <<disk, root, stray, failed, lost, stamped, round, counters, bounds, torrent,
                 after, have, shown, progress, finished>>
FinishMove ==
  /\ at = "finish" /\ have = Pieces
  /\ \/ /\ ~failed
        /\ Lands(buffered)
        /\ buffered' = {}
        /\ resume' = IF torrent.split THEN [resume EXCEPT !.present = FALSE]
                     ELSE [resume EXCEPT !.fresh = @ /\ buffered = {}]
        /\ stamped' = FALSE
        /\ at' = "move"
        /\ UNCHANGED <<stray, failed>>
     \/ /\ failed
        /\ failed' = FALSE
        /\ at' = "exit"
        /\ UNCHANGED <<disk, buffered, stray, lost, record>>
  /\ UNCHANGED <<root, round, counters, bounds, torrent, after, have, shown, progress, finished>>

(* The payload is renamed or moved; mark_finished; no resume file is kept. *)
Moved ==
  /\ at = "move"
  /\ root' = IF torrent.split THEN "complete" ELSE root
  /\ resume' = [resume EXCEPT !.present = FALSE, !.fresh = FALSE]
  /\ finished' = TRUE
  /\ at' = "exit"
  /\ UNCHANGED <<disk, buffered, stray, failed, lost, stamped, round, counters, bounds, torrent,
                 after, have, shown, progress>>

(* The move fails and is rolled back; run returns the error. *)
MoveFails ==
  /\ at = "move" /\ faults < MaxFaults
  /\ faults' = faults + 1
  /\ Touched
  /\ at' = "exit"
  /\ UNCHANGED <<files, round, counters, starts, torrent, after, have, shown, progress, finished>>

(* A selection that skips pieces is finished where it is; its resume is kept. *)
FinishSelectedAndGoOn ==
  /\ at = "finish" /\ have # Pieces
  /\ finished' = TRUE
  /\ at' = "stamp" /\ after' = "poll"
  /\ UNCHANGED <<files, record, round, counters, bounds, torrent, have, shown, progress>>
FinishSelected ==
  /\ at = "finish" /\ have # Pieces
  /\ finished' = TRUE
  /\ at' = "stamp" /\ after' = "exit"
  /\ UNCHANGED <<files, record, round, counters, bounds, torrent, have, shown, progress>>

(* The process dies: writes in flight are cut short, perhaps part way, and     *)
(* memory is gone, the record that the torrent finished included.              *)
Crash ==
  /\ at # "off" \/ finished
  /\ finished' = FALSE /\ failed' = FALSE
  /\ buffered' = {} /\ stray' = {}
  /\ \/ UNCHANGED record
     \/ buffered \cup stray # {} /\ Touched
  /\ Forget
  /\ UNCHANGED <<disk, root, lost, bounds, torrent>>

-----------------------------------------------------------------------------
Engine ==
  \/ BootComplete \/ BootCompleteV2 \/ BootActive \/ BootActiveV2
  \/ Stamp \/ Save
  \/ Poll \/ PollStop
  \/ EndWebseed \/ EndEndgame \/ EndParallel \/ NoFurtherRound
  \/ SerialDone \/ V2Done
  \/ FinishMove \/ Moved \/ FinishSelected \/ EngineExits

Session ==
  \/ \E p \in Pieces : WritePiece(p) \/ SetBit(p) \/ SerialPiece(p) \/ V2Piece(p)
  \/ StartRound("webround", {"webseed"})
  \/ StartEndgame
  \/ StartRound("parround", {"webseed", "endgame", "parallel"})

Outside ==
  \/ Start \/ AbortEngine \/ Crash \/ SaveFails \/ MoveFails \/ Tick
  \/ \E p \in Pieces : Land(p) \/ WriteFails(p) \/ Tamper(p)

EngineNext == Engine \/ Session \/ Outside

(* The runtime schedules the engine's task, its sessions and the blocking pool; *)
(* every round has a deadline or bounded sessions; time passes. Nothing is      *)
(* assumed of peers, of the daemon or of the disk's health.                     *)
EngineFairness ==
  /\ WF_engine_vars(Engine)
  /\ WF_engine_vars(\E p \in Pieces : SetBit(p))
  /\ WF_engine_vars(\E p \in Pieces : Land(p))
  /\ WF_engine_vars(Tick)

EngineSpec == EngineInit /\ [][EngineNext]_engine_vars /\ EngineFairness

-----------------------------------------------------------------------------
(* Every piece the engine, its sessions or its public state claims has its      *)
(* bytes on disk or in flight behind the engine's handle, unless a background   *)
(* write failed.                                                                *)
ClaimsAreBacked ==
  have \cup shown \cup shared \cup writing \subseteq disk \cup buffered \cup lost

(* A resume file that the next start will believe records only pieces whose     *)
(* bytes are on disk, unless a background write failed: no crash, abort, late   *)
(* write or change by another program makes load_or_recheck claim more.         *)
ResumeIsSound ==
  resume.present /\ resume.fresh => resume.pieces \subseteq disk \cup lost

(* A finished torrent has every selected piece on disk, and every piece when    *)
(* its payload was moved, unless a background write failed.                     *)
FinishedIsWhole ==
  finished /\ at = "off" => /\ torrent.selected \subseteq disk \cup stray \cup lost
                            /\ root = "complete" => disk \cup lost = Pieces

(* Verified pieces do not stay out of the resume file for ever: they are        *)
(* checkpointed, or the engine ends.                                            *)
CheckpointHappens == pending > 0 ~> pending = 0

(* An engine that has the selected pieces finishes the torrent or ends.         *)
CompletionHappens == at # "off" /\ Complete(have) ~> at = "off"

(* "unverified bytes are never trusted": a resume file the next start believes  *)
(* names only pieces that are on disk.                                          *)
NeverTrustsMissingBytes ==
  resume.present /\ resume.fresh => resume.pieces \subseteq disk

(* "A crash can lose at most this much verified progress from the resume file". *)
LossIsBounded ==
  at # "off" => Cardinality((have \cup shared) \ resume.pieces) <= Window
=============================================================================
