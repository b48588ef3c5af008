----------------------------- MODULE StateStore -----------------------------
(***************************************************************************)
(* The durable state file of the daemon at the level of its files          *)
(* (crates/swarmotterd/src/state_store/mod.rs): the state file itself, the *)
(* SQLite write-ahead log beside it, and the temporary sibling a new       *)
(* generation is built in.  Every call runs alone, in the daemon's single  *)
(* state-write lane, and is taken here one file operation at a time, so    *)
(* that a crash, an input/output error or a checkpoint that stays busy can *)
(* fall between any two of them.  DurableState models the same calls as    *)
(* single steps, together with the registry and its fingerprints.          *)
(*                                                                         *)
(* SQLite is external: a transaction is durable once it is in the log, a   *)
(* checkpoint copies the log into the file page by page (the file is not a *)
(* database by itself while that lasts), the last connection to close      *)
(* checkpoints too, and whoever opens the database next reads the log over *)
(* the file.                                                               *)
(***************************************************************************)
EXTENDS Integers, SequencesExt

CONSTANTS
    SsTorrents,    \* the torrents a user may register
    SsStarts,      \* the kinds of state file the daemon may find: see SsInit
    HistoryRows,   \* MAX_LIBRARY_HISTORY_ROWS
    SampleRows,    \* MAX_METRIC_SAMPLES_PER_TORRENT
    SsFaultKinds,  \* what may go wrong: "crash", "error", "busy", "close", "damage"
    MaxSsFaults,   \* bound: how often it may
    MaxSsChanges,  \* bound: changes of the registry
    MaxMoved       \* bound: the transfer counter of one torrent

VARIABLES
    main,          \* the state file
    wal,           \* the write-ahead log beside it
    temp,          \* the temporary sibling
    unsynced,      \* the directory entries a crash may bring back: not synced yet
    up,            \* the daemon runs
    registry,      \* its torrents and queue, in memory
    call,          \* the call in the state-write lane
    snapshot,      \* StateFileSnapshot of a paired transaction
    acceptable,    \* history variable: the contents a load may return
    damaged,       \* history variable: the queue index was damaged and not rebuilt
    swept,         \* history variable: a lookup has removed a log that held a commit
    ss_changes, ss_faults

ss_vars == <<main, wal, temp, unsynced, up, registry, call, snapshot, acceptable, damaged, swept,
             ss_changes, ss_faults>>
-----------------------------------------------------------------------------
Missing == [kind |-> "missing"]
Torn == [kind |-> "torn"]
NoFile == [kind |-> "none"]
Idle == [name |-> "idle", at |-> "idle"]
Synced == [main |-> {}, wal |-> {}]

LifecycleStates == {"magnet", "downloading", "paused"}

\* The canonical info bytes of a torrent: those of a placeholder until the
\* metadata of a magnet is resolved.
Raw(record) == IF record.state = "magnet" THEN "placeholder" ELSE "resolved"

Of(f, keys) == [k \in keys |-> f[k]]

\* DaemonState: what a load returns and a full save is given.
State(torrents, queue) == [torrents |-> torrents, queue |-> queue]

NoState == State(<<>>, <<>>)

EmptyDatabase(version) ==
    [kind |-> "sqlite", schema |-> version, records |-> <<>>, queue |-> <<>>, entries |-> <<>>,
     canonical |-> <<>>, original |-> {}, history |-> <<>>, samples |-> <<>>]

\* What a connection sees: the log over the file.
Logical(file, log) == IF log = NoFile THEN file ELSE log

Database == Logical(main, wal)

classify_state_file(file) ==
    IF file.kind \in {"missing", "json"} THEN file.kind ELSE "sqlite"
-----------------------------------------------------------------------------
(* The rows a transaction writes.                                          *)

NewestOf(rows, t) ==
    LET own == SelectSeq(rows, LAMBDA r: r.torrent = t)
    IN  IF own = <<>> THEN NoFile ELSE own[Len(own)]

Latest(rows, limit) == SubSeq(rows, Len(rows) - limit + 1, Len(rows))

\* Mutant: retention keeps the rows that were written first.
Earliest(rows, limit) == SubSeq(rows, 1, limit)

\* Mutant: retention keeps the oldest rows of a full table.
prune_table_by_oldest_id(rows, limit) ==
    IF Len(rows) > limit THEN Earliest(rows, limit) ELSE rows

prune_table_by_latest_id(rows, limit) ==
    IF Len(rows) > limit THEN Latest(rows, limit) ELSE rows

\* The samples of each torrent are ranked on their own.
prune_metric_samples(rows, limit) ==
    LET Younger(i) == {j \in DOMAIN rows : j > i /\ rows[j].torrent = rows[i].torrent}
        kept == SetToSortSeq({i \in DOMAIN rows : Cardinality(Younger(i)) < limit}, <)
    IN  [k \in DOMAIN kept |-> rows[kept[k]]]

write_history(rows, t, previous, record) ==
    IF previous # NoFile /\ previous.state = record.state
    THEN rows
    ELSE Append(rows, [torrent |-> t, state |-> record.state])

write_metric_sample(rows, t, record) ==
    LET newest == NewestOf(rows, t)
    IN  IF newest # NoFile /\ newest.moved = record.moved
        THEN rows
        ELSE Append(rows, [torrent |-> t, moved |-> record.moved])

\* Mutant: a canonical row is only ever inserted.
write_canonical_once(db, t, record) ==
    [x \in DOMAIN db.canonical \cup {t} |->
        IF x \in DOMAIN db.canonical THEN db.canonical[x] ELSE Raw(record)]

write_canonical_info(db, t, record) ==
    [x \in DOMAIN db.canonical \cup {t} |-> IF x = t THEN Raw(record) ELSE db.canonical[x]]

\* One torrent: its record, and the rows that follow from it.
WriteTorrent(db, t, record) ==
    LET previous == IF t \in DOMAIN db.records THEN db.records[t] ELSE NoFile
    IN  [db EXCEPT
            !.records = [x \in DOMAIN @ \cup {t} |-> IF x = t THEN record ELSE @[x]],
            !.history = write_history(@, t, previous, record),
            !.canonical = write_canonical_info(db, t, record),
            !.samples = write_metric_sample(@, t, record)]

WriteTorrents(db, torrents) ==
    FoldLeft(LAMBDA d, t: WriteTorrent(d, t, torrents[t]), db, SetToSeq(DOMAIN torrents))

\* The torrents the registry no longer holds go, and by ON DELETE CASCADE
\* their metainfo and samples with them.  Their history stays.
DeleteStale(db, kept) ==
    [db EXCEPT !.records = Of(@, DOMAIN @ \cap kept),
               !.canonical = Of(@, DOMAIN @ \cap kept),
               !.original = @ \cap kept,
               !.samples = SelectSeq(@, LAMBDA r: r.torrent \in kept)]

write_original_metainfo(db, original) == [db EXCEPT !.original = @ \cup original]

\* Mutant: the queue document is written without its index rows.
write_queue_document(db, queue) == [db EXCEPT !.queue = queue]

write_queue_state(db, queue) == [db EXCEPT !.queue = queue, !.entries = queue]

prune_retained_rows(db) ==
    [db EXCEPT !.samples = prune_metric_samples(@, SampleRows),
               !.history = prune_table_by_latest_id(@, HistoryRows)]

write_state_transaction(db, state, original) ==
    LET written == DeleteStale(WriteTorrents(db, state.torrents), DOMAIN state.torrents)
    IN  prune_retained_rows(write_queue_state(write_original_metainfo(written, original),
                                              state.queue))

\* save_changed_records: the torrents whose record changed, and the queue if
\* it did.  Nothing is deleted.
WriteChanged(db, state) ==
    LET changed == {t \in DOMAIN state.torrents :
                        t \notin DOMAIN db.records \/ db.records[t] # state.torrents[t]}
        written == WriteTorrents(db, Of(state.torrents, changed))
    IN  prune_retained_rows(IF state.queue = db.queue
                            THEN written ELSE write_queue_state(written, state.queue))

migrate_schema(db) == [db EXCEPT !.schema = 2]

\* rebuild_derived_projections: the queue index from the queue document (the
\* projected columns, health and current metrics are not told apart from the
\* record here); history, samples and raw metainfo are left alone.
Rebuilt(db) == [db EXCEPT !.entries = db.queue]
-----------------------------------------------------------------------------
(* What may be read.                                                       *)

verify_queue_index(db) == db.entries = db.queue

\* A record the daemon accepts when it starts: the raw info hydrated from its
\* own row is the one the record's identity is the hash of.
hydrate_raw_metainfo(db, t) ==
    t \in DOMAIN db.canonical /\ db.canonical[t] = Raw(db.records[t])

\* validate_authoritative_torrent_records: the same check, record by record,
\* before a projection is touched.
Validated(db) == \A t \in DOMAIN db.records : hydrate_raw_metainfo(db, t)

Loads(db) ==
    CASE db.kind \in {"missing", "json"} -> TRUE
      [] db.kind = "torn" -> FALSE
      [] OTHER -> verify_queue_index(db) /\ Validated(db)

Content(db) ==
    CASE db.kind = "missing" -> NoState
      [] db.kind = "json" -> db.state
      [] OTHER -> State(db.records, db.queue)

\* Version zero, and a schema of a later daemon, are refused before anything
\* is opened for writing; so is a file that fails quick_check.
Verified(db) == db.kind = "sqlite" /\ db.schema \in {1, 2}

\* The offline rebuild migrates nothing.
verify_rebuild_schema(db) == db.kind = "sqlite" /\ db.schema = 2
-----------------------------------------------------------------------------
SsInit ==
    /\ \E start \in SsStarts :
          main = CASE start = "missing" -> Missing
                   [] start = "json" ->
                        [kind |-> "json",
                         state |-> State([t \in {CHOOSE x \in SsTorrents : TRUE} |->
                                             [state |-> "paused", moved |-> 0]],
                                         <<CHOOSE x \in SsTorrents : TRUE>>)]
                   [] start = "v1" -> EmptyDatabase(1)
                   [] OTHER -> EmptyDatabase(2)
    /\ wal = NoFile /\ temp = NoFile
    /\ unsynced = Synced
    /\ up = FALSE
    /\ registry = NoState
    /\ call = Idle
    /\ snapshot = NoFile
    /\ acceptable = {Content(main)}
    /\ damaged = FALSE /\ swept = FALSE
    /\ ss_changes = 0 /\ ss_faults = 0

Fault(kind) ==
    /\ kind \in SsFaultKinds /\ ss_faults < MaxSsFaults
    /\ ss_faults' = ss_faults + 1

DiskVars == <<main, wal, temp, unsynced>>
Rest == <<up, registry, snapshot, damaged, swept, ss_changes>>
-----------------------------------------------------------------------------
(* The registry.  Its changes are persisted by the calls below.            *)

Change(torrents, queue) ==
    /\ up /\ call = Idle /\ ss_changes < MaxSsChanges
    /\ registry' = State(torrents, queue)
    /\ ss_changes' = ss_changes + 1
    /\ UNCHANGED <<DiskVars, up, call, snapshot, acceptable, damaged, swept, ss_faults>>

Put(t, record) ==
    [x \in DOMAIN registry.torrents \cup {t} |->
        IF x = t THEN record ELSE registry.torrents[x]]

AddTorrent(t) ==
    /\ t \notin DOMAIN registry.torrents
    /\ \E state \in {"magnet", "downloading"} :
          Change(Put(t, [state |-> state, moved |-> 0]), Append(registry.queue, t))

RemoveTorrent(t) ==
    /\ t \in DOMAIN registry.torrents
    /\ Change(Of(registry.torrents, DOMAIN registry.torrents \ {t}),
              SelectSeq(registry.queue, LAMBDA x: x # t))

\* Resolved, paused or resumed.
TorrentTurns(t) ==
    /\ t \in DOMAIN registry.torrents
    /\ LET r == registry.torrents[t]
       IN  Change(Put(t, [r EXCEPT !.state = IF @ = "downloading" THEN "paused" ELSE "downloading"]),
                  registry.queue)

TorrentMoves(t) ==
    /\ t \in DOMAIN registry.torrents
    /\ registry.torrents[t].moved < MaxMoved
    /\ Change(Put(t, [registry.torrents[t] EXCEPT !.moved = @ + 1]), registry.queue)

QueueTurns ==
    /\ Len(registry.queue) > 1
    /\ Change(registry.torrents, Reverse(registry.queue))
-----------------------------------------------------------------------------
(* The calls, each from its first line to its return.                      *)

Target == call.target

\* A call enters the lane with the content the file shall hold when it ends.
Enter(name, at, target, original) ==
    /\ call = Idle
    /\ call' = [name |-> name, at |-> at, target |-> target, original |-> original,
                saving |-> name # "paired"]
    /\ acceptable' = acceptable \cup {target}
    /\ UNCHANGED <<DiskVars, Rest, ss_faults>>

At(at) == call.at = at

Goes(at) == call' = [call EXCEPT !.at = at]

\* What may be found afterwards, once the call has returned Ok.
Returns ==
    /\ call' = Idle /\ snapshot' = NoFile
    /\ acceptable' = {Target}

load(file) ==
    /\ ~up /\ call = Idle
    /\ Loads(Database)
    /\ IF classify_state_file(file) = "sqlite"
       THEN Verified(Database) /\ Enter("load", "open", Content(Database), {})
       ELSE /\ up' = TRUE
            /\ registry' = Content(file)
            /\ acceptable' = {Content(file)}
            /\ UNCHANGED <<DiskVars, call, snapshot, damaged, swept, ss_changes, ss_faults>>

\* The documents of torrents just registered from a file.
Originals ==
    {t \in DOMAIN registry.torrents :
        /\ registry.torrents[t].state = "downloading"
        /\ t \notin DOMAIN Content(Database).torrents}

save_with_original_metainfo ==
    /\ up
    /\ IF classify_state_file(main) = "sqlite"
       THEN Verified(Database) /\ Enter("full", "open", registry, Originals)
       ELSE Enter("full", "build", registry, Originals)

save_changed_records ==
    /\ up
    /\ classify_state_file(main) = "sqlite" /\ Verified(Database)
    /\ Content(WriteChanged(Database, registry)) # Content(Database)
    /\ Enter("changed", "open", Content(WriteChanged(Database, registry)), {})

\* persist_state_with_file_rollback: capture_file, save, and restore_file when
\* the save fails.
persist_state_with_file_rollback ==
    /\ up
    /\ IF classify_state_file(main) = "sqlite"
       THEN Verified(Database) /\ Enter("paired", "backfill", registry, {})
       ELSE Enter("paired", "capture", registry, {})

load_original_metainfo ==
    /\ up
    /\ classify_state_file(main) = "sqlite" /\ Verified(Database)
    /\ Enter("lookup", "lookup", Content(Database), {})

rebuild_projections ==
    /\ ~up
    /\ classify_state_file(main) = "sqlite" /\ verify_rebuild_schema(Database)
    /\ Validated(Database)
    /\ Enter("rebuild", "open", Content(Database), {})
-----------------------------------------------------------------------------
(* The steps.                                                              *)

\* open_sqlite, then migrate_schema in a transaction of its own.
Opens ==
    /\ At("open")
    /\ wal' = IF Database.schema = 2 THEN wal ELSE migrate_schema(Database)
    /\ Goes(IF call.name = "load" THEN "backfill" ELSE "write")
    /\ UNCHANGED <<main, temp, unsynced, Rest, acceptable, ss_faults>>

Commits ==
    /\ At("write")
    /\ wal' = CASE call.name = "rebuild" -> Rebuilt(Database)
                 [] call.name = "changed" -> WriteChanged(Database, registry)
                 [] OTHER -> write_state_transaction(Database, Target, call.original)
    /\ Goes("backfill")
    /\ UNCHANGED <<main, temp, unsynced, Rest, acceptable, ss_faults>>

\* Mutant: the sidecars are removed before the checkpoint.
SweepsFirst ==
    /\ At("backfill")
    /\ wal' = NoFile
    /\ Goes("tidy")
    /\ UNCHANGED <<main, temp, unsynced, Rest, acceptable, ss_faults>>

\* PRAGMA wal_checkpoint(TRUNCATE), or the checkpoint of the connection that
\* save_changed_records drops: pages first, the log last.
Backfills ==
    /\ At("backfill")
    /\ IF wal = NoFile
       THEN Goes("tidy") /\ UNCHANGED main
       ELSE Goes("truncate") /\ main' = Torn
    /\ UNCHANGED <<wal, temp, unsynced, Rest, acceptable, ss_faults>>

Truncates ==
    /\ At("truncate")
    /\ main' = wal /\ wal' = NoFile
    /\ Goes("tidy")
    /\ UNCHANGED <<temp, unsynced, Rest, acceptable, ss_faults>>

\* The end of checkpoint_and_sync: sidecars removed, file and directory synced.
\* A changed-record save ends without it.
Tidies ==
    /\ At("tidy")
    /\ wal' = NoFile
    /\ unsynced' = IF call.name = "changed" THEN unsynced ELSE Synced
    /\ IF call.saving
       THEN /\ Returns
            /\ up' = (up \/ call.name = "load")
            /\ registry' = IF call.name = "load" THEN Target ELSE registry
            /\ damaged' = (damaged /\ call.name # "rebuild")
       ELSE Goes("capture") /\ UNCHANGED <<acceptable, up, registry, damaged, snapshot>>
    /\ UNCHANGED <<main, temp, swept, ss_changes, ss_faults>>

\* The rest of capture_file, and the first lines of the save that follows.
Captures ==
    /\ At("capture")
    /\ snapshot' = main
    /\ call' = [call EXCEPT !.saving = TRUE,
                            !.at = IF classify_state_file(main) = "sqlite" THEN "open" ELSE "build"]
    /\ UNCHANGED <<DiskVars, up, registry, damaged, swept, ss_changes, acceptable, ss_faults>>

\* write_new_sqlite_generation, up to the checkpoint of the temporary file.
Builds ==
    /\ At("build")
    /\ temp' = write_state_transaction(migrate_schema(EmptyDatabase(0)), Target, call.original)
    /\ Goes("rename")
    /\ UNCHANGED <<main, wal, unsynced, Rest, acceptable, ss_faults>>

Renames ==
    /\ At("rename")
    /\ main' = temp /\ temp' = NoFile
    /\ unsynced' = [unsynced EXCEPT !.main = @ \cup {main}]
    /\ Goes("sync")
    /\ UNCHANGED <<wal, Rest, acceptable, ss_faults>>

sync_directory ==
    /\ At("sync")
    /\ unsynced' = Synced
    /\ Returns
    /\ UNCHANGED <<main, wal, temp, up, registry, damaged, swept, ss_changes, ss_faults>>

\* load_original_metainfo: read over a read-only connection, which does not
\* checkpoint when it closes, then remove_sqlite_sidecars.
Looks ==
    /\ At("lookup")
    /\ wal' = NoFile
    /\ swept' = (swept \/ main # Database)
    /\ call' = Idle
    /\ UNCHANGED <<main, temp, unsynced, up, registry, snapshot, damaged, ss_changes,
                   acceptable, ss_faults>>

\* Mutant: the snapshot is put back under the log of the failed save.
RestoreKeepsLog ==
    /\ At("restore")
    /\ Goes("replace")
    /\ UNCHANGED <<DiskVars, Rest, acceptable, ss_faults>>

\* restore_file: the sidecars go first.
RestoreSweeps ==
    /\ At("restore")
    /\ wal' = NoFile
    /\ unsynced' = [unsynced EXCEPT !.wal = @ \cup {wal}]
    /\ Goes("replace")
    /\ UNCHANGED <<main, temp, Rest, acceptable, ss_faults>>

\* write_and_replace, or the removal of a file that was not there before.  The
\* file then holds what it held when it was captured.
RestoreReplaces ==
    /\ At("replace")
    /\ call' = [call EXCEPT !.at = IF snapshot = Missing THEN "sync" ELSE "rename",
                            !.target = Content(snapshot)]
    /\ IF snapshot = Missing
       THEN /\ main' = Missing /\ UNCHANGED temp
            /\ unsynced' = [unsynced EXCEPT !.main = @ \cup {main}]
       ELSE temp' = snapshot /\ UNCHANGED <<main, unsynced>>
    /\ UNCHANGED <<wal, Rest, acceptable, ss_faults>>
-----------------------------------------------------------------------------
(* What goes wrong.                                                        *)

Restoring == call.name = "paired" /\ call.at \in {"restore", "replace"}

\* A call reports an error.  The temporary file is removed, a paired save goes
\* on to its rollback, and a connection that is dropped leaves the log.
Errors ==
    /\ call.at \in {"open", "write", "truncate", "tidy", "build", "rename", "sync", "replace"}
    /\ call.name # "changed" \/ call.at \in {"open", "write"}
    /\ Fault("error")
    /\ temp' = NoFile
    /\ IF call.name = "paired" /\ call.saving /\ Target = registry /\ ~Restoring
       THEN Goes("restore")
       ELSE call' = Idle
    /\ UNCHANGED <<main, wal, unsynced, Rest, acceptable>>

\* Another process reads the database: the checkpoint "remained busy".
StaysBusy ==
    /\ At("backfill") /\ call.name # "changed"
    /\ Fault("busy")
    /\ IF call.name = "paired" /\ call.saving THEN Goes("restore") ELSE call' = Idle
    /\ UNCHANGED <<DiskVars, Rest, acceptable>>

\* The same for the connection a changed-record save drops: nobody is told.
CloseLeavesLog ==
    /\ call.name = "changed" /\ call.at \in {"backfill", "truncate"}
    /\ Fault("close")
    /\ Returns
    /\ UNCHANGED <<DiskVars, up, registry, damaged, swept, ss_changes>>

Crash ==
    /\ up \/ call # Idle
    /\ Fault("crash")
    /\ main' \in {main} \cup unsynced.main
    /\ wal' \in {wal} \cup unsynced.wal
    /\ temp' = NoFile /\ unsynced' = Synced
    /\ up' = FALSE /\ registry' = NoState /\ call' = Idle /\ snapshot' = NoFile
    /\ UNCHANGED <<acceptable, damaged, swept, ss_changes>>

\* The projection of the queue is damaged while the daemon is down.
Damages ==
    /\ ~up /\ call = Idle /\ wal = NoFile
    /\ main.kind = "sqlite" /\ main.queue # <<>>
    /\ Fault("damage")
    /\ main' = [main EXCEPT !.entries = <<>>]
    /\ damaged' = TRUE
    /\ UNCHANGED <<wal, temp, unsynced, up, registry, call, snapshot, acceptable, swept, ss_changes>>

\* An orderly stop between calls.
Stops ==
    /\ up /\ call = Idle /\ unsynced = Synced
    /\ up' = FALSE /\ registry' = NoState /\ snapshot' = NoFile
    /\ UNCHANGED <<DiskVars, call, acceptable, damaged, swept, ss_changes, ss_faults>>
-----------------------------------------------------------------------------
SsNext ==
    \/ \E t \in SsTorrents :
          AddTorrent(t) \/ RemoveTorrent(t) \/ TorrentTurns(t) \/ TorrentMoves(t)
    \/ QueueTurns
    \/ load(main) \/ save_with_original_metainfo \/ save_changed_records
    \/ persist_state_with_file_rollback \/ load_original_metainfo \/ rebuild_projections
    \/ Opens \/ Commits \/ Backfills \/ Truncates \/ Tidies \/ Captures
    \/ Builds \/ Renames \/ sync_directory \/ Looks
    \/ RestoreSweeps \/ RestoreReplaces
    \/ Errors \/ StaysBusy \/ CloseLeavesLog \/ Crash \/ Damages \/ Stops

SsSpec == SsInit /\ [][SsNext]_ss_vars
-----------------------------------------------------------------------------
SsTypeOK ==
    /\ up \in BOOLEAN /\ damaged \in BOOLEAN
    /\ main.kind \in {"missing", "json", "sqlite", "torn"}
    /\ wal.kind \in {"none", "sqlite"} /\ temp.kind \in {"none", "json", "sqlite"}
    /\ ss_changes \in 0..MaxSsChanges /\ ss_faults \in 0..MaxSsFaults

(***************************************************************************)
(* Whatever a crash, an error or a busy checkpoint interrupts, the files   *)
(* that are left hold a state the next load accepts, and it is the one    *)
(* of the last call that returned, or that of a call that has not returned *)
(* Ok since: log, file and temporary sibling are removed and replaced in   *)
(* an order that never leaves a file without the log it still needs, an    *)
(* index that contradicts its queue, or a record beside another torrent's  *)
(* raw info.  LookupIsReadOnly is about the one exception.  (save_sqlite_generation, write_new_sqlite_generation,        *)
(* save_changed_records, capture_file, restore_file, checkpoint_and_sync,  *)
(* rebuild_projections.)                                                   *)
(***************************************************************************)
StateSurvives ==
    call = Idle /\ ~swept =>
        /\ damaged \/ Loads(Database)
        /\ Content(Database) \in acceptable

(***************************************************************************)
(* load_original_metainfo is "intentionally a read-only lookup" that       *)
(* "leaves the durable state directory in the same clean state the save    *)
(* path established": what the next load returns is the same before and    *)
(* after it, also when the last save left a log behind because its         *)
(* checkpoint failed, was interrupted or stayed busy.                      *)
(***************************************************************************)
LookupIsReadOnly ==
    [][Looks => Loads(main) /\ Content(main) = Content(Database)]_ss_vars

(***************************************************************************)
(* The operational history agrees with the library it is kept beside: the  *)
(* last retained history row of a durable torrent names the state of its   *)
(* record, and its last retained sample the counters of its record, over   *)
(* full saves, changed-record saves, removals and new registrations,       *)
(* migrations and pruning at the retention caps (write_history,            *)
(* write_metric_sample, prune_retained_rows).                              *)
(***************************************************************************)
RowsTellRecords ==
    Database.kind = "sqlite" =>
        \A t \in DOMAIN Database.records :
            LET told == NewestOf(Database.history, t)
                sampled == NewestOf(Database.samples, t)
            IN  /\ told # NoFile => told.state = Database.records[t].state
                /\ sampled # NoFile /\ sampled.moved = Database.records[t].moved
=============================================================================
