------------------------------- MODULE Policy -------------------------------
(***************************************************************************)
(* Policy profiles (core policy.rs, daemon/policy_runtime.rs and their use *)
(* in lifecycle.rs): how a torrent's storage directory, start behaviour    *)
(* and encryption mode follow from its record and the configuration, and   *)
(* the operations that edit either of them: adding, assigning a profile,   *)
(* setting labels, setting an encryption override, replacing the           *)
(* configuration with the migration of records without snapshots, moving   *)
(* the payload, saves by other operations, and a restart from disk.        *)
(* One torrent; None stands for an absent Option.  The incomplete          *)
(* directory resolves like the completed one and is left out.              *)
(***************************************************************************)
EXTENDS Integers, FiniteSets

CONSTANTS PolicyConfigs,  \* the configurations there may be
          Profiles, Modes,
          Elsewhere,      \* directories data may be moved to
          None, Fallback, \* no value; the directory used when nothing is set
          MaxEdits, MaxPolicyFaults

VARIABLES config, disk_config,   \* the live configuration and its file
          torrent, disk_torrent, \* the registry's record and the saved one
          payload,    \* the directory the torrent's data is in
          edit,       \* the operation that holds config_write_lock
          move,       \* the move that holds storage_ownership_lock
          engine,     \* the encryption mode an engine starts or runs with
          overlapped, \* a move met an edit, a failed save or a crash
          leaked,     \* somebody else saved what an edit had yet to save
          edits, policy_faults

policy_vars == <<config, disk_config, torrent, disk_torrent, payload, edit,
                 move, engine, overlapped, leaked, edits, policy_faults>>

Free == [at |-> "free"]
Engine(at, mode) == [at |-> at, mode |-> mode]
NoEngine == Engine("off", None)
Absent == [known |-> FALSE, profile |-> None, label |-> FALSE, dir |-> None,
           snapped |-> FALSE, snapshot |-> None, start |-> None, mode |-> None]

(* What a record and a configuration resolve to. *)

\* An assigned profile that exists, else the profile its label selects.
ProfileOf(c, t) ==
    IF t.profile \in c.profiles THEN t.profile
    ELSE IF t.label /\ c.labelled \in c.profiles THEN c.labelled ELSE None

OfProfile(c, t, values) ==
    IF ProfileOf(c, t) = None THEN None ELSE values[ProfileOf(c, t)]

Resolve(own, profile, global) ==
    IF own # None THEN own ELSE IF profile # None THEN profile ELSE global

\* A snapshot wins even when what it captured is None.
Dir(c, t) ==
    IF t.dir # None THEN t.dir
    ELSE IF t.snapped THEN t.snapshot
    ELSE Resolve(None, OfProfile(c, t, c.dirs), c.dir)

DirIsGlobal(c, t) ==
    t.dir = None /\ ~t.snapped /\ OfProfile(c, t, c.dirs) = None

Start(c, t) == Resolve(t.start, OfProfile(c, t, c.starts), c.start)
Mode(c, t) == Resolve(t.mode, OfProfile(c, t, c.modes), c.mode)
Path(c, t) == Resolve(Dir(c, t), None, Fallback)

(* The snapshots. *)

SnapshotAdmission(c, t) ==
    IF t.start # None THEN t ELSE [t EXCEPT !.start = Start(c, t)]

SnapshotRegistration(c, t) ==
    [t EXCEPT !.snapped = TRUE, !.snapshot = Dir(c, t)]

\* An explicit directory stays where it is recorded.
SnapshotExisting(c, t) ==
    IF t.snapped THEN t
    ELSE [t EXCEPT !.snapped = TRUE,
                   !.snapshot = IF t.dir = None THEN Dir(c, t) ELSE None]

Snapshots(c, t) == SnapshotExisting(c, SnapshotAdmission(c, t))

PolicyTypeOK ==
    /\ {config, disk_config} \subseteq PolicyConfigs
    /\ \A t \in {torrent, disk_torrent} :
          /\ t.profile \in Profiles \cup {None}
          /\ t.mode \in Modes \cup {None}
    /\ engine.mode \in Modes \cup {None}

\* A library with nothing in it, or with a record that predates snapshots.
PolicyInit ==
    /\ config \in PolicyConfigs /\ disk_config = config
    /\ torrent \in {Absent} \cup {[Absent EXCEPT !.known = TRUE, !.label = l] :
                                     l \in BOOLEAN}
    /\ disk_torrent = torrent
    /\ payload = Path(config, torrent)
    /\ edit = Free /\ move = Free /\ engine = NoEngine
    /\ overlapped = FALSE /\ leaked = FALSE /\ edits = 0 /\ policy_faults = 0

Fault == policy_faults < MaxPolicyFaults /\ policy_faults' = policy_faults + 1
Fine == policy_faults' = policy_faults

\* An edit takes config_write_lock and keeps it to its end.
Edits ==
    /\ edit = Free /\ edits < MaxEdits /\ edits' = edits + 1
    /\ overlapped' = (overlapped \/ (move # Free))

Add(profile, label) ==
    LET asked == [Absent EXCEPT !.known = TRUE, !.profile = profile, !.label = label]
        new == SnapshotRegistration(config, asked)
    IN  /\ ~torrent.known /\ Edits
        /\ profile \in config.profiles \cup {None}
        /\ torrent' = SnapshotAdmission(config, new)
        /\ disk_torrent' = torrent'
        /\ payload' = Path(config, torrent')
        /\ UNCHANGED <<config, disk_config, edit, move, engine, leaked,
                       policy_faults>>

(* Profile, label and encryption edits: change, save, then apply. *)

Change(next) ==
    /\ torrent.known /\ Edits
    /\ torrent' = next
    /\ edit' = [at |-> "save", previous |-> torrent,
                changed |-> Mode(config, torrent) # Mode(config, next)]
    /\ UNCHANGED <<leaked, config, disk_config, disk_torrent, payload, move, engine,
                   policy_faults>>

AssignProfile(profile) ==
    /\ profile \in config.profiles \cup {None}
    /\ Change([Snapshots(config, torrent) EXCEPT !.profile = profile])

\* Mutant: the labels change before the snapshot is taken.
SetLabelsFirst(label) ==
    Change(Snapshots(config, [torrent EXCEPT !.label = label]))

SetLabels(label) ==
    Change([Snapshots(config, torrent) EXCEPT !.label = label])

AssignMode(mode) == Change([torrent EXCEPT !.mode = mode])

EditSaved ==
    /\ edit.at = "save" /\ disk_torrent' = torrent
    /\ edit' = [at |-> "apply", changed |-> edit.changed]
    /\ UNCHANGED <<leaked, config, disk_config, torrent, payload, move, engine,
                   overlapped, edits, policy_faults>>

\* The whole previous record comes back.
EditFails ==
    /\ edit.at = "save" /\ Fault
    /\ torrent' = edit.previous /\ edit' = Free
    /\ UNCHANGED <<leaked, config, disk_config, disk_torrent, payload, move, engine,
                   overlapped, edits>>

\* Only an engine whose handle is installed is restarted.
Apply ==
    /\ edit.at = "apply" /\ edit' = Free
    /\ engine' = IF edit.changed /\ engine.at = "on" THEN NoEngine ELSE engine
    /\ UNCHANGED <<leaked, config, disk_config, torrent, disk_torrent, payload, move,
                   overlapped, edits, policy_faults>>

(* Replacing the configuration. *)

ProfilesDiffer(c, d) ==
    \/ c.profiles # d.profiles \/ c.labelled # d.labelled
    \/ c.dirs # d.dirs \/ c.starts # d.starts \/ c.modes # d.modes

\* Mutant: only records whose profile the edit removes are migrated.
MigratedIfAssigned(c, next, t) ==
    IF t.known /\ ProfilesDiffer(c, next) /\ t.profile # None
      THEN Snapshots(c, t) ELSE t

Migrated(c, next, t) ==
    IF t.known /\ ProfilesDiffer(c, next) THEN Snapshots(c, t) ELSE t

\* Mutant: a profile may go while a record is assigned to it.
AcceptsAnyAssignment(next, t) ==
    ~(t.known /\ config.dir # next.dir /\ DirIsGlobal(config, t))

\* Validation, on the migrated clone of the record.
Accepts(next, t) ==
    /\ t.profile \in next.profiles \cup {None}
    /\ ~(t.known /\ config.dir # next.dir /\ DirIsGlobal(config, t))

Replace(next) ==
    LET clone == Migrated(config, next, torrent)
    IN  /\ next # config /\ Edits /\ Accepts(next, clone)
        /\ edit' = [at |-> IF clone = torrent THEN "write" ELSE "install",
                    next |-> next, clone |-> clone, previous |-> torrent,
                    changed |-> Mode(config, clone) # Mode(next, clone)]
        /\ UNCHANGED <<leaked, config, disk_config, torrent, disk_torrent, payload,
                       move, engine, policy_faults>>

\* Only the two snapshot fields of the record are written.
WithSnapshots(t, of) ==
    [t EXCEPT !.snapped = of.snapped, !.snapshot = of.snapshot, !.start = of.start]

Install ==
    /\ edit.at = "install"
    /\ IF WithSnapshots(torrent, edit.previous) = torrent
         THEN /\ torrent' = WithSnapshots(torrent, edit.clone)
              /\ edit' = [edit EXCEPT !.at = "migrate"]
         ELSE edit' = Free /\ UNCHANGED torrent
    /\ UNCHANGED <<leaked, config, disk_config, disk_torrent, payload, move, engine,
                   overlapped, edits, policy_faults>>

MigrationSaved ==
    /\ edit.at = "migrate" /\ disk_torrent' = torrent
    /\ edit' = [edit EXCEPT !.at = "write"]
    /\ UNCHANGED <<leaked, config, disk_config, torrent, payload, move, engine,
                   overlapped, edits, policy_faults>>

MigrationFails ==
    /\ edit.at = "migrate" /\ Fault
    /\ torrent' = WithSnapshots(torrent, edit.previous) /\ edit' = Free
    /\ UNCHANGED <<leaked, config, disk_config, disk_torrent, payload, move, engine,
                   overlapped, edits>>

ConfigSaved ==
    /\ edit.at = "write" /\ disk_config' = edit.next
    /\ edit' = [edit EXCEPT !.at = "swap"]
    /\ UNCHANGED <<leaked, config, torrent, disk_torrent, payload, move, engine,
                   overlapped, edits, policy_faults>>

\* The file keeps its old bytes; the migration is undone, first in memory.
ConfigFails ==
    /\ edit.at = "write" /\ Fault
    /\ torrent' = WithSnapshots(torrent, edit.previous)
    /\ edit' = [edit EXCEPT !.at = "restore"]
    /\ UNCHANGED <<leaked, config, disk_config, disk_torrent, payload, move, engine,
                   overlapped, edits>>

Restored ==
    /\ edit.at = "restore" /\ disk_torrent' = torrent /\ edit' = Free
    /\ UNCHANGED <<leaked, config, disk_config, torrent, payload, move, engine,
                   overlapped, edits, policy_faults>>

\* The record follows the saved one again.
RestoreFails ==
    /\ edit.at = "restore" /\ Fault
    /\ torrent' = WithSnapshots(torrent, edit.clone) /\ edit' = Free
    /\ UNCHANGED <<leaked, config, disk_config, disk_torrent, payload, move, engine,
                   overlapped, edits>>

Swap ==
    /\ edit.at = "swap" /\ config' = edit.next
    /\ edit' = [at |-> "apply", changed |-> edit.changed]
    /\ UNCHANGED <<leaked, disk_config, torrent, disk_torrent, payload, move, engine,
                   overlapped, edits, policy_faults>>

(* Moving the data, which takes another lock. *)

BeginMove(to) ==
    /\ torrent.known /\ move = Free /\ edits < MaxEdits /\ edits' = edits + 1
    /\ to # Path(config, torrent)
    /\ move' = [at |-> "data", to |-> to, dir |-> torrent.dir,
                source |-> Path(config, torrent)]
    /\ engine' = NoEngine
    /\ overlapped' = (overlapped \/ (edit # Free))
    /\ UNCHANGED <<leaked, config, disk_config, torrent, disk_torrent, payload, edit,
                   policy_faults>>

DataMoved ==
    /\ move.at = "data" /\ payload' = move.to
    /\ move' = [move EXCEPT !.at = "record"]
    /\ UNCHANGED <<leaked, config, disk_config, torrent, disk_torrent, edit, engine,
                   overlapped, edits, policy_faults>>

DataStays ==
    /\ move.at = "data" /\ Fault /\ move' = Free
    /\ UNCHANGED <<leaked, config, disk_config, torrent, disk_torrent, payload, edit,
                   engine, overlapped, edits>>

MoveRecorded ==
    /\ move.at = "record" /\ torrent' = [torrent EXCEPT !.dir = move.to]
    /\ move' = [move EXCEPT !.at = "save"]
    /\ UNCHANGED <<leaked, config, disk_config, disk_torrent, payload, edit, engine,
                   overlapped, edits, policy_faults>>

MoveSaved ==
    /\ move.at = "save" /\ disk_torrent' = torrent /\ move' = Free
    /\ UNCHANGED <<leaked, config, disk_config, torrent, payload, edit, engine,
                   overlapped, edits, policy_faults>>

\* The data goes back and the record's directory with it.
MoveFails ==
    /\ move.at = "save" /\ Fault
    /\ payload' = move.source /\ move' = Free
    /\ torrent' = [torrent EXCEPT !.dir = move.dir]
    /\ overlapped' = (overlapped \/ (disk_torrent.dir = move.to))
    /\ UNCHANGED <<leaked, config, disk_config, disk_torrent, edit, engine, edits>>

(* Everything else. *)

\* An engine start reads the mode well before its handle is installed.
EngineStarts ==
    /\ torrent.known /\ engine.at = "off"
    /\ engine' = Engine("starting", Mode(config, torrent))
    /\ UNCHANGED <<leaked, config, disk_config, torrent, disk_torrent, payload, edit,
                   move, overlapped, edits, policy_faults>>

EngineInstalled ==
    /\ engine.at = "starting" /\ engine' = [engine EXCEPT !.at = "on"]
    /\ UNCHANGED <<leaked, config, disk_config, torrent, disk_torrent, payload, edit,
                   move, overlapped, edits, policy_faults>>

\* Any other operation's persist_state writes the registry as it is.
Save ==
    /\ disk_torrent # torrent /\ disk_torrent' = torrent
    /\ leaked' = (leaked \/ edit.at \in {"save", "restore"})
    /\ UNCHANGED <<config, disk_config, torrent, payload, edit, move, engine,
                   overlapped, edits, policy_faults>>

Crash ==
    /\ Fault
    /\ config' = disk_config /\ torrent' = disk_torrent
    /\ edit' = Free /\ move' = Free /\ engine' = NoEngine
    /\ overlapped' = (overlapped \/ (move # Free))
    /\ UNCHANGED <<leaked, disk_config, disk_torrent, payload, edits>>

Editing ==
    \/ \E p \in Profiles \cup {None} :
          AssignProfile(p) \/ \E l \in BOOLEAN : Add(p, l)
    \/ \E l \in BOOLEAN : SetLabels(l)
    \/ \E m \in Modes \cup {None} : AssignMode(m)
    \/ EditSaved \/ EditFails \/ Apply
    \/ \E c \in PolicyConfigs : Replace(c)
    \/ Install \/ MigrationSaved \/ MigrationFails
    \/ ConfigSaved \/ ConfigFails \/ Restored \/ RestoreFails \/ Swap

Moving ==
    \/ \E d \in Elsewhere : BeginMove(d)
    \/ DataMoved \/ DataStays \/ MoveRecorded \/ MoveSaved \/ MoveFails

PolicyNext ==
    Editing \/ Moving \/ EngineStarts \/ EngineInstalled \/ Save \/ Crash

PolicySpec == PolicyInit /\ [][PolicyNext]_policy_vars

(* Properties *)

\* Profile and label edits, configuration replacements, their failures and
\* their recovery after a crash never make a torrent look for its data in
\* another directory than the one it is in, neither for the running daemon
\* nor for the next one (policy_runtime.rs 104-150, 283-286).  The exceptions
\* are a move that met an edit, a crash or a save by somebody else, and such
\* a save in the middle of an edit.
DataIsWhereItResolves ==
    torrent.known /\ move = Free /\ ~overlapped /\ ~leaked =>
        /\ Path(config, torrent) = payload
        /\ Path(disk_config, disk_torrent) = payload

\* An explicit assignment always names a profile of the live configuration,
\* also after failed edits and after a crash (policy_runtime.rs 754-757).  The
\* exception is an assignment that somebody else's save wrote before its own
\* save failed.
AssignmentsExist ==
    ~leaked => torrent.profile \in config.profiles \cup {None}

\* The same without the exception: "A deleted profile must never be committed
\* as a dangling attachment" (policy_runtime.rs 586-587).
NeverDangling ==
    torrent.profile \in config.profiles \cup {None}

\* "A failed durable write cannot expose a transient transport policy"
\* (policy_runtime.rs 645-649) and "every new outbound session uses the new
\* mode" (80-82): once an edit is over, an engine has the effective mode.
EngineUsesMode ==
    edit = Free /\ engine.at # "off" => engine.mode = Mode(config, torrent)

=============================================================================
