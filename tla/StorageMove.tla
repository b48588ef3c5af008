---------------------------- MODULE StorageMove ----------------------------
(* Moving a torrent's payload to another root (swarmotter-core/src/storage/   *)
(* io/mod.rs: move_to, build_move_plan, execute_move_plan, rollback_move_plan,*)
(* move_file_exclusive, copy_file_exclusive). Every file-system call is a     *)
(* step of its own and may fail; someone else may create a file at any path;  *)
(* the process may die between any two calls. Handles are flushed and dropped *)
(* first (StorageHandles). Creating and removing directories is left out.     *)
EXTENDS Naturals, FiniteSets

CONSTANTS
  PayloadFiles,   \* 1 .. n: the order of the plan
  EmptyFiles,     \* those of length zero
  MaxMoves,       \* bound: attempts
  MaxMoveFaults   \* bound: failing calls, crashes and foreign files

Sides == {"src", "dst"}
Away(s) == IF s = "src" THEN "dst" ELSE "src"

VARIABLES
  at,        \* path -> "none", "own", "part", "foreign"
  owned,     \* files the torrent had when the move began
  strangers, \* destination paths at which someone else made a file
  resume,    \* a fast-resume file exists
  plan,      \* file -> "existing", "empty", "absent"
  moving,    \* "no", "forward", "back", "done", "failed", "down"
  entry,     \* the plan entry at hand
  call,      \* "start", "link", "copy", "unlink", "undo", "sync": the next call for it
  completed, \* entries completed
  stuck,     \* entries whose rollback failed
  moves, trouble

progress == <<plan, moving, entry, call, completed, stuck>>
sm_vars == <<at, owned, strangers, resume, progress, moves, trouble>>

SmTypeOK ==
  /\ at \in [PayloadFiles \X Sides -> {"none", "own", "part", "foreign"}]
  /\ moving \in {"no", "forward", "back", "done", "failed", "down"}
  /\ call \in {"start", "link", "copy", "unlink", "undo", "sync"}
  /\ plan \in [PayloadFiles -> {"existing", "empty", "absent"}]
  /\ completed \subseteq PayloadFiles /\ stuck \subseteq PayloadFiles

SmInit ==
  /\ owned \in SUBSET PayloadFiles
  /\ at = [p \in PayloadFiles \X Sides |-> IF p[2] = "src" /\ p[1] \in owned THEN "own" ELSE "none"]
  /\ strangers = {}
  /\ resume = TRUE
  /\ plan = [f \in PayloadFiles |-> "absent"]
  /\ moving = "no" /\ entry = 1 /\ call = "start" /\ completed = {} /\ stuck = {}
  /\ moves = 0 /\ trouble = 0

Last == Cardinality(PayloadFiles)
ASSUME MoveAssumption == IsFiniteSet(PayloadFiles) /\ PayloadFiles = 1 .. Last /\ Last > 0

Set(p, v) == at' = [at EXCEPT ![p] = v]
Still == UNCHANGED <<owned, strangers, resume, plan, moves>>
Fault == trouble < MaxMoveFaults /\ trouble' = trouble + 1
Fine == UNCHANGED trouble

(* The side the entry is moved from. *)
From == IF moving = "forward" THEN "src" ELSE "dst"
Source == <<entry, From>>
Target == <<entry, Away(From)>>

Call(c) == call' = c /\ UNCHANGED <<moving, entry, completed, stuck>>

(* The next entry, or the end of the plan. *)
NextEntry(done) ==
  /\ completed' = completed \cup done
  /\ call' = "start"
  /\ IF entry < Last THEN entry' = entry + 1 /\ UNCHANGED moving
                     ELSE moving' = "done" /\ UNCHANGED entry
  /\ UNCHANGED stuck

(* rollback_move_plan: the completed entries, last first. *)
RollBack(done) ==
  /\ completed' = completed \cup done
  /\ call' = "start"
  /\ IF completed' = {} THEN moving' = "failed" /\ UNCHANGED entry
     ELSE /\ moving' = "back"
          /\ entry' = CHOOSE f \in completed' : \A g \in completed' : g <= f
  /\ UNCHANGED stuck

RolledBack(failure) ==
  /\ completed' = completed \ {entry}
  /\ stuck' = stuck \cup failure
  /\ call' = "start"
  /\ IF completed' = {} THEN moving' = "failed" /\ UNCHANGED entry
     ELSE /\ entry' = CHOOSE f \in completed' : \A g \in completed' : g <= f
          /\ UNCHANGED moving

(* The entry's call fails: going forward everything is rolled back, going back *)
(* the failure is noted and the rollback goes on.                              *)
EntryFails == IF moving = "forward" THEN RollBack({}) ELSE RolledBack({entry})

-----------------------------------------------------------------------------
(* move_to: build_move_plan refuses a target that exists; then the resume file *)
(* is removed.                                                                 *)
BuildPlan ==
  /\ moving = "no" /\ moves < MaxMoves
  /\ moves' = moves + 1
  /\ IF \E f \in PayloadFiles : at[<<f, "dst">>] # "none"
       THEN /\ moving' = "failed"
            /\ UNCHANGED <<plan, resume>>
       ELSE /\ plan' = [f \in PayloadFiles |->
                          IF at[<<f, "src">>] # "none" THEN "existing"
                          ELSE IF f \in EmptyFiles THEN "empty" ELSE "absent"]
            /\ resume' = FALSE
            /\ moving' = "forward"
  /\ entry' = 1 /\ call' = "start" /\ completed' = {} /\ stuck' = {}
  /\ UNCHANGED <<at, owned, strangers, trouble>>

(* execute_move_plan: an absent file must still be absent on both sides, a     *)
(* file to be created empty on the source side.                                *)
CheckEntry ==
  /\ moving = "forward" /\ call = "start"
  /\ \/ /\ plan[entry] = "absent"
        /\ IF at[Source] = "none" /\ at[Target] = "none" THEN NextEntry({}) ELSE RollBack({})
     \/ /\ plan[entry] = "empty"
        /\ IF at[Source] = "none" THEN Call("copy") ELSE RollBack({})
     \/ /\ plan[entry] = "existing"
        /\ IF at[Target] = "none" THEN Call("link") ELSE RollBack({})
  /\ Fine /\ Still /\ UNCHANGED at

BackEntry ==
  /\ moving = "back" /\ call = "start"
  /\ \/ plan[entry] = "empty" /\ Call("undo")
     \/ /\ plan[entry] = "existing"
        /\ IF at[Target] = "none" THEN Call("link") ELSE RolledBack({entry})
  /\ Fine /\ Still /\ UNCHANGED at

(* create_empty_file_exclusive *)
CreateEmpty ==
  /\ moving = "forward" /\ call = "copy" /\ plan[entry] = "empty"
  /\ IF at[Target] = "none"
       THEN Set(Target, "own") /\ Call("sync")
       ELSE UNCHANGED at /\ RollBack({})
  /\ Fine /\ Still

UndoEmpty ==
  /\ moving = "back" /\ call = "undo" /\ plan[entry] = "empty"
  /\ \/ Set(<<entry, "dst">>, "none") /\ Call("sync") /\ Fine
     \/ UNCHANGED at /\ RolledBack({entry}) /\ Fault
  /\ Still

(* hard_link refuses an existing target; across file systems it fails and the  *)
(* file is copied.                                                             *)
HardLink ==
  /\ call = "link"
  /\ \/ at[Target] = "none" /\ Set(Target, at[Source]) /\ Call("unlink") /\ Fine
     \/ UNCHANGED at /\ Call("copy") /\ Fine
  /\ Still

(* copy_file_exclusive: create_new, copy and sync. *)
StartCopy ==
  /\ call = "copy" /\ plan[entry] = "existing"
  /\ \/ at[Target] = "none" /\ Set(Target, "part") /\ Call("sync") /\ Fine
     \/ at[Target] # "none" /\ UNCHANGED at /\ EntryFails /\ Fine
  /\ Still

UnlinkEarly ==
  /\ call = "sync" /\ plan[entry] = "existing" /\ at[Target] = "part"
  /\ \/ at' = [at EXCEPT ![Target] = at[Source], ![Source] = "none"] /\ Call("unlink") /\ Fine
     \/ at' = [at EXCEPT ![Target] = "none", ![Source] = "none"] /\ EntryFails /\ Fault
  /\ Still
FinishCopy ==
  /\ call = "sync" /\ plan[entry] = "existing" /\ at[Target] = "part"
  /\ \/ Set(Target, at[Source]) /\ Call("unlink") /\ Fine
     \/ Set(Target, "none") /\ EntryFails /\ Fault
  /\ Still

(* The source is removed; when that fails the target is, if it can be. *)
UnlinkSource ==
  /\ call = "unlink"
  /\ \/ Set(Source, "none") /\ Call("sync") /\ Fine
     \/ UNCHANGED at /\ Call("undo") /\ Fault
  /\ Still

UndoTarget ==
  /\ call = "undo" /\ plan[entry] = "existing"
  /\ \/ Set(Target, "none") /\ EntryFails /\ Fine
     \/ UNCHANGED at /\ EntryFails /\ Fault
  /\ Still

(* sync_move_entry_parents *)
SyncParents ==
  /\ call = "sync" /\ at[Target] # "part"
  /\ \/ Fine /\ IF moving = "forward" THEN NextEntry({entry}) ELSE RolledBack({})
     \/ Fault /\ IF moving = "forward" THEN RollBack({entry}) ELSE RolledBack({entry})
  /\ Still /\ UNCHANGED at

-----------------------------------------------------------------------------
Underway == moving \in {"forward", "back"}

Crash ==
  /\ Underway /\ Fault
  /\ moving' = "down"
  /\ UNCHANGED <<at, owned, strangers, resume, plan, entry, call, completed, stuck, moves>>

Stranger ==
  /\ Underway /\ Fault
  /\ \E p \in PayloadFiles \X Sides :
       /\ at[p] = "none" /\ Set(p, "foreign")
       /\ strangers' = strangers \cup (IF p[2] = "dst" THEN {p} ELSE {})
  /\ UNCHANGED <<owned, resume, progress, moves>>

(* A later attempt. *)
Again ==
  /\ moving \in {"failed", "down"} /\ moves < MaxMoves
  /\ moving' = "no"
  /\ UNCHANGED <<at, owned, strangers, resume, plan, entry, call, completed, stuck, moves, trouble>>

MoveCalls == \/ CheckEntry \/ BackEntry \/ CreateEmpty \/ UndoEmpty
             \/ Underway /\ (HardLink \/ StartCopy \/ FinishCopy \/ UnlinkSource \/ UndoTarget
                             \/ SyncParents)

SmNext == BuildPlan \/ MoveCalls \/ Crash \/ Stranger \/ Again
SmSpec == SmInit /\ [][SmNext]_sm_vars

-----------------------------------------------------------------------------
(* Moving loses nothing and takes nothing over: every payload file is whole on *)
(* one side at every moment, a file someone else made in the destination is    *)
(* never replaced or removed, a finished move left nothing behind, a failed    *)
(* one whose rollback succeeded left every file where it was, and the resume   *)
(* file goes before the layout it describes.                                   *)
MoveIsSafe ==
  /\ \A f \in owned : \E s \in Sides : at[<<f, s>>] = "own"
  /\ \A p \in strangers : at[p] = "foreign"
  /\ moving = "done" => \A f \in owned : at[<<f, "src">>] # "own" /\ at[<<f, "dst">>] = "own"
  /\ moving = "failed" /\ stuck = {} /\ moves = 1 => \A f \in owned : at[<<f, "src">>] = "own"
  /\ resume => \A f \in owned : at[<<f, "src">>] = "own"
=============================================================================
