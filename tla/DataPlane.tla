------------------------------ MODULE DataPlane ------------------------------
(***************************************************************************)
(* The life of one torrent's download engine: the containment transitions, *)
(* the scheduler and the API operations that start and stop it             *)
(* (swarmotterd/src/daemon: containment.rs, seeding.rs, scheduler.rs,      *)
(* lifecycle.rs; bind reports of netbinder.rs).                            *)
(*                                                                         *)
(* Callers run the daemon's operations concurrently, one step per critical *)
(* section, with a stack for the operations they call.  Engines are the    *)
(* spawned tasks.  The gate is the atomic TrafficGate; of the generations  *)
(* only what cancelled_since compares is kept: whether an edge happened    *)
(* since the task was born (stale).  Operations on other torrents do not   *)
(* touch this torrent's record, handle or tasks; whether the queue gives   *)
(* it a slot is left open (ReconcilePlan).  tstate "Downloading" stands    *)
(* for DownloadingMetadata too, "Completed" for Seeding, "Error" for       *)
(* StorageError; the torrent's seeder is not part of this module.          *)
(***************************************************************************)
EXTENDS Naturals, Sequences

CONSTANTS Monitors,   \* background tasks: the health loop's ticks and the
                      \* spawned passes of reconcile_queue
          Users,      \* API callers of the torrent operations
          Admins,     \* API callers of replace_config
          Binders,    \* sockets whose bind may fail
          Paths,      \* the states of the required path: up, or up and down
          MaxEngines  \* engine tasks alive at a time

Callers == Monitors \cup Users \cup Admins
Engines == 1..MaxEngines
NoEngine == 0

ASSUME DataPlaneAssumption ==
  MaxEngines \in Nat /\ Paths \subseteq BOOLEAN /\ "free" \notin Callers

VARIABLES
  \* the containment state of DaemonRuntime
  path,       \* what the interface probe reports: the required path is up
  open,       \* the gate permits traffic
  health,     \* network_health.traffic_allowed
  latch,      \* bind_failure_latched is set
  reports,    \* a bind-failure report waits in health_report_rx
  binder,     \* binder[b]: "idle", "binding" past its guard, or "send"
  \* the torrent record: its state and containment_recovery_intent
  tstate, intent,
  handle,     \* its entry in engine_handles
  engine,     \* engine[e]: the task and what reached it
  lock,       \* the owner of data_plane_transition_lock, or "free"
  \* the callers
  pc, stack, mem

netVars == <<path, health, latch, reports, binder>>
recordVars == <<tstate, intent>>
callVars == <<pc, stack, mem>>
vars == <<path, open, health, latch, reports, binder, tstate, intent, handle,
          engine, lock, pc, stack, mem>>

\* "Removed": the registry has no record of the torrent any more.
TorrentStates == {"Queued", "Downloading", "Paused", "Completed",
                  "NetworkBlocked", "TrackerError", "Error", "Removed"}
Known == tstate # "Removed"

\* A task: its step; whether a gate edge happened since it captured the
\* generation; whether abort() was called on its handle; whether it was told
\* to stop (EngineCommand::Stop, and its storage work cancelled).
EngineTasks == [step : {"free", "gated", "running", "cancelled", "ending"},
                stale : BOOLEAN, aborted : BOOLEAN, stopping : BOOLEAN]
NoTask == [step |-> "free", stale |-> FALSE, aborted |-> FALSE,
           stopping |-> FALSE]
Live(e) == engine[e].step # "free"
Step(e, step) == engine' = [engine EXCEPT ![e].step = step]

\* allow() and block() of the atomic gate: an edge reaches every living task.
Edge(on) == [e \in Engines |-> [engine[e] EXCEPT
                                  !.stale = @ \/ (on /\ Live(e))]]
allow == open' = TRUE /\ engine' = Edge(~open)
block == open' = FALSE /\ engine' = Edge(TRUE)

-----------------------------------------------------------------------------
(* Control of a caller. *)
At(a, step) == pc[a] = step
Jump(a, step) == pc' = [pc EXCEPT ![a] = step] /\ UNCHANGED stack
Call(a, step, back) ==
  /\ pc' = [pc EXCEPT ![a] = step]
  /\ stack' = [stack EXCEPT ![a] = <<back>> \o @]
Return(a) ==
  /\ pc' = [pc EXCEPT ![a] = IF stack[a] = <<>> THEN "idle" ELSE Head(stack[a])]
  /\ stack' = [stack EXCEPT ![a] = IF @ = <<>> THEN @ ELSE Tail(@)]

\* What a caller holds in local variables across its awaits.
Fresh == [taken |-> NoEngine,    \* the JoinHandle it owns
          spawned |-> NoEngine,  \* the start channel it owns
          want |-> FALSE,        \* this torrent is in recovery_intents
          running |-> FALSE,     \* the torrent was in engine_handles
          down |-> FALSE,        \* the replacement's path is down
          fix |-> FALSE]         \* recovering_latched_failure
Remember(a, field, value) == mem' = [mem EXCEPT ![a][field] = value]

Init ==
  /\ path \in Paths
  /\ open = path /\ health = path
  /\ latch = FALSE /\ reports = FALSE
  /\ binder = [b \in Binders |-> "idle"]
  /\ tstate = "Queued" /\ intent = FALSE
  /\ handle = NoEngine
  /\ engine = [e \in Engines |-> NoTask]
  /\ lock = "free"
  /\ pc = [a \in Callers |-> "idle"]
  /\ stack = [a \in Callers |-> <<>>]
  /\ mem = [a \in Callers |-> Fresh]

-----------------------------------------------------------------------------
(* force_stop_engine: take the handle out of the map, abort and join.       *)
ForceStopTake(a) ==
  /\ At(a, "fs_take")
  /\ Remember(a, "taken", handle)
  /\ engine' = [e \in Engines |-> [engine[e] EXCEPT
                  !.aborted = @ \/ (e = handle /\ Live(e)),
                  !.stopping = @ \/ (e = handle /\ Live(e))]]
  /\ handle' = NoEngine
  /\ Jump(a, "join")
  /\ UNCHANGED <<open, netVars, recordVars, lock>>

\* handle.await
Ended(a) == mem[a].taken # NoEngine => ~Live(mem[a].taken)
Join(a) ==
  /\ pc[a] \in {"join", "se_wait"}
  /\ Ended(a)
  /\ Remember(a, "taken", NoEngine)
  /\ Return(a)
  /\ UNCHANGED <<open, netVars, recordVars, handle, engine, lock>>

(* stop_engine: take the handle out of the map, send Stop, wait up to five  *)
(* seconds for the task to end, then abort and join.                        *)
StopTake(a) ==
  /\ At(a, "se_take")
  /\ Remember(a, "taken", handle)
  /\ engine' = [e \in Engines |-> [engine[e] EXCEPT
                  !.stopping = @ \/ (e = handle /\ Live(e))]]
  /\ handle' = NoEngine
  /\ Jump(a, "se_wait")
  /\ UNCHANGED <<open, netVars, recordVars, lock>>

\* Mutant: the deadline passes and the task is joined without an abort.
StopTimesOut_WithoutAbort(a) ==
  /\ At(a, "se_wait")
  /\ ~Ended(a)
  /\ Jump(a, "join")
  /\ UNCHANGED <<open, netVars, recordVars, handle, engine, lock, mem>>

StopTimesOut(a) ==
  /\ At(a, "se_wait")
  /\ ~Ended(a)
  /\ engine' = [engine EXCEPT ![mem[a].taken].aborted = TRUE]
  /\ Jump(a, "join")
  /\ UNCHANGED <<open, netVars, recordVars, handle, lock, mem>>

-----------------------------------------------------------------------------
(* start_engine: under the transition lock, refuse when the network is      *)
(* blocked or a handle exists, spawn the task behind its start channel,     *)
(* re-read the record, and only then let the task run.                      *)
StartRefused(a) ==
  /\ At(a, "st_lock")
  /\ lock = "free"
  /\ ~health \/ handle # NoEngine \/ ~Known
  /\ tstate' = IF health \/ ~Known THEN tstate ELSE "NetworkBlocked"
  /\ Return(a)
  /\ UNCHANGED <<open, netVars, intent, handle, engine, lock, mem>>

\* Mutant: an engine is started without looking at the health.
StartLock_AnyHealth(a) ==
  /\ At(a, "st_lock")
  /\ lock = "free"
  /\ handle = NoEngine /\ Known
  /\ lock' = a
  /\ Jump(a, "st_spawn")
  /\ UNCHANGED <<open, netVars, recordVars, handle, engine, mem>>

StartLock(a) ==
  /\ At(a, "st_lock")
  /\ lock = "free"
  /\ health /\ handle = NoEngine /\ Known
  /\ lock' = a
  /\ Jump(a, "st_spawn")
  /\ UNCHANGED <<open, netVars, recordVars, handle, engine, mem>>

\* The storage preflight or the file layout is rejected.
StartRejected(a) ==
  /\ At(a, "st_spawn")
  /\ tstate' = IF Known THEN "Error" ELSE tstate
  /\ lock' = "free"
  /\ Return(a)
  /\ UNCHANGED <<open, netVars, intent, handle, engine, mem>>

\* The storage root has no room: the torrent stays in the queue.
StartDeferred(a) ==
  /\ At(a, "st_spawn")
  /\ tstate' = IF tstate = "Downloading" THEN "Queued" ELSE tstate
  /\ lock' = "free"
  /\ Return(a)
  /\ UNCHANGED <<open, netVars, intent, handle, engine, mem>>

\* Task identities are interchangeable: the lowest free one is used.
Unused(e) == ~Live(e) /\ \A b \in Callers :
                           e \notin {mem[b].taken, mem[b].spawned}
StartSpawn(a) ==
  /\ At(a, "st_spawn")
  /\ \E e \in Engines :
       /\ Unused(e) /\ \A f \in 1..e-1 : ~Unused(f)
       /\ engine' = [engine EXCEPT ![e] = [NoTask EXCEPT !.step = "gated"]]
       /\ handle' = e
       /\ Remember(a, "spawned", e)
  /\ Jump(a, "st_check")
  /\ UNCHANGED <<open, netVars, recordVars, lock>>

StartCheck(a) ==
  /\ At(a, "st_check")
  /\ IF tstate \in {"Queued", "Downloading"}
       THEN Jump(a, "st_go")
       ELSE Call(a, "fs_take", "st_unlock")
  /\ UNCHANGED <<open, netVars, recordVars, handle, engine, lock,
                 mem>>

StartUnlock(a) ==
  /\ At(a, "st_unlock")
  /\ lock' = "free"
  /\ Remember(a, "spawned", NoEngine)
  /\ Return(a)
  /\ UNCHANGED <<open, netVars, recordVars, handle, engine>>

StartGo(a) ==
  /\ At(a, "st_go")
  /\ LET e == mem[a].spawned
         marks == tstate \in {"Queued", "NetworkBlocked"} IN
       /\ tstate' = IF marks THEN "Downloading" ELSE tstate
       /\ intent' = (intent /\ ~marks)
       /\ Step(e, IF engine[e].step = "gated" THEN "running"
                  ELSE engine[e].step)
  /\ Remember(a, "spawned", NoEngine)
  /\ lock' = "free"
  /\ Return(a)
  /\ UNCHANGED <<open, netVars, handle>>

-----------------------------------------------------------------------------
(* The spawned task.  An aborted task ends at its next await, and may run   *)
(* further sections before it.                                              *)
EngineDies(e) ==
  /\ Live(e)
  /\ engine[e].aborted
  /\ engine' = [engine EXCEPT ![e] = NoTask]
  /\ UNCHANGED <<open, netVars, recordVars, handle, lock, callVars>>

\* The starter returned without using the start channel.
EngineUnstarted(e) ==
  /\ engine[e].step = "gated"
  /\ \A a \in Callers : mem[a].spawned # e
  /\ Step(e, "cancelled")
  /\ UNCHANGED <<open, netVars, recordVars, handle, lock, callVars>>

\* The cancelled_since branch of the task's select.
record_engine_containment_cancellation(e) ==
  /\ engine[e].step = "running"
  /\ engine[e].stale
  /\ intent' = (intent \/ tstate \in {"Downloading", "Queued"})
  /\ Step(e, "cancelled")
  /\ UNCHANGED <<open, netVars, tstate, handle, lock, callVars>>

\* engine.run() returned: the record is updated by how it ended.  It finished,
\* every tracker rejected it for good, or it stopped on command:
EngineFinished(e) ==
  /\ engine[e].step = "running"
  /\ \/ \E s \in {"Completed", "TrackerError"} :
          tstate' = IF Known THEN s ELSE tstate
     \/ engine[e].stopping /\ UNCHANGED tstate
  /\ Step(e, "ending")
  /\ UNCHANGED <<open, netVars, intent, handle, lock, callVars>>

\* it ran out of peers;
queue_torrent_for_retry(e) ==
  /\ engine[e].step = "running"
  /\ tstate' = IF tstate \in {"Downloading", "Queued"} THEN "Queued" ELSE tstate
  /\ Step(e, "ending")
  /\ UNCHANGED <<open, netVars, intent, handle, lock, callVars>>

\* it failed, and its storage work was not cancelled by a stop.
handle_engine_task_error(e) ==
  /\ engine[e].step = "running"
  /\ \E s \in {"NetworkBlocked", "Error"} :
       tstate' = IF Known /\ ~engine[e].stopping THEN s ELSE tstate
  /\ Step(e, "ending")
  /\ UNCHANGED <<open, netVars, intent, handle, lock, callVars>>

\* engine_task_finished removes whatever handle the torrent has now.
engine_task_finished(e) ==
  /\ engine[e].step \in {"ending", "cancelled"}
  /\ handle' = NoEngine
  /\ engine' = [engine EXCEPT ![e] = NoTask]
  /\ UNCHANGED <<open, netVars, recordVars, lock, callVars>>

EngineStep(e) ==
  \/ EngineDies(e) \/ EngineUnstarted(e)
  \/ record_engine_containment_cancellation(e) \/ engine_task_finished(e)

EngineReturns(e) ==
  \/ EngineFinished(e) \/ queue_torrent_for_retry(e)
  \/ handle_engine_task_error(e)

-----------------------------------------------------------------------------
(* reconcile_engine_progress_with_seeders: the record follows the published *)
(* engine state, unless it is paused or in error.  An engine publishes that *)
(* it finished before it returns.                                           *)
Progressed(running) ==
  IF tstate \notin {"Queued", "Downloading"} THEN {tstate}
  ELSE {IF running THEN "Downloading" ELSE tstate} \cup
       {s \in {"Completed"} : \E e \in Engines : engine[e].step = "running"}

\* The handles first, then the registry; a torrent waiting for its retry does
\* not count as running.
ProgressKeys(a) ==
  /\ At(a, "rp_keys")
  /\ \E suppressed \in BOOLEAN :
       /\ suppressed => handle # NoEngine /\ engine[handle].step = "ending"
       /\ Remember(a, "running", handle # NoEngine /\ ~suppressed)
  /\ Jump(a, "rp_apply")
  /\ UNCHANGED <<open, netVars, recordVars, handle, engine, lock>>

ProgressApply(a) ==
  /\ At(a, "rp_apply")
  /\ tstate' \in Progressed(mem[a].running)
  /\ Remember(a, "running", FALSE)
  /\ Return(a)
  /\ UNCHANGED <<open, netVars, intent, handle, engine, lock>>

-----------------------------------------------------------------------------
(* transition_data_plane_to_blocked, under the transition lock.             *)
BlockLock(a) ==
  /\ At(a, "blk_lock")
  /\ lock = "free"
  /\ lock' = a
  /\ block
  /\ Jump(a, "blk_intents")
  /\ UNCHANGED <<netVars, recordVars, handle, mem>>

\* live_containment_recovery_intents: what was demonstrably live.
live_containment_recovery_intents ==
  Known /\ (intent \/ (handle # NoEngine /\ Live(handle)))
BlockIntents(a) ==
  /\ At(a, "blk_intents")
  /\ Remember(a, "want", live_containment_recovery_intents)
  /\ Jump(a, "blk_take")
  /\ UNCHANGED <<open, netVars, recordVars, handle, engine, lock>>

\* abort_data_plane_tasks_for_containment takes every handle ...
BlockTake(a) ==
  /\ At(a, "blk_take")
  /\ Remember(a, "taken", handle)
  /\ handle' = NoEngine
  /\ Jump(a, "blk_abort")
  /\ UNCHANGED <<open, netVars, recordVars, engine, lock>>

\* ... aborts the tasks, marks the records, and awaits the tasks;
BlockAbort(a) ==
  /\ At(a, "blk_abort")
  /\ engine' = [e \in Engines |-> [engine[e] EXCEPT
                  !.aborted = @ \/ (e = mem[a].taken /\ Live(e))]]
  /\ LET marked == Known /\ mem[a].want IN
       /\ intent' = (intent \/ marked)
       /\ \E s \in Progressed(FALSE) :
            tstate' = IF marked \/ (~intent /\ s = "Downloading")
                        THEN "NetworkBlocked" ELSE s
  /\ Remember(a, "want", FALSE)
  /\ Call(a, "join", "blk_health")
  /\ UNCHANGED <<open, netVars, handle, lock>>

\* the health is updated last.
BlockHealth(a) ==
  /\ At(a, "blk_health")
  /\ health' = FALSE
  /\ lock' = "free"
  /\ Return(a)
  /\ UNCHANGED <<open, path, latch, reports, binder, recordVars, handle,
                 engine, mem>>

(* recover_containment_work.                                                *)
RecoverLock(a) ==
  /\ At(a, "rec_lock")
  /\ lock = "free"
  /\ lock' = a
  /\ health' = TRUE
  /\ allow
  /\ Jump(a, "rec_consume")
  /\ UNCHANGED <<path, latch, reports, binder, recordVars, handle,
                 mem>>

RecoverConsume(a) ==
  /\ At(a, "rec_consume")
  /\ LET consumed == Known /\ intent IN
       /\ intent' = (intent /\ ~consumed)
       /\ tstate' = IF consumed THEN "Queued" ELSE tstate
       /\ IF consumed THEN Jump(a, "st_lock") ELSE Return(a)
  /\ lock' = "free"
  /\ UNCHANGED <<open, netVars, handle, engine, mem>>

-----------------------------------------------------------------------------
(* network_health_tick: the health loop calls it again and again. *)
TickDrain(a) ==
  /\ At(a, "tick") \/ (a \in Monitors /\ At(a, "idle"))
  /\ reports' = FALSE
  /\ Jump(a, IF reports THEN "tick_latch" ELSE "tick_eval")
  /\ UNCHANGED <<open, path, health, latch, binder, recordVars, handle, engine, lock, mem>>

TickLatch(a) ==
  /\ At(a, "tick_latch")
  /\ latch' = TRUE
  /\ Jump(a, "blk_lock")
  /\ UNCHANGED <<open, path, health, reports, binder, recordVars, handle,
                 engine, lock, mem>>

TickLatched(a) ==
  /\ At(a, "tick_eval")
  /\ latch
  /\ IF open THEN block ELSE UNCHANGED <<open, engine>>
  /\ health' = FALSE
  /\ Return(a)
  /\ UNCHANGED <<path, latch, reports, binder, recordVars, handle,
                 lock, mem>>

\* When all is down already, only another reason than the last one leads to
\* another transition.
TickDown(a) ==
  /\ At(a, "tick_eval")
  /\ ~latch /\ ~path
  /\ Jump(a, "blk_lock") \/ (~health /\ ~open /\ Return(a))
  /\ UNCHANGED <<open, netVars, recordVars, handle, engine, lock,
                 mem>>

\* Mutant: a healthy probe overrides the latch.
TickUp_IgnoresLatch(a) ==
  /\ At(a, "tick_eval")
  /\ path
  /\ Jump(a, IF health THEN "tick_health" ELSE "rec_lock")
  /\ UNCHANGED <<open, netVars, recordVars, handle, engine, lock,
                 mem>>

\* Mutant: the unhealthy-to-healthy edge is not acted on.
TickUp_NoRecovery(a) ==
  /\ At(a, "tick_eval")
  /\ ~latch /\ path
  /\ IF health THEN Jump(a, "tick_health") ELSE Return(a)
  /\ UNCHANGED <<open, netVars, recordVars, handle, engine, lock,
                 mem>>

TickUp(a) ==
  /\ At(a, "tick_eval")
  /\ ~latch /\ path
  /\ Jump(a, IF health THEN "tick_health" ELSE "rec_lock")
  /\ UNCHANGED <<open, netVars, recordVars, handle, engine, lock,
                 mem>>

TickHealth(a) ==
  /\ At(a, "tick_health")
  /\ health' = TRUE
  /\ Jump(a, "tick_allow")
  /\ UNCHANGED <<open, path, latch, reports, binder, recordVars, handle,
                 engine, lock, mem>>

TickAllow(a) ==
  /\ At(a, "tick_allow")
  /\ allow
  /\ Call(a, "rp_keys", "rq_sweep")
  /\ UNCHANGED <<netVars, recordVars, handle, lock, mem>>

TickStep(a) ==
  \/ TickDrain(a) \/ TickLatch(a) \/ TickLatched(a) \/ TickDown(a) \/ TickUp(a)
  \/ TickHealth(a) \/ TickAllow(a)

-----------------------------------------------------------------------------
(* reconcile_queue. *)

\* Mutant: a handle without a record is passed over.
ReconcileInactive_KnownOnly(a) ==
  /\ At(a, "rq_sweep")
  /\ IF handle # NoEngine /\ Known /\ tstate # "Downloading"
       THEN Call(a, "fs_take", "rq_keys")
       ELSE Jump(a, "rq_keys")
  /\ UNCHANGED <<open, netVars, recordVars, handle, engine, lock,
                 mem>>

\* sweep_inactive_engine_handles: a handle of a torrent that is not active.
ReconcileInactive(a) ==
  /\ At(a, "rq_sweep")
  /\ IF handle # NoEngine /\ tstate # "Downloading"
       THEN Call(a, "fs_take", "rq_keys")
       ELSE Jump(a, "rq_keys")
  /\ UNCHANGED <<open, netVars, recordVars, handle, engine, lock,
                 mem>>

\* sweep_stale_active_torrents: the handles first, then the registry.
ReconcileKeys(a) ==
  /\ At(a, "rq_keys")
  /\ Remember(a, "running", handle # NoEngine)
  /\ Jump(a, "rq_stale")
  /\ UNCHANGED <<open, netVars, recordVars, handle, engine, lock>>

\* Mutant: an active torrent without an engine is left as it is.
ReconcileStale_Skipped(a) ==
  /\ At(a, "rq_stale")
  /\ UNCHANGED tstate
  /\ Remember(a, "running", FALSE)
  /\ Jump(a, "rq_plan")
  /\ UNCHANGED <<open, netVars, intent, handle, engine, lock>>

ReconcileStale(a) ==
  /\ At(a, "rq_stale")
  /\ tstate' = IF tstate = "Downloading" /\ ~mem[a].running THEN "Queued"
               ELSE tstate
  /\ Remember(a, "running", FALSE)
  /\ Jump(a, "rq_plan")
  /\ UNCHANGED <<open, netVars, intent, handle, engine, lock>>

\* desired_download_hashes: eligible, and what the slots, the retry delay and
\* the storage budgets leave for it; then the loop that starts it, or the one
\* that stops it when it is among active_download_hashes.
ReconcilePlan(a) ==
  /\ At(a, "rq_plan")
  /\ \E granted \in BOOLEAN :
       Jump(a, IF granted /\ tstate \in {"Queued", "Downloading"}
                 THEN "st_lock" ELSE "rq_current")
  /\ UNCHANGED <<open, netVars, recordVars, handle, engine, lock,
                 mem>>

ReconcileCurrent(a) ==
  /\ At(a, "rq_current")
  /\ IF handle # NoEngine /\ tstate = "Downloading"
       THEN Call(a, "fs_take", "rq_requeue")
       ELSE Return(a)
  /\ UNCHANGED <<open, netVars, recordVars, handle, engine, lock,
                 mem>>

ReconcileRequeue(a) ==
  /\ At(a, "rq_requeue")
  /\ tstate' = IF Known /\ tstate \notin {"Paused", "Completed"} THEN "Queued"
               ELSE tstate
  /\ Return(a)
  /\ UNCHANGED <<open, netVars, intent, handle, engine, lock, mem>>

ReconcileStep(a) ==
  \/ ReconcileInactive(a) \/ ReconcileKeys(a) \/ ReconcileStale(a)
  \/ ReconcilePlan(a) \/ ReconcileCurrent(a) \/ ReconcileRequeue(a)

-----------------------------------------------------------------------------
(* The API operations on the torrent. *)

\* pause (and stop): stop_engine, then the record, then a reconcile pass.
PauseBegin(a) ==
  /\ At(a, "idle") /\ Known
  /\ Call(a, "se_take", "pa_mark")
  /\ UNCHANGED <<open, netVars, recordVars, handle, engine, lock,
                 mem>>

\* Mutant: pause leaves the recovery intent in the record.
PauseMark_KeepsIntent(a) ==
  /\ At(a, "pa_mark")
  /\ tstate' = IF Known THEN "Paused" ELSE tstate
  /\ UNCHANGED intent
  /\ IF Known THEN Jump(a, "rq_sweep") ELSE Return(a)
  /\ UNCHANGED <<open, netVars, handle, engine, lock, mem>>

PauseMark(a) ==
  /\ At(a, "pa_mark")
  /\ tstate' = IF Known THEN "Paused" ELSE tstate
  /\ intent' = (intent /\ ~Known)
  /\ IF Known THEN Jump(a, "rq_sweep") ELSE Return(a)
  /\ UNCHANGED <<open, netVars, handle, engine, lock, mem>>

\* resume, by whether every wanted piece is there; start_now resumes a paused
\* complete torrent too.
resume(a) ==
  /\ At(a, "idle") /\ Known
  /\ intent' = FALSE
  /\ tstate' \in {"Completed", "Queued"}
  /\ Jump(a, "rq_sweep")
  /\ UNCHANGED <<open, netVars, handle, engine, lock, mem>>

start_now(a) ==
  /\ At(a, "idle") /\ Known
  /\ intent' = FALSE
  /\ tstate' = IF tstate = "TrackerError" THEN "Queued" ELSE tstate
  /\ Jump(a, "rq_sweep")
  /\ UNCHANGED <<open, netVars, handle, engine, lock, mem>>

\* set_wanted and set_priority restart an engine: stop_engine, then Queued,
\* then a reconcile pass (restart_engine_for_settings).
set_wanted(a) ==
  /\ At(a, "idle")
  /\ tstate \in {"Downloading", "Completed"}
  /\ Call(a, "se_take", "rs_queue")
  /\ UNCHANGED <<open, netVars, recordVars, handle, engine, lock,
                 mem>>

RestartQueue(a) ==
  /\ At(a, "rs_queue")
  /\ tstate' = IF Known THEN "Queued" ELSE tstate
  /\ IF Known THEN Jump(a, "rq_sweep") ELSE Return(a)
  /\ UNCHANGED <<open, netVars, intent, handle, engine, lock, mem>>

\* remove_torrents_with_single_reconcile: stop, delete the data when asked
\* (which may fail), drop the record, reconcile.
RemoveBegin(a) ==
  /\ At(a, "idle") /\ Known
  /\ Call(a, "fs_take", "rm_drop")
  /\ UNCHANGED <<open, netVars, recordVars, handle, engine, lock,
                 mem>>

RemoveFails(a) ==
  /\ At(a, "rm_drop")
  /\ tstate' = IF Known THEN "Error" ELSE tstate
  /\ Return(a)
  /\ UNCHANGED <<open, netVars, intent, handle, engine, lock, mem>>

\* When the full save fails the removal returns without its queue pass.
RemoveDrop(a) ==
  /\ At(a, "rm_drop")
  /\ tstate' = "Removed"
  /\ intent' = FALSE
  /\ Jump(a, "rq_sweep") \/ Return(a)
  /\ UNCHANGED <<open, netVars, handle, engine, lock, mem>>

UserBegin(a) ==
  PauseBegin(a) \/ resume(a) \/ start_now(a) \/ set_wanted(a) \/ RemoveBegin(a)
UserStep(a) ==
  PauseMark(a) \/ RestartQueue(a) \/ RemoveFails(a) \/ RemoveDrop(a)

-----------------------------------------------------------------------------
(* replace_config, under config_write_lock.  The replacement may choose     *)
(* another path, so whether that one is down is the replacement's own.      *)
ReplaceBegin(a) ==
  /\ At(a, "idle")
  /\ \A b \in Admins : At(b, "idle")
  /\ IF open THEN Jump(a, "rc_eval") ELSE Call(a, "tick", "rc_eval")
  /\ UNCHANGED <<open, netVars, recordVars, handle, engine, lock,
                 mem>>

ReplaceInvalid(a) ==
  /\ At(a, "rc_eval")
  /\ Return(a)
  /\ UNCHANGED <<open, netVars, recordVars, handle, engine, lock,
                 mem>>

ReplaceValid(a) ==
  /\ At(a, "rc_eval")
  /\ \E down \in BOOLEAN, rebuild \in BOOLEAN :
       /\ mem' = [mem EXCEPT ![a].down = rebuild /\ down, ![a].fix = latch]
       /\ Jump(a, IF rebuild THEN "rc_lock" ELSE "rc_clear")
  /\ UNCHANGED <<open, netVars, recordVars, handle, engine, lock>>

ReplaceLock(a) ==
  /\ At(a, "rc_lock")
  /\ lock = "free"
  /\ lock' = a
  /\ Call(a, "rp_keys", "rc_intents")
  /\ UNCHANGED <<open, netVars, recordVars, handle, engine, mem>>

ReplaceIntents(a) ==
  /\ At(a, "rc_intents")
  /\ Remember(a, "want", mem[a].down /\ live_containment_recovery_intents)
  /\ Jump(a, "rc_block")
  /\ UNCHANGED <<open, netVars, recordVars, handle, engine, lock>>

ReplaceBlock(a) ==
  /\ At(a, "rc_block")
  /\ IF mem[a].down THEN block ELSE UNCHANGED <<open, engine>>
  /\ Call(a, "fs_take", "rc_mark")
  /\ UNCHANGED <<netVars, recordVars, handle, lock, mem>>

ReplaceMark(a) ==
  /\ At(a, "rc_mark")
  /\ LET marked == Known /\ mem[a].want IN
       /\ intent' = (intent \/ marked)
       /\ tstate' = IF marked THEN "NetworkBlocked" ELSE tstate
  /\ mem' = [mem EXCEPT ![a].want = FALSE, ![a].down = FALSE]
  /\ lock' = "free"
  /\ Jump(a, "rc_clear")
  /\ UNCHANGED <<open, netVars, handle, engine>>

ReplaceClear(a) ==
  /\ At(a, "rc_clear")
  /\ latch' = (latch /\ ~mem[a].fix)
  /\ Remember(a, "fix", FALSE)
  /\ Jump(a, IF mem[a].fix THEN "rc_reeval" ELSE "rc_apply")
  /\ UNCHANGED <<open, path, health, reports, binder, recordVars, handle,
                 engine, lock>>

ReplaceRecover(a) ==
  /\ At(a, "rc_reeval")
  /\ Call(a, IF path THEN "rec_lock" ELSE "blk_lock", "rc_apply")
  /\ UNCHANGED <<open, netVars, recordVars, handle, engine, lock,
                 mem>>

\* apply_runtime_config_fields: a health tick, then a scheduled pass.
ReplaceApply(a) ==
  /\ At(a, "rc_apply")
  /\ Jump(a, "tick")
  /\ UNCHANGED <<open, netVars, recordVars, handle, engine, lock,
                 mem>>

ReplaceStep(a) ==
  \/ ReplaceInvalid(a) \/ ReplaceValid(a) \/ ReplaceLock(a)
  \/ ReplaceIntents(a) \/ ReplaceBlock(a) \/ ReplaceMark(a) \/ ReplaceClear(a)
  \/ ReplaceRecover(a) \/ ReplaceApply(a)

-----------------------------------------------------------------------------
(* A binder past its guard whose bind fails: block, then report. *)
BindGuard(b) ==
  /\ binder[b] = "idle"
  /\ open
  /\ binder' = [binder EXCEPT ![b] = "binding"]
  /\ UNCHANGED <<open, path, health, latch, reports, recordVars, handle,
                 engine, lock, callVars>>

BindOk(b) ==
  /\ binder[b] = "binding"
  /\ binder' = [binder EXCEPT ![b] = "idle"]
  /\ UNCHANGED <<open, path, health, latch, reports, recordVars, handle,
                 engine, lock, callVars>>

BindBlock(b) ==
  /\ binder[b] = "binding"
  /\ block
  /\ binder' = [binder EXCEPT ![b] = "send"]
  /\ UNCHANGED <<path, health, latch, reports, recordVars, handle,
                 lock, callVars>>

BindSend(b) ==
  /\ binder[b] = "send"
  /\ reports' = TRUE
  /\ binder' = [binder EXCEPT ![b] = "idle"]
  /\ UNCHANGED <<open, path, health, latch, recordVars, handle, engine, lock, callVars>>

\* The interface or its address comes and goes.
PathChanges ==
  /\ path' \in Paths \ {path}
  /\ UNCHANGED <<open, health, latch, reports, binder, recordVars, handle,
                 engine, lock, callVars>>

\* run_scheduled_reconcile_queue: some torrent's engine, or a configuration
\* change, has scheduled a pass (Scheduler models the scheduling).
ScheduledBegin(a) ==
  /\ At(a, "idle")
  /\ Jump(a, "rq_sweep")
  /\ UNCHANGED <<open, netVars, recordVars, handle, engine, lock, mem>>

-----------------------------------------------------------------------------
LockStep(a) ==
  \/ StartLock(a) \/ StartRefused(a) \/ BlockLock(a) \/ RecoverLock(a)
  \/ ReplaceLock(a)

CallerStep(a) ==
  \/ ForceStopTake(a) \/ Join(a) \/ StopTake(a) \/ StopTimesOut(a)
  \/ StartRejected(a) \/ StartDeferred(a) \/ StartSpawn(a) \/ StartCheck(a) \/ StartUnlock(a)
  \/ StartGo(a) \/ ProgressKeys(a) \/ ProgressApply(a)
  \/ BlockIntents(a) \/ BlockTake(a) \/ BlockAbort(a) \/ BlockHealth(a)
  \/ RecoverConsume(a) \/ TickStep(a) \/ ReconcileStep(a) \/ UserStep(a)
  \/ ReplaceStep(a) \/ LockStep(a)

BinderStep(b) == BindOk(b) \/ BindBlock(b) \/ BindSend(b)

Next ==
  \/ \E a \in Callers : CallerStep(a)
  \/ \E a \in Monitors : ScheduledBegin(a)
  \/ \E a \in Users : UserBegin(a)
  \/ \E a \in Admins : ReplaceBegin(a)
  \/ \E e \in Engines : EngineStep(e) \/ EngineReturns(e)
  \/ \E b \in Binders : BindGuard(b) \/ BinderStep(b)
  \/ PathChanges

(* The health loop always runs on and a poll that can make progress is      *)
(* made.  tokio's mutexes serve their waiters in order, hence strong        *)
(* fairness where the transition lock is taken.  Nothing makes users call,  *)
(* a running engine return or the path change.                              *)
Fairness ==
  /\ \A a \in Callers : WF_vars(CallerStep(a)) /\ SF_vars(LockStep(a))
  /\ \A a \in Monitors : SF_vars(TickDrain(a))
  /\ \A e \in Engines : WF_vars(EngineStep(e))
  /\ \A b \in Binders : WF_vars(BinderStep(b))

Spec == Init /\ [][Next]_vars
FairSpec == Spec /\ Fairness

-----------------------------------------------------------------------------
(* The variables range over what the code can store, and the owner of the   *)
(* transition lock, and nobody else, is between taking and dropping it.     *)
LockedSteps == {"blk_intents", "blk_take", "blk_abort", "blk_health",
                "rec_consume", "st_spawn", "st_check", "st_go", "st_unlock",
                "rc_intents", "rc_block", "rc_mark"}
InLock(a) == pc[a] \in LockedSteps
             \/ \E i \in DOMAIN stack[a] : stack[a][i] \in LockedSteps
TypeOK ==
  /\ {path, open, health, latch, reports, intent} \subseteq BOOLEAN
  /\ binder \in [Binders -> {"idle", "binding", "send"}]
  /\ tstate \in TorrentStates
  /\ handle \in Engines \cup {NoEngine}
  /\ engine \in [Engines -> EngineTasks]
  /\ lock \in Callers \cup {"free"}
  /\ \A a \in Callers :
       /\ {mem[a].taken, mem[a].spawned} \subseteq Engines \cup {NoEngine}
       /\ InLock(a) <=> lock = a

(* A paused torrent carries no recovery intent, whatever cancellations and  *)
(* transitions race the pause: a path that comes back does not start it     *)
(* (recover_containment_work starts exactly the intents).                   *)
PausedHasNoIntent == tstate = "Paused" => ~intent

(* Every API operation ends: the transition lock, the joins of engine tasks *)
(* and the start channels never wait for each other forever.                *)
OperationsTerminate ==
  \A a \in Users : pc[a] # "idle" ~> pc[a] = "idle"

(* When the required path is lost for good the gate ends up closed and      *)
(* every engine task ends, whatever ticks, starts and recoveries were under *)
(* way (network_health_tick, transition_data_plane_to_blocked).             *)
FailsClosed ==
  <>[]~path => <>[](~open /\ \A e \in Engines : ~Live(e))

(* When the path stays up, no bind failure is pending or latched and no     *)
(* replacement is under way, the health and the gate end up open together   *)
(* and stay so: no tick or transition that was under way closes them again, *)
(* or one without the other (recover_containment_work, the last branch of   *)
(* the tick).                                                               *)
Replacing(a) ==
  LET steps == {"rc_eval", "rc_lock", "rc_intents", "rc_block", "rc_mark",
                "rc_clear", "rc_reeval", "rc_apply"} IN
  pc[a] \in steps \/ \E i \in DOMAIN stack[a] : stack[a][i] \in steps
Quiet ==
  /\ path /\ ~latch /\ ~reports
  /\ \A b \in Binders : binder[b] # "send"
  /\ \A a \in Admins : ~Replacing(a)
RecoveryHappens == <>[]Quiet => <>[](health /\ open)

(* An active torrent without an engine is noticed and leaves that state     *)
(* (sweep_stale_active_torrents), whatever removed the handle.              *)
StaleActiveRecovers ==
  (tstate = "Downloading" /\ handle = NoEngine)
    ~> (tstate # "Downloading" \/ handle # NoEngine)

(* A removed torrent does not keep an engine in engine_handles, even when   *)
(* a start was under way while it was removed.                              *)
RemovedIsReleased == tstate = "Removed" ~> [](handle = NoEngine)

(* Once the operations under way are over, a latched bind failure has left  *)
(* the gate closed and the health down: a replacement that failed, or that  *)
(* met a new failure, did not reopen traffic (replace_config, the latch of  *)
(* network_health_tick; ticks that do not overlap).                         *)
LatchedIsClosed ==
  latch /\ (\A a \in Callers : At(a, "idle")) => ~open /\ ~health

(* What netbinder.rs says of a bind failure: while its report waits, no     *)
(* operation can slip through the gate.                                     *)
ReportedIsClosed == reports => ~open

(* What ADR-0051 says of a paused torrent: it has no intent and remains     *)
(* stopped, so no step gives it one.                                        *)
PauseHolds == [][tstate = "Paused" => ~intent']_vars
-----------------------------------------------------------------------------
(* What the configurations check of these, together. *)

(* A paused torrent carries no recovery intent, so a path that comes back   *)
(* does not start it; and the transition lock is held by exactly the caller *)
(* that is between taking and dropping it, at every depth of the calls.     *)
PausedIsQuiet == TypeOK /\ PausedHasNoIntent

(* An active torrent without an engine is noticed, and a removed torrent    *)
(* does not keep one, even when a start was under way while it was removed. *)
EnginesFollowTorrents == StaleActiveRecovers /\ RemovedIsReleased

(* A path that is lost for good ends with a closed gate and no engine task; *)
(* one that stays up ends with the gate and the health open together,       *)
(* whatever ticks, starts, recoveries and reports were under way.           *)
GateFollowsPath == FailsClosed /\ RecoveryHappens
=============================================================================
