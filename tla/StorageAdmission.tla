-------------------------- MODULE StorageAdmission --------------------------
(***************************************************************************)
(* The budgets of one storage root that has a root control,                *)
(* crates/swarmotterd/src/daemon/storage_controls.rs and its callers.      *)
(*                                                                         *)
(* An engine reserves its declared bytes before it is spawned, a magnet's  *)
(* engine none at first and its real size once the metadata is known, and  *)
(* for that it may have to wait in reserve_resolved_magnet_metadata.  A    *)
(* full recheck holds one of the root's permits.  Both waits are loops:    *)
(* read the root control from the configuration, subscribe to the          *)
(* notifications of the controller, test, sleep until notified.            *)
(*                                                                         *)
(* One engine task exists per torrent here; DataPlane has the races of     *)
(* stopping and starting.  Engines and rechecks share nothing but the      *)
(* configuration, so a behaviour has the ones or the others: those that it *)
(* has not are "off".                                                      *)
(***************************************************************************)
EXTENDS Naturals, FiniteSetsExt

CONSTANTS
  Torrents, Magnets,    \* whose active directory is under the root
  Size,                 \* declared bytes by torrent
  Placeholder,          \* the declared length of an unresolved magnet's record
  Rechecks,             \* callers of run_root_scoped_recheck
  Controls              \* the root controls the configuration may hold

ASSUME AdmissionAssumption ==
  /\ IsFiniteSet(Torrents) /\ Magnets \subseteq Torrents
  /\ Size \in [Torrents -> Nat] /\ Placeholder \in Nat
  /\ IsFiniteSet(Rechecks)
  /\ Controls \subseteq [max_active_downloads : Nat, max_active_bytes : Nat,
                         max_concurrent_rechecks : Nat]
  /\ Controls # {}

VARIABLES
  config,               \* the root control now in the configuration
  reservations,         \* declared bytes by torrent that has a reservation
  pc, seen,             \* of each engine: its step, and the control it read
  cancelled,            \* the engines whose storage work is cancelled
  notified,             \* the subscribers that a notification reached
  active,               \* full rechecks that hold a permit
  rpc, rseen, rnotified \* the same of the rechecks

vars == <<config, reservations, pc, seen, cancelled, notified, active, rpc, rseen, rnotified>>

engines == <<reservations, pc, seen, cancelled, notified>>
rechecks == <<active, rpc, rseen, rnotified>>

Waits == {"read", "subscribe", "reserve", "refused", "wait"}
Subscribed == {"reserve", "refused", "wait"}

Init ==
  /\ config \in Controls
  /\ reservations = [t \in {} |-> 0]
  /\ \/ pc = [t \in Torrents |-> "idle"] /\ rpc = [r \in Rechecks |-> "off"]
     \/ pc = [t \in Torrents |-> "off"] /\ rpc = [r \in Rechecks |-> "idle"]
  /\ seen = [t \in Torrents |-> config]
  /\ cancelled = {} /\ notified = {}
  /\ active = 0
  /\ rseen = [r \in Rechecks |-> config]
  /\ rnotified = {}

-----------------------------------------------------------------------------
(***************************************************************************)
(* The controller.                                                         *)
(***************************************************************************)
Others(t) == DOMAIN reservations \ {t}
Total(bytes, S) == MapThenSumSet(LAMBDA u : bytes[u], S)
OthersBytes(t) == Total(reservations, Others(t))

\* admit_reservation with a count that stops one too late.
admit_reservation_OneMore(t, control, bytes) ==
  /\ control.max_active_downloads > 0 =>
       Cardinality(Others(t)) <= control.max_active_downloads
  /\ control.max_active_bytes > 0 => OthersBytes(t) + bytes <= control.max_active_bytes

\* Whether admit_reservation lets t reserve `bytes'.
admit_reservation(t, control, bytes) ==
  /\ control.max_active_downloads > 0 =>
       Cardinality(Others(t)) < control.max_active_downloads
  /\ control.max_active_bytes > 0 => OthersBytes(t) + bytes <= control.max_active_bytes

declared_bytes_can_fit(control, bytes) ==
  control.max_active_bytes > 0 => bytes <= control.max_active_bytes

Inserted(t, bytes) ==
  [u \in DOMAIN reservations \cup {t} |-> IF u = t THEN bytes ELSE reservations[u]]

\* A notification that reaches only those who already sleep.
Notified_Sleepers == notified \cup {t \in Torrents : pc[t] = "wait"}

\* notify_waiters reaches whoever has subscribed, asleep or not.
Notified == notified \cup {t \in Torrents : pc[t] \in Subscribed}

\* release: those who wait hear of it if there was a reservation.
Release(t) ==
  /\ reservations' = [u \in Others(t) |-> reservations[u]]
  /\ notified' = (IF t \in DOMAIN reservations THEN Notified ELSE notified) \ {t}

-----------------------------------------------------------------------------
(***************************************************************************)
(* Engines.                                                                *)
(***************************************************************************)
Goto(t, step) == pc' = [pc EXCEPT ![t] = step]

\* Nobody starts an engine: data_plane_transition_lock is held from the read of
\* the control to the reservation, and by a replacement of root controls.
TransitionFree == \A t \in Torrents : pc[t] # "start"

\* start_engine reads the control and then reserves with it.
StartRead(t) ==
  /\ pc[t] = "idle" /\ TransitionFree
  /\ seen' = [seen EXCEPT ![t] = config]
  /\ Goto(t, "start")
  /\ UNCHANGED <<config, reservations, cancelled, notified, rechecks>>

\* A refused start leaves the torrent queued.  An unresolved magnet declares
\* no bytes yet.
StartReserve(t) ==
  LET bytes == IF t \in Magnets THEN 0 ELSE Size[t] IN
  /\ pc[t] = "start"
  /\ IF admit_reservation(t, seen[t], bytes)
     THEN /\ reservations' = Inserted(t, bytes)
          /\ Goto(t, IF t \in Magnets THEN "fetching" ELSE "running")
     ELSE Goto(t, "idle") /\ UNCHANGED reservations
  /\ UNCHANGED <<config, seen, cancelled, notified, rechecks>>

\* The metadata is there: the engine enters reserve_resolved_magnet_metadata.
Resolve(t) ==
  /\ pc[t] = "fetching"
  /\ Goto(t, "read")
  /\ UNCHANGED <<config, reservations, seen, cancelled, notified, rechecks>>

ResolveRead(t) ==
  /\ pc[t] = "read"
  /\ seen' = [seen EXCEPT ![t] = config]
  /\ Goto(t, IF t \notin cancelled /\ declared_bytes_can_fit(config, Size[t])
             THEN "subscribe" ELSE "ending")
  /\ UNCHANGED <<config, reservations, cancelled, notified, rechecks>>

ResolveSubscribe(t) ==
  /\ pc[t] = "subscribe"
  /\ notified' = notified \ {t}
  /\ Goto(t, "reserve")
  /\ UNCHANGED <<config, reservations, seen, cancelled, rechecks>>

ResolveReserve(t) ==
  /\ pc[t] = "reserve"
  /\ IF admit_reservation(t, seen[t], Size[t])
     THEN reservations' = Inserted(t, Size[t]) /\ Goto(t, "commit")
     ELSE Goto(t, "refused") /\ UNCHANGED reservations
  /\ UNCHANGED <<config, seen, cancelled, notified, rechecks>>

\* The first poll of what it will be woken by.
ResolveSleeps(t) ==
  /\ pc[t] = "refused"
  /\ Goto(t, "wait")
  /\ UNCHANGED <<config, reservations, seen, cancelled, notified, rechecks>>

\* Notified: once more from the top.  Cancelled: out.
ResolveWakes(t) ==
  /\ pc[t] = "wait"
  /\ \/ t \in notified /\ Goto(t, "read")
     \/ t \in cancelled /\ Goto(t, "ending")
  /\ UNCHANGED <<config, reservations, seen, cancelled, notified, rechecks>>

\* After the reservation: the record is updated and saved.
ResolveCommits(t) ==
  /\ pc[t] = "commit" /\ t \notin cancelled
  /\ Goto(t, "running")
  /\ UNCHANGED <<config, reservations, seen, cancelled, notified, rechecks>>

\* A path conflict, a removed torrent or a failed save: the engine ends with
\* the placeholder's length reserved again, if that is admitted.
ResolveFails(t) ==
  /\ pc[t] = "commit"
  /\ reservations' = IF admit_reservation(t, seen[t], Placeholder)
                     THEN Inserted(t, Placeholder) ELSE reservations
  /\ Goto(t, "ending")
  /\ UNCHANGED <<config, seen, cancelled, notified, rechecks>>

ResolveCancelled(t) ==
  /\ pc[t] = "commit" /\ t \in cancelled
  /\ Release(t)
  /\ Goto(t, "ending")
  /\ UNCHANGED <<config, seen, cancelled, rechecks>>

\* engine_task_finished without the release.
Exit_KeepsReservation(t) ==
  /\ pc[t] \in {"fetching", "running", "ending"}
  /\ notified' = notified \ {t} /\ UNCHANGED reservations
  /\ cancelled' = cancelled \ {t}
  /\ Goto(t, "idle")
  /\ UNCHANGED <<config, seen, rechecks>>

\* The engine returns, for whatever reason: engine_task_finished.
Exit(t) ==
  /\ pc[t] \in {"fetching", "running", "ending"}
  /\ Release(t)
  /\ cancelled' = cancelled \ {t}
  /\ Goto(t, "idle")
  /\ UNCHANGED <<config, seen, rechecks>>

\* stop_engine cancels the storage work and then waits for the task; it
\* aborts it after five seconds.  force_stop_engine aborts it at once.
Cancel(t) ==
  /\ pc[t] \notin {"off", "idle", "start"} /\ t \notin cancelled
  /\ cancelled' = cancelled \cup {t}
  /\ UNCHANGED <<config, reservations, pc, seen, notified, rechecks>>

Abort(t) ==
  /\ t \in cancelled
  /\ Release(t)
  /\ cancelled' = cancelled \ {t}
  /\ Goto(t, "idle")
  /\ UNCHANGED <<config, seen, rechecks>>

ResolveStep(t) ==
  \/ ResolveRead(t) \/ ResolveSubscribe(t) \/ ResolveReserve(t) \/ ResolveSleeps(t)
  \/ ResolveWakes(t) \/ ResolveCommits(t) \/ ResolveFails(t) \/ ResolveCancelled(t)

EngineStep(t) ==
  \/ StartRead(t) \/ StartReserve(t) \/ Resolve(t) \/ ResolveStep(t)
  \/ Exit(t) \/ Cancel(t) \/ Abort(t)

-----------------------------------------------------------------------------
(***************************************************************************)
(* Full rechecks.                                                          *)
(***************************************************************************)
RGoto(r, step) == rpc' = [rpc EXCEPT ![r] = step]

RecheckBegin(r) ==
  /\ rpc[r] = "idle"
  /\ RGoto(r, "read")
  /\ UNCHANGED <<config, engines, active, rseen, rnotified>>

RecheckRead(r) ==
  /\ rpc[r] = "read"
  /\ rseen' = [rseen EXCEPT ![r] = config]
  /\ RGoto(r, "subscribe")
  /\ UNCHANGED <<config, engines, active, rnotified>>

RecheckSubscribe(r) ==
  /\ rpc[r] = "subscribe"
  /\ rnotified' = rnotified \ {r}
  /\ RGoto(r, "reserve")
  /\ UNCHANGED <<config, engines, active, rseen>>

\* try_acquire.
RecheckTry(r) ==
  LET limit == rseen[r].max_concurrent_rechecks IN
  /\ rpc[r] = "reserve"
  /\ IF limit > 0 /\ active >= limit
     THEN RGoto(r, "refused") /\ UNCHANGED active
     ELSE RGoto(r, "work") /\ active' = active + 1
  /\ UNCHANGED <<config, engines, rseen, rnotified>>

RecheckSleeps(r) ==
  /\ rpc[r] = "refused"
  /\ RGoto(r, "wait")
  /\ UNCHANGED <<config, engines, active, rseen, rnotified>>

RecheckWakes(r) ==
  /\ rpc[r] = "wait" /\ r \in rnotified
  /\ RGoto(r, "read")
  /\ UNCHANGED <<config, engines, active, rseen, rnotified>>

RNotified == rnotified \cup {r \in Rechecks : rpc[r] \in Subscribed}

\* The drop of the permit, when the work ends or is cancelled.
RecheckEnds(r) ==
  /\ rpc[r] = "work"
  /\ active' = active - 1
  /\ rnotified' = RNotified
  /\ RGoto(r, "idle")
  /\ UNCHANGED <<config, engines, rseen>>

\* A request that is cancelled, or whose client goes away, while it waits.
RecheckCancelled(r) ==
  /\ rpc[r] \in Waits
  /\ rnotified' = rnotified \ {r}
  /\ RGoto(r, "idle")
  /\ UNCHANGED <<config, engines, active, rseen>>

RecheckStep(r) ==
  \/ RecheckRead(r) \/ RecheckSubscribe(r) \/ RecheckTry(r) \/ RecheckSleeps(r)
  \/ RecheckWakes(r)

-----------------------------------------------------------------------------
\* replace_config under the transition lock, and the notifications of
\* apply_runtime_config_fields.  They come a little later: a waiter that reads
\* the new control before them is woken once more.
ReplaceConfig ==
  /\ TransitionFree
  /\ config' \in Controls
  /\ notified' = Notified
  /\ rnotified' = RNotified
  /\ UNCHANGED <<reservations, pc, seen, cancelled, active, rpc, rseen>>

Next ==
  \/ \E t \in Torrents : EngineStep(t)
  \/ \E r \in Rechecks : RecheckBegin(r) \/ RecheckStep(r) \/ RecheckEnds(r)
                         \/ RecheckCancelled(r)
  \/ ReplaceConfig

Spec == Init /\ [][Next]_vars

\* A task whose next step does not depend on others is scheduled, a stop has
\* its deadline, and the verification of files on disk ends.  That a download
\* ends is not assumed.
Fairness ==
  /\ \A t \in Torrents : /\ WF_vars(ResolveStep(t)) /\ WF_vars(StartReserve(t))
                         /\ WF_vars(pc[t] = "ending" /\ Exit(t)) /\ WF_vars(Abort(t))
  /\ \A r \in Rechecks : WF_vars(RecheckStep(r)) /\ WF_vars(RecheckEnds(r))

FairSpec == Spec /\ Fairness

\* The swarm does its part too: metadata is found and downloads end.
Finishing == \A t \in Torrents : WF_vars(Resolve(t)) /\ WF_vars(pc[t] = "running" /\ Exit(t))

FinishingSpec == FairSpec /\ Finishing

-----------------------------------------------------------------------------
Holds(t) == t \in DOMAIN reservations

\* Every variable has its type.
TypeOK ==
  /\ config \in Controls
  /\ DOMAIN reservations \subseteq Torrents
  /\ \A t \in DOMAIN reservations : reservations[t] \in Nat
  /\ pc \in [Torrents -> Waits \cup {"off", "idle", "start", "fetching", "commit",
                                    "running", "ending"}]
  /\ seen \in [Torrents -> Controls] /\ rseen \in [Rechecks -> Controls]
  /\ cancelled \cup notified \subseteq Torrents /\ rnotified \subseteq Rechecks
  /\ active \in Nat
  /\ rpc \in [Rechecks -> Waits \cup {"off", "idle", "work"}]

ReservedRight ==
  \A t \in Torrents :
    /\ pc[t] \in {"off", "idle", "start"} => ~Holds(t)
    /\ pc[t] \in Waits \cup {"fetching", "commit", "running"} => Holds(t)
    /\ pc[t] \in {"commit", "running"} => reservations[t] = Size[t]

AtWork == {r \in Rechecks : rpc[r] = "work"}

\* The reservations are those of the engines that exist: none is left behind
\* by an engine that ended, failed or was aborted while it waited, and an
\* engine that writes payload has its whole size reserved.  The permits are
\* those of the rechecks at work.
Balanced == ReservedRight /\ active = Cardinality(AtWork)

Within(control) ==
  /\ control.max_active_downloads > 0 =>
       Cardinality(DOMAIN reservations) <= control.max_active_downloads
  /\ control.max_active_bytes > 0 =>
       Total(reservations, DOMAIN reservations) <= control.max_active_bytes
  /\ control.max_concurrent_rechecks > 0 => active <= control.max_concurrent_rechecks

\* Under one root control, what is reserved stays within it, although every
\* engine decides on a control it read earlier and magnets grow in place.
WithinControl == Within(config)

\* Nothing keeps t from its reservation, or r from its permit, any longer.
Fits(t) == admit_reservation(t, config, Size[t])
HasPermit == config.max_concurrent_rechecks > 0 => active < config.max_concurrent_rechecks

\* No wake-up is lost: a magnet's engine does not sleep on while its bytes
\* would be admitted, nor a recheck while a permit is free.
NoLostWakeUp ==
  /\ \A t \in Torrents : [](pc[t] = "wait" /\ Fits(t) => <>(pc[t] # "wait" \/ ~Fits(t)))
  /\ \A r \in Rechecks : [](rpc[r] = "wait" /\ HasPermit => <>(rpc[r] # "wait" \/ ~HasPermit))

\* "Existing work is allowed to finish safely after a configuration
\* replacement": an engine that was admitted and has fetched its metadata does
\* not wait for ever, if the downloads before it end.
ExistingWorkFinishes == \A t \in Torrents : pc[t] = "wait" ~> pc[t] # "wait"
=============================================================================
