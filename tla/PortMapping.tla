---------------------------- MODULE PortMapping ----------------------------
(* The opt-in router mapping of the listen port: its background loop, forced  *)
(* refreshes from the API, renewal, release and the shutdown of the process   *)
(* (swarmotterd/src/daemon/port_mapping.rs; the order of a shutdown is in     *)
(* main.rs, daemon/reliability.rs and daemon/persistence.rs).                 *)
(*                                                                            *)
(* A configuration is what PortMappingIdentity compares, reduced to whether   *)
(* mapping is on, whether containment is strict, and the network path. The    *)
(* gate is the verdict of health and gate together; "stopped" is the verdict  *)
(* of begin_shutdown, which no recovery lifts. A router is known by the path  *)
(* it is reached over, a lease by router and protocol.                        *)
EXTENDS Naturals, Sequences

CONSTANTS
  Configs,      \* configurations: [on, strict, path]
  Protocols,    \* port_mapping.protocols: the order of the attempts
  Refreshers,   \* API requests that may force a refresh
  MaxUpdates,   \* bound: configuration changes
  Lossy         \* the router's replies and the delete may get lost

Loop == "loop"
Main == "main"
Actors == Refreshers \cup {Loop, Main}
Leases == [path : {c.path : c \in Configs}, protocol : {Protocols[i] : i \in DOMAIN Protocols}]
NoTick == [of |-> {}, path |-> {}, step |-> "idle", next |-> 0, drop |-> {}]

VARIABLES
  setup,        \* the daemon's configuration
  gate,         \* containment: open, closed or stopped
  identity,     \* PortMappingRuntime.identity, none or one
  active,       \* PortMappingRuntime.active: none or one [lease, of]
  due,          \* its renew_at has passed
  status,       \* PortMappingStatus.state
  operation,    \* operation_lock: who holds it
  tick,         \* the tick of the holder
  wanting,      \* actors that wait for the lock
  wake,         \* the permit kept by Notify
  main,         \* the process: up, stopping, releasing, gone
  router,       \* leases the routers hold
  updates

runtime == <<identity, active, due, status>>
pm_vars == <<setup, gate, runtime, operation, tick, wanting, wake, main, router, updates>>

Ticks == [of : SUBSET Configs, path : SUBSET {c.path : c \in Configs},
          step : {"idle", "release", "check", "bind", "try"},
          next : 0 .. Len(Protocols), drop : SUBSET Leases]

PmTypeOK ==
  /\ setup \in Configs /\ gate \in {"open", "closed", "stopped"}
  /\ identity \subseteq Configs
  /\ active \subseteq [lease : Leases, of : Configs] /\ due \in BOOLEAN
  /\ status \in {"disabled", "pending", "active", "unavailable", "blocked"}
  /\ operation \subseteq Actors /\ wanting \subseteq Actors
  /\ tick \in Ticks
  /\ wake \in BOOLEAN /\ main \in {"up", "stopping", "releasing", "gone"}
  /\ router \subseteq Leases /\ updates \in 0 .. MaxUpdates

(* PortMappingRuntime::new; the loop starts with an attempt at once. *)
PmInit ==
  /\ setup \in Configs /\ gate \in {"open", "closed"}
  /\ identity = {} /\ active = {} /\ due = FALSE
  /\ status = IF setup.on THEN "pending" ELSE "disabled"
  /\ operation = {} /\ tick = NoTick /\ wanting = {Loop} /\ wake = FALSE
  /\ main = "up" /\ router = {} /\ updates = 0

-----------------------------------------------------------------------------
(* One tick, port_mapping_tick_inner, step by step: the lock is held over its  *)
(* awaits, the configuration and the gate are not.                             *)

Ticking(a, step) == operation = {a} /\ a # Main /\ tick.step = step

Finish == operation' = {} /\ tick' = NoTick

PathOnly == identity = {} \/ \E c \in identity : c.path # setup.path

Changed == identity # {setup}

(* The lock, a snapshot of the configuration, identity_changed; the old        *)
(* mapping is taken out of active before its delete is sent.                   *)
BeginTick(a) ==
  /\ a \in wanting /\ a # Main /\ operation = {}
  /\ operation' = {a} /\ wanting' = wanting \ {a}
  /\ identity' = {setup}
  /\ active' = IF Changed THEN {} ELSE active
  /\ tick' = [NoTick EXCEPT !.of = {setup},
                !.step = IF Changed /\ active # {} THEN "release" ELSE "check",
                !.drop = IF Changed THEN {x.lease : x \in active} ELSE {}]
  /\ UNCHANGED <<setup, gate, due, status, wake, main, router, updates>>

Lost(leases) == IF Lossy THEN {leases} ELSE {}

(* delete_mapping through the binder stored with the mapping: sent when the    *)
(* gate lets it; not confirmed.                                                *)
Delete(leases) ==
  router' \in IF gate = "open" THEN {router \ leases} \cup Lost(router) ELSE {router}

ReleaseOld(a) ==
  /\ Ticking(a, "release")
  /\ Delete(tick.drop)
  /\ tick' = [tick EXCEPT !.step = "check", !.drop = {}]
  /\ UNCHANGED <<setup, gate, runtime, operation, wanting, wake, main, updates>>

Of == CHOOSE c \in Configs : c \in tick.of
Renewed == active # {} /\ ~due

ForgetOnly == active' = {} /\ status' = status

(* The record goes without a delete, the lease runs out by itself. *)
Forget == active' = {} /\ status' = "blocked"

(* Off, or not strict: no request. Closed: the record is dropped, nothing is   *)
(* deleted. A lease that is not due is left alone unless forced. Otherwise the *)
(* attempt begins.                                                             *)
Check(a) ==
  /\ Ticking(a, "check")
  /\ \/ /\ ~Of.on
        /\ status' = "disabled" /\ active' = active /\ Finish
     \/ /\ Of.on /\ ~Of.strict
        /\ status' = "blocked" /\ active' = active /\ Finish
     \/ /\ Of.on /\ Of.strict /\ gate # "open"
        /\ Forget /\ Finish
     \/ /\ Of.on /\ Of.strict /\ gate = "open"
        /\ a = Loop /\ Renewed
        /\ UNCHANGED <<status, active>> /\ Finish
     \/ /\ Of.on /\ Of.strict /\ gate = "open"
        /\ ~(a = Loop /\ Renewed)
        /\ status' = "pending" /\ active' = active
        /\ tick' = [tick EXCEPT !.step = "bind"] /\ UNCHANGED operation
  /\ UNCHANGED <<setup, gate, identity, due, wanting, wake, main, router, updates>>

(* make_unproxied_contained_binder reads the configuration again. *)
Bind(a) ==
  /\ Ticking(a, "bind")
  /\ \/ /\ gate # "open"
        /\ status' = "blocked" /\ Finish
     \/ /\ gate = "open"
        /\ tick' = [tick EXCEPT !.path = {setup.path}, !.step = "try", !.next = 1]
        /\ UNCHANGED <<status, operation>>
  /\ UNCHANGED <<setup, gate, identity, active, due, wanting, wake, main, router, updates>>

AskedLease == [path |-> CHOOSE p \in tick.path : TRUE, protocol |-> Protocols[tick.next]]

(* map_nat_pmp or map_upnp succeeds: the lease is recorded and renewed later. *)
Granted(a) ==
  /\ Ticking(a, "try") /\ gate = "open"
  /\ router' = router \cup {AskedLease}
  /\ active' = {[lease |-> AskedLease, of |-> Of]} /\ due' = FALSE
  /\ status' = "active" /\ Finish
  /\ UNCHANGED <<setup, gate, identity, wanting, wake, main, updates>>

(* The gate denies the request or cancels it under way. *)
Denied(a) ==
  /\ Ticking(a, "try") /\ gate # "open"
  /\ Forget /\ Finish
  /\ UNCHANGED <<setup, gate, identity, due, wanting, wake, main, router, updates>>

(* Any other error: the next protocol, or unavailable. The router may have     *)
(* taken a request whose reply was lost.                                       *)
Refused(a) ==
  /\ Ticking(a, "try") /\ gate = "open"
  /\ router' \in {router} \cup Lost(router \cup {AskedLease})
  /\ \/ /\ tick.next < Len(Protocols)
        /\ tick' = [tick EXCEPT !.next = @ + 1]
        /\ UNCHANGED <<status, operation>>
     \/ /\ tick.next = Len(Protocols)
        /\ status' = "unavailable" /\ Finish
  /\ UNCHANGED <<setup, gate, identity, active, due, wanting, wake, main, updates>>

-----------------------------------------------------------------------------
(* Who asks for ticks. *)

(* port_mapping_loop: the delay has passed or the permit is there. *)
LoopWakes ==
  /\ main = "up" /\ Loop \notin wanting \cup operation
  /\ wanting' = wanting \cup {Loop} /\ wake' = FALSE
  /\ UNCHANGED <<setup, gate, runtime, operation, tick, main, router, updates>>

(* refresh_port_mapping: a request accepted before the shutdown. *)
Refresh(a) ==
  /\ a \in Refreshers /\ a \notin wanting \cup operation
  /\ main = "up"
  /\ wanting' = wanting \cup {a}
  /\ UNCHANGED <<setup, gate, runtime, operation, tick, wake, main, router, updates>>

(* update_settings or replace_config, then notify_port_mapping_reconcile. *)
Update(c) ==
  /\ main = "up" /\ updates < MaxUpdates /\ c # setup
  /\ setup' = c /\ wake' = TRUE /\ updates' = updates + 1
  /\ UNCHANGED <<gate, runtime, operation, tick, wanting, main, router>>

Transition ==
  /\ gate # "stopped"
  /\ gate' = IF gate = "open" THEN "closed" ELSE "open"
  /\ wake' = TRUE
  /\ UNCHANGED <<setup, runtime, operation, tick, wanting, main, router, updates>>

RenewalDue ==
  /\ active # {} /\ ~due
  /\ due' = TRUE
  /\ UNCHANGED <<setup, gate, identity, active, status, operation, tick, wanting, wake, main, router, updates>>

(* A lease that is not being renewed runs out at the router. *)
Expire(l) ==
  /\ l \in router /\ (due \/ \A x \in active : x.lease # l)
  /\ router' = router \ {l}
  /\ UNCHANGED <<setup, gate, runtime, operation, tick, wanting, wake, main, updates>>

-----------------------------------------------------------------------------
(* Shutdown: begin_shutdown stops the gate, the workers are joined, then       *)
(* DaemonRuntime::shutdown releases the mapping while the HTTP server drains.  *)

BeginShutdown ==
  /\ main = "up"
  /\ main' = "stopping" /\ gate' = "stopped"
  /\ UNCHANGED <<setup, runtime, operation, tick, wanting, wake, router, updates>>

(* release_port_mapping_on_shutdown takes the lock and the mapping. A loop     *)
(* that has woken ticks once more before it ends.                              *)
TakeMapping ==
  /\ main = "stopping" /\ operation = {} /\ Loop \notin wanting
  /\ main' = "releasing" /\ operation' = {Main}
  /\ tick' = [NoTick EXCEPT !.step = "release", !.drop = {x.lease : x \in active}]
  /\ active' = {}
  /\ UNCHANGED <<setup, gate, identity, due, status, wanting, wake, router, updates>>

ReleaseMapping ==
  /\ main = "releasing"
  /\ Delete(tick.drop)
  /\ main' = "gone" /\ Finish
  /\ UNCHANGED <<setup, gate, runtime, wanting, wake, updates>>

Tick(a) ==
  \/ BeginTick(a) \/ ReleaseOld(a) \/ Check(a) \/ Bind(a)
  \/ Granted(a) \/ Denied(a) \/ Refused(a)

Shutdown == TakeMapping \/ ReleaseMapping

PmNext ==
  \/ \E a \in Actors \ {Main} : Tick(a)
  \/ \E a \in Refreshers : Refresh(a)
  \/ \E c \in Configs : Update(c)
  \/ \E l \in Leases : Expire(l)
  \/ LoopWakes \/ Transition \/ RenewalDue \/ BeginShutdown \/ Shutdown

(* Every await of a tick has a timeout, the lock is fair and the loop's delay  *)
(* is finite.                                                                  *)
PmFairness ==
  /\ \A a \in Actors \ {Main} : WF_pm_vars(Tick(a))
  /\ WF_pm_vars(LoopWakes) /\ WF_pm_vars(Shutdown)

PmSpec == PmInit /\ [][PmNext]_pm_vars /\ PmFairness

-----------------------------------------------------------------------------
(* Between two ticks of a running daemon, a status of "active" stands for a    *)
(* recorded lease asked for under the configuration last acted upon: no lost   *)
(* reply, failed renewal, gate transition or configuration change in the       *)
(* middle of a tick leaves an "active" without one.                            *)
ActiveIsRecorded ==
  operation = {} /\ main = "up" /\ status = "active"
    => \E x \in active : identity = {x.of}

ClosedStep == gate # "open" => router' \subseteq router

(* The routers are asked for nothing while the gate is not open: their leases  *)
(* only run out.                                                               *)
ClosedIsSilent == [][ClosedStep]_pm_vars

Outdated(c) == (\E x \in active : x.of = c) /\ setup # c

(* A mapping made under an older configuration is given up: the loop acts on   *)
(* every change, also on one that came while a tick was mapping the port.      *)
OldMappingGoes == \A c \in Configs : Outdated(c) ~> ~Outdated(c)

ReleaseStep ==
  main = "releasing" /\ main' = "gone" /\ gate # "closed" => tick.drop \cap router' = {}

(* A graceful shutdown releases the lease, unless containment has closed the   *)
(* path.                                                                       *)
ReleaseReachesRouter == [][ReleaseStep]_pm_vars

=============================================================================
