---------------------------- MODULE InboundServe ----------------------------
(* Inbound peers: the shared listener, the registry of seeding torrents, the  *)
(* registry of downloading torrents that serve what they have, and the        *)
(* sessions routed to them (swarmotterd/src/seeder.rs; the registrations are  *)
(* made and undone in daemon/seeding.rs and daemon/scheduler.rs).             *)
(*                                                                            *)
(* A registration carries the receiver of a shutdown watch; its owner keeps   *)
(* the sender. A generation names one watch. A session keeps the context it   *)
(* was routed to, so it outlives the registration and depends on the watch to *)
(* be told. Permits are in PeerPermits, the gate in ContainmentGate.          *)
EXTENDS Naturals, FiniteSets

CONSTANTS
  Served,       \* torrents
  Wire,         \* torrent -> 20-byte peer-wire identity
  V2Only,       \* torrents on the v2 data plane
  Slots,        \* inbound sessions at a time
  MaxWatches    \* bound: shutdown watches created

Hashes == {Wire[t] : t \in Served}
Watches == 0 .. MaxWatches   \* 0: none

VARIABLES
  open,         \* containment gate
  listener,     \* the SeederHub task runs
  made,         \* watches created so far
  fired,        \* watches on which true was sent
  seed_sender,  \* seeder_shutdowns
  seeds,        \* SeedRegistry.contexts, wire_index and mse_index
  serve_sender, \* downloader_serve_shutdowns
  serves,       \* downloader_serves
  engine,       \* the watch of the engine task that runs
  stopping,     \* force_stop_engine has torn down and not yet aborted
  inbound       \* the sessions

registries == <<seed_sender, seeds, serve_sender, serves>>
ib_vars == <<open, listener, made, fired, registries, engine, stopping, inbound>>

Free == [at |-> "free", t |-> {}, watch |-> 0]
InboundSessions == [at : {"free", "routing", "seeder", "downloader"}, t : SUBSET Served, watch : Watches]

IbTypeOK ==
  /\ open \in BOOLEAN /\ listener \in BOOLEAN
  /\ made \in Watches /\ fired \subseteq Watches
  /\ \A f \in {seed_sender, seeds, serve_sender, serves, engine} : f \in [Served -> Watches]
  /\ stopping \subseteq Served
  /\ inbound \in [Slots -> InboundSessions]

Nothing == [t \in Served |-> 0]

IbInit ==
  /\ open = TRUE /\ listener = FALSE
  /\ made = 0 /\ fired = {}
  /\ seed_sender = Nothing /\ seeds = Nothing
  /\ serve_sender = Nothing /\ serves = Nothing
  /\ engine = Nothing /\ stopping = {}
  /\ inbound = [i \in Slots |-> Free]

Empty(f) == \A t \in Served : f[t] = 0

(* A receiver's changed() completes: true was sent, or the sender is gone. *)
Lost(w) == \A t \in Served : seed_sender[t] # w /\ serve_sender[t] # w

-----------------------------------------------------------------------------
(* Sessions. *)

(* SeederHub::run: the filter and the process-wide permit may refuse. *)
Accept(i) ==
  /\ listener /\ open
  /\ inbound[i] = Free
  /\ inbound' = [inbound EXCEPT ![i].at = "routing"]
  /\ UNCHANGED <<open, listener, made, fired, registries, engine, stopping>>

SeedFor(h) == {t \in Served : seeds[t] # 0 /\ Wire[t] = h}
ServeFor(h) == {t \in Served : serves[t] # 0 /\ Wire[t] = h}

(* serve_routed_peer: a seeder by its index, else the one active download.     *)
(* The handshake, the encryption mode, the client filter or the torrent's      *)
(* permit may end it instead.                                                  *)
Route(i, h) ==
  /\ inbound[i].at = "routing"
  /\ \/ \E t \in SeedFor(h) : inbound' = [inbound EXCEPT ![i] =
          [at |-> "seeder", t |-> {t}, watch |-> seeds[t]]]
     \/ /\ SeedFor(h) = {}
        /\ Cardinality(ServeFor(h)) = 1
        /\ \E t \in ServeFor(h) : inbound' = [inbound EXCEPT ![i] =
             [at |-> "downloader", t |-> {t}, watch |-> serves[t]]]
     \/ inbound' = [inbound EXCEPT ![i] = Free]
  /\ UNCHANGED <<open, listener, made, fired, registries, engine, stopping>>

(* serve_peer, serve_v2_peer: any change of the watch ends the session. A v1   *)
(* downloader session (serve_downloader_peer) asks for true itself; a v2 one   *)
(* also takes a lost sender.                                                   *)
Told(s) ==
  \/ s.watch \in fired
  \/ Lost(s.watch) /\ (s.at = "seeder" \/ s.t \subseteq V2Only)

SessionStops(i) ==
  /\ inbound[i].at \in {"seeder", "downloader"} /\ Told(inbound[i])
  /\ inbound' = [inbound EXCEPT ![i] = Free]
  /\ UNCHANGED <<open, listener, made, fired, registries, engine, stopping>>

(* The peer closes, errs, or is silent for 120 s. *)
PeerLeaves(i) ==
  /\ inbound[i].at \in {"seeder", "downloader"}
  /\ inbound' = [inbound EXCEPT ![i] = Free]
  /\ UNCHANGED <<open, listener, made, fired, registries, engine, stopping>>

Hangup == inbound' = [i \in Slots |-> Free]

-----------------------------------------------------------------------------
(* Registrations. *)

NewWatch == made < MaxWatches /\ made' = made + 1

(* SeedRegistry::register refuses a wire identity another torrent holds; a     *)
(* registration of the same torrent is replaced.                               *)
ClaimAlways(t) == TRUE
Claimable(t) == SeedFor(Wire[t]) \subseteq {t}

(* start_seeder_while_transition_locked. A refused registration leaves the     *)
(* sender behind; a listener that cannot bind undoes it.                       *)
StartSeeder(t) ==
  /\ open /\ seed_sender[t] = 0 /\ engine[t] = 0
  /\ NewWatch
  /\ IF Claimable(t)
       THEN \/ /\ seed_sender' = [seed_sender EXCEPT ![t] = made']
               /\ seeds' = [seeds EXCEPT ![t] = made']
               /\ listener' = TRUE
               /\ UNCHANGED fired
            \/ /\ ~listener
               /\ fired' = fired \cup {made'}
               /\ UNCHANGED <<seed_sender, seeds, listener>>
       ELSE /\ seed_sender' = [seed_sender EXCEPT ![t] = made']
            /\ UNCHANGED <<seeds, listener, fired>>
  /\ UNCHANGED <<open, serve_sender, serves, engine, stopping, inbound>>

(* stop_seeder_listener *)
MaybeStopListener(s, d) ==
  IF Empty(s) /\ Empty(d) THEN listener' = FALSE /\ Hangup ELSE UNCHANGED <<listener, inbound>>

(* stop_seeder, force_stop_seeder *)
StopSeederUnheard(t) ==
  /\ seed_sender[t] # 0 /\ seeds[t] # 0
  /\ seeds' = [seeds EXCEPT ![t] = 0]
  /\ MaybeStopListener(seeds', serves)
  /\ UNCHANGED <<open, made, fired, seed_sender, serve_sender, serves, engine, stopping>>
StopSeeder(t) ==
  /\ seed_sender[t] # 0
  /\ fired' = fired \cup {seed_sender[t]}
  /\ seed_sender' = [seed_sender EXCEPT ![t] = 0]
  /\ seeds' = [seeds EXCEPT ![t] = 0]
  /\ MaybeStopListener(seeds', serves)
  /\ UNCHANGED <<open, made, serve_sender, serves, engine, stopping>>

(* start_engine: the new sender replaces, and so drops, one left behind. *)
StartEngine(t) ==
  /\ open /\ engine[t] = 0 /\ seed_sender[t] = 0
  /\ NewWatch
  /\ listener' = TRUE
  /\ serve_sender' = [serve_sender EXCEPT ![t] = made']
  /\ engine' = [engine EXCEPT ![t] = made']
  /\ UNCHANGED <<open, fired, seed_sender, seeds, serves, stopping, inbound>>

(* register_downloader_serve, at the head of the download loop. *)
RegisterServe(t) ==
  /\ engine[t] # 0 /\ serves[t] # engine[t]
  /\ serves' = [serves EXCEPT ![t] = engine[t]]
  /\ UNCHANGED <<open, listener, made, fired, seed_sender, seeds, serve_sender, engine,
                 stopping, inbound>>

(* teardown_downloader_serve *)
Teardown(ts) ==
  /\ fired' = fired \cup ({serve_sender[t] : t \in ts} \ {0})
  /\ serve_sender' = [t \in Served |-> IF t \in ts THEN 0 ELSE serve_sender[t]]
  /\ serves' = [t \in Served |-> IF t \in ts THEN 0 ELSE serves[t]]

(* The task ends by itself (engine_task_finished), or stop_engine joins it. *)
EngineEnds(t) ==
  /\ engine[t] # 0 /\ t \notin stopping
  /\ engine' = [engine EXCEPT ![t] = 0]
  /\ Teardown({t})
  /\ UNCHANGED <<open, listener, made, seed_sender, seeds, stopping, inbound>>

(* force_stop_engine tears down first and aborts the task later. *)
ForceStop(t) ==
  /\ engine[t] # 0 /\ t \notin stopping
  /\ stopping' = stopping \cup {t}
  /\ Teardown({t})
  /\ UNCHANGED <<open, listener, made, seed_sender, seeds, engine, inbound>>

ForceStopped(t) ==
  /\ t \in stopping
  /\ stopping' = stopping \ {t}
  /\ engine' = [engine EXCEPT ![t] = 0]
  /\ MaybeStopListener(seeds, serves)
  /\ UNCHANGED <<open, made, fired, registries>>

(* transition_data_plane_to_blocked: the listener and its sessions are aborted *)
(* and the seeders cleared. An engine task that sees the gate in time tears    *)
(* its registration down itself; one that is aborted first does not.           *)
BlockNetwork(seen) ==
  /\ open
  /\ open' = FALSE /\ listener' = FALSE /\ Hangup
  /\ LET own == {t \in seen : engine[t] # 0}
     IN  /\ fired' = (fired \cup {serve_sender[t] : t \in own} \cup {seed_sender[t] : t \in Served}) \ {0}
         /\ serve_sender' = [t \in Served |-> IF t \in own THEN 0 ELSE serve_sender[t]]
         /\ serves' = [t \in Served |-> IF t \in own THEN 0 ELSE serves[t]]
  /\ seed_sender' = Nothing /\ seeds' = Nothing /\ engine' = Nothing
  /\ UNCHANGED <<made, stopping>>

AllowNetwork ==
  /\ ~open /\ open' = TRUE
  /\ UNCHANGED <<listener, made, fired, registries, engine, stopping, inbound>>

IbSession(i) == Accept(i) \/ PeerLeaves(i) \/ SessionStops(i) \/ \E h \in Hashes : Route(i, h)
IbTorrent(t) == \/ StartSeeder(t) \/ StopSeeder(t) \/ StartEngine(t) \/ RegisterServe(t)
                \/ EngineEnds(t) \/ ForceStop(t) \/ ForceStopped(t)

IbNext ==
  \/ \E i \in Slots : IbSession(i)
  \/ \E t \in Served : IbTorrent(t)
  \/ \E seen \in SUBSET Served : BlockNetwork(seen)
  \/ AllowNetwork

(* A session polls its watch whenever it changes. *)
IbFairness == \A i \in Slots : WF_ib_vars(SessionStops(i))

IbSpec == IbInit /\ [][IbNext]_ib_vars /\ IbFairness

-----------------------------------------------------------------------------
(* A peer is served by a torrent of the identity it asked for, no identity     *)
(* routes to two seeders, and nothing is served through a closed gate, however *)
(* registrations come and go under the sessions.                               *)
InboundIsRouted ==
  /\ \A s, t \in Served : seeds[s] # 0 /\ seeds[t] # 0 /\ Wire[s] = Wire[t] => s = t
  /\ \A i \in Slots : inbound[i] # Free => open /\ listener
  /\ \A t \in Served : seeds[t] # 0 => seed_sender[t] = seeds[t] /\ listener

(* A session of a seeder that was stopped, removed or paused ends: its context *)
(* outlives the registration and only the watch reaches it.                    *)
Unregistered(i) == inbound[i].at = "seeder" /\ \A t \in inbound[i].t : seeds[t] # inbound[i].watch
SeederSessionsEnd == \A i \in Slots : Unregistered(i) ~> ~Unregistered(i)

(* "Completes when the engine ends, pauses, is removed, or loses containment": *)
(* a peer served by a downloading torrent is served by a torrent whose engine  *)
(* runs, or has been told to stop.                                             *)
ServedByLiveEngine ==
  \A i \in Slots : inbound[i].at = "downloader" =>
    inbound[i].watch \in fired \/ \E t \in inbound[i].t : engine[t] = inbound[i].watch
=============================================================================
