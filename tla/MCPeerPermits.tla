--------------------------- MODULE MCPeerPermits ---------------------------
(***************************************************************************)
(* The peer side of the daemon for TLC: the permits that admit sessions    *)
(* and the round of an engine that hands out pieces to them, which are     *)
(* extended, and what goes on around the sessions: inbound serving,        *)
(* discovery and the metadata of a magnet, whose variables are the cells,  *)
(* in the order of the module. A behaviour is one of the component `part`  *)
(* names; the others rest.                                                 *)
(***************************************************************************)
EXTENDS PeerPermits, PieceRound

CONSTANTS Parts

VARIABLES part, c1, c2, c3, c4, c5, c6, c7, c8, c9, c10, c11, c12

cells == <<c1, c2, c3, c4, c5, c6, c7, c8, c9, c10, c11, c12>>
inbound_cells == <<c1, c2, c3, c4, c5, c6, c7, c8, c9, c10, c11>>
metadata_cells == <<c1, c2, c3, c4, c5, c6, c7, c8, c9, c10>>
-----------------------------------------------------------------------------
\* Two outbound sessions and an inbound one of the same torrent; the first
\* configuration allows one session in all, the second has no process-wide
\* limit and one session per torrent.
CONSTANTS o1, o2, i1, t1

MCTorrentOf == [s \in {o1, o2, i1} |-> t1]
MCMaxPeers == <<1, 0>>
MCMaxPeersPerTorrent == <<2, 1>>
-----------------------------------------------------------------------------
MCPriority == <<1, 2>>
-----------------------------------------------------------------------------
CONSTANTS Served, Wire, V2Only, Slots, MaxWatches

IB == INSTANCE InboundServe WITH
        open <- c1, listener <- c2, made <- c3, fired <- c4,
        seed_sender <- c5, seeds <- c6, serve_sender <- c7, serves <- c8,
        engine <- c9, stopping <- c10, inbound <- c11

\* A v1 and a v2 torrent with the same 20 bytes on the wire.
MCWire == [v1 |-> "a", v2 |-> "a"]
-----------------------------------------------------------------------------
CONSTANTS DsPeers, DhtOn, Tracked, Webseeds, MaxProgress

DS == INSTANCE Discovery WITH
        loop <- c1, discovered <- c2, bad <- c3, idle <- c4, crowded <- c5,
        unusable <- c6, looked <- c7, waiting <- c8, command <- c9,
        progress <- c10, ended <- c11, evidence <- c12
-----------------------------------------------------------------------------
CONSTANTS MtPeers, Honest, Speaks, Transports, Encryption, MetaPieces, Layers,
          Concurrency, MaxRounds, MaxCuts

MT == INSTANCE Metadata WITH
        stage <- c1, round <- c2, candidates <- c3, todo <- c4, task <- c5,
        result <- c6, stop <- c7, stopped <- c8, passable <- c9, cuts <- c10

MCTransports == <<"utp", "tcp">>
MCSpeaks == [honest |-> {<<"utp", "plain">>}, other |-> {<<"tcp", "mse">>, <<"tcp", "plain">>}]
-----------------------------------------------------------------------------
mc_vars == <<part, vars, pr_vars, cells>>

MCInit ==
    /\ part \in Parts
    /\ Init /\ PrInit
    /\ \/ /\ part \in {"permits", "round"}
          /\ c1 = 0 /\ c2 = 0 /\ c3 = 0 /\ c4 = 0 /\ c5 = 0 /\ c6 = 0
          /\ c7 = 0 /\ c8 = 0 /\ c9 = 0 /\ c10 = 0 /\ c11 = 0 /\ c12 = 0
       \/ /\ part = "inbound" /\ IB!IbInit
          /\ c12 = 0
       \/ /\ part = "discovery" /\ DS!DsInit
       \/ /\ part = "metadata" /\ MT!MtInit
          /\ c11 = 0 /\ c12 = 0

MCNext ==
    /\ UNCHANGED part
    /\ \/ part = "permits" /\ Next /\ UNCHANGED <<pr_vars, cells>>
       \/ part = "round" /\ PrNext /\ UNCHANGED <<vars, cells>>
       \/ /\ part = "inbound" /\ IB!IbNext
          /\ UNCHANGED <<vars, pr_vars, c12>>
       \/ /\ part = "discovery" /\ DS!DsNext
          /\ UNCHANGED <<vars, pr_vars>>
       \/ /\ part = "metadata" /\ MT!MtNext
          /\ UNCHANGED <<vars, pr_vars, c11, c12>>

\* The fairness of each component, for the behaviours of that component.
MCFairness ==
    /\ Fairness
    /\ \A s \in Rounders : WF_pr_vars(part = "round" /\ Runs(s))
    /\ \A i \in Slots : WF_inbound_cells(part = "inbound" /\ IB!SessionStops(i))
    /\ WF_cells(part = "discovery" /\ DS!DsEngine) /\ WF_cells(part = "discovery" /\ DS!Grace)
    /\ WF_metadata_cells(part = "metadata" /\ MT!PollRound)
    /\ WF_metadata_cells(part = "metadata" /\ MT!Discover)
    /\ WF_metadata_cells(part = "metadata" /\ MT!Pause)
    /\ \A p \in MtPeers : WF_metadata_cells(part = "metadata" /\ MT!MtTask(p))

MCSpec == MCInit /\ [][MCNext]_mc_vars /\ MCFairness
-----------------------------------------------------------------------------
(***************************************************************************)
(* InboundServe, Discovery and Metadata: an inbound peer is served by the  *)
(* torrent it asked for, through an open gate; an engine gives its swarm   *)
(* up as empty only on the evidence of completed discovery; and a magnet   *)
(* resolves only to the dictionary it names, whatever the peers sent.      *)
(* Every component keeps its type.                                         *)
(***************************************************************************)
ResultsAreEvidenced ==
    /\ TypeOK /\ PrTypeOK
    /\ part = "inbound" => IB!IbTypeOK /\ IB!InboundIsRouted
    /\ part = "discovery" => DS!DsTypeOK /\ DS!EmptyIsEvidenced
    /\ part = "metadata" => MT!MtTypeOK /\ MT!ResolvedIsTrue

\* What the k-th of them waits for, and what ends the wait.
Waiting(k) ==
    \/ part = "permits" /\ pc[<<o1, o2>>[k]] = "wait"
    \/ part = "round" /\ Reserved(k)
    \/ part = "inbound" /\ k \in Slots /\ IB!Unregistered(k)
    \/ part = "discovery" /\ DS!Deserted
    \/ part = "metadata" /\ \E p \in Honest : MT!Unresolved(p)

Ended(k) ==
    CASE part = "discovery" -> DS!Ended \/ ~DS!Deserted
      [] part = "metadata" -> MT!Resolves
      [] OTHER -> ~Waiting(k)

(***************************************************************************)
(* Nothing waits for ever: a queued outbound session gets its permit       *)
(* (PeerPermits), a reserved piece is written or given back (PieceRound),  *)
(* a session of a stopped seeder ends (InboundServe), an engine whose      *)
(* swarm stays empty ends (Discovery), and an honest candidate is enough   *)
(* to resolve a magnet in its round (Metadata).                            *)
(***************************************************************************)
SessionsProgress == \A k \in 1 .. 2 : Waiting(k) ~> Ended(k)
=============================================================================
