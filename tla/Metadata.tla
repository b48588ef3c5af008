------------------------------ MODULE Metadata ------------------------------
(* Resolving a magnet: the bounded rounds of discovery of                     *)
(* fetch_magnet_metadata (swarmotterd/src/engine/discovery.rs), the candidates *)
(* of a round asked concurrently, each over its transports in turn, and the   *)
(* exchange with one peer: extension handshake, metadata pieces, the check    *)
(* against the identity and, for a v2 magnet, the piece layers                *)
(* (swarmotterd/src/metadata.rs, swarmotter-core/src/extensions.rs).          *)
(*                                                                            *)
(* A metadata piece is "true", "false" (other bytes of the right length) or   *)
(* "short". The identity is the hash of the whole info dictionary, so only    *)
(* the dictionary made of true pieces matches it. A peer that is not honest   *)
(* does anything the exchange allows, and every wait for it has a deadline.   *)
EXTENDS Naturals, Sequences, FiniteSets

CONSTANTS
  MtPeers, Honest,  \* addresses, and the ones whose peer serves the torrent correctly
  Speaks,           \* the transports and protections of each: <<transport, "mse" or "plain">>
  Transports,       \* peer_transport_order: a sequence
  Encryption,       \* "disabled", "preferred" or "required"
  MetaPieces,       \* metadata pieces of the info dictionary
  Layers,           \* piece-layer requests a v2 dictionary needs; 0 for v1 and hybrid
  Concurrency,      \* METADATA_CANDIDATE_CONCURRENCY
  MaxRounds,        \* MAGNET_METADATA_MAX_ROUNDS
  MaxCuts           \* bound: times the network is blocked

Steps == {"none", "connect", "greet", "extend", "pieces", "verify", "layers", "failed"}
NoTask == [at |-> "none", via |-> 1, data |-> <<>>, layer |-> 0]

VARIABLES
  stage,        \* "poll", "discover", "fetch", "pause", "over"
  round,
  candidates,   \* accumulated over the rounds
  todo,         \* candidates of the round not spawned yet
  task,         \* the JoinSet
  result,       \* the info dictionary returned: none or one
  stop,         \* a stop command is pending
  stopped,
  passable,     \* binder.traffic_allowed()
  cuts

mt_vars == <<stage, round, candidates, todo, task, result, stop, stopped, passable, cuts>>

MtTypeOK ==
  /\ stage \in {"poll", "discover", "fetch", "pause", "over"} /\ round \in 1 .. MaxRounds
  /\ candidates \subseteq MtPeers /\ todo \subseteq candidates
  /\ task \in [MtPeers -> [at : Steps, via : 1 .. Len(Transports), layer : 0 .. Layers,
                           data : UNION {[1 .. n -> {"true", "false", "short"}] :
                                           n \in 0 .. MetaPieces}]]
  /\ result \subseteq UNION {[1 .. n -> {"true", "false", "short"}] : n \in 0 .. MetaPieces}
  /\ stop \in BOOLEAN /\ stopped \in BOOLEAN /\ passable \in BOOLEAN /\ cuts \in 0 .. MaxCuts

MtInit ==
  /\ stage = "poll" /\ round = 1 /\ candidates = {} /\ todo = {}
  /\ task = [p \in MtPeers |-> NoTask] /\ result = {} /\ stop = FALSE /\ stopped = FALSE
  /\ passable = TRUE /\ cuts = 0

Running == {p \in MtPeers : task[p].at # "none"}

\* poll_commands at the head of a round.
PollRound ==
  /\ stage = "poll"
  /\ IF stop THEN stage' = "over" /\ stopped' = TRUE ELSE stage' = "discover" /\ UNCHANGED stopped
  /\ stop' = FALSE
  /\ UNCHANGED <<round, candidates, todo, task, result, passable, cuts>>

\* A round that failed: a pause and the next one, or the end.
RoundFails ==
  stage' = IF round < MaxRounds THEN "pause" ELSE "over"

\* Trackers, seed peers and the DHT; the candidates of earlier rounds are kept.
Discover ==
  /\ stage = "discover"
  /\ \E found \in SUBSET MtPeers :
       /\ candidates' = candidates \cup found
       /\ IF candidates' = {} THEN RoundFails /\ UNCHANGED todo
          ELSE stage' = "fetch" /\ todo' = candidates'
  /\ UNCHANGED <<round, task, result, stop, stopped, passable, cuts>>

\* The first Concurrency candidates, and one more whenever a task was joined.
Spawn(p) ==
  /\ stage = "fetch" /\ p \in todo /\ Cardinality(Running) < Concurrency
  /\ todo' = todo \ {p} /\ task' = [task EXCEPT ![p] = [NoTask EXCEPT !.at = "connect"]]
  /\ UNCHANGED <<stage, round, candidates, result, stop, stopped, passable, cuts>>

\* fetch_metadata_via_transport: what a transport reaches under the encryption mode; a failed
\* negotiation is repeated in plain text only when encryption is preferred.
Reaches(p, transport) ==
  \/ Encryption # "disabled" /\ <<transport, "mse">> \in Speaks[p]
  \/ Encryption # "required" /\ <<transport, "plain">> \in Speaks[p]

At(p, to) == task' = [task EXCEPT ![p].at = to]
Task(p, at) == stage = "fetch" /\ task[p].at = at
Others == UNCHANGED <<stage, round, candidates, todo, result, stop, stopped, passable, cuts>>

\* An error over one transport: the next one starts from nothing, or the candidate failed.
Fails(p) ==
  task' = [task EXCEPT ![p] = IF @.via < Len(Transports)
                                THEN [NoTask EXCEPT !.at = "connect", !.via = task[p].via + 1]
                                ELSE [NoTask EXCEPT !.at = "failed"]]

\* The gate is asked, a permit taken, the transport connected and negotiated.
ConnectPeer(p) ==
  /\ Task(p, "connect")
  /\ IF passable /\ Reaches(p, Transports[task[p].via]) THEN At(p, "greet") ELSE Fails(p)
  /\ Others

\* What a peer may answer: the handshake for the same torrent, with extensions; the extension
\* handshake with ut_metadata and a size within the limit; a metadata piece; a piece layer.
\* Silence until the deadline, a closed stream and a malformed message are all "nothing".
Handshake(p) == IF p \in Honest THEN {"same"} ELSE {"same", "other", "nothing"}
ExtensionHandshake(p) == IF p \in Honest THEN {"sized"} ELSE {"sized", "unsized", "nothing"}
MetadataMessage(p) ==
  IF p \in Honest THEN {"true"} ELSE {"true", "false", "short", "excess", "reject", "nothing"}
LayerResponse(p) == IF p \in Honest THEN {"root"} ELSE {"root", "mismatch", "reject", "nothing"}

Greet(p) ==
  /\ Task(p, "greet")
  /\ \E answer \in Handshake(p) :
       IF passable /\ answer = "same" THEN At(p, "extend") ELSE Fails(p)
  /\ Others

Extend(p) ==
  /\ Task(p, "extend")
  /\ \E answer \in ExtensionHandshake(p) :
       IF passable /\ answer = "sized" THEN At(p, "pieces") ELSE Fails(p)
  /\ Others

\* The pieces are asked for one after the other.
MetadataPiece(p) ==
  /\ Task(p, "pieces")
  /\ \E answer \in MetadataMessage(p) :
       LET data == Append(task[p].data, answer)
       IN IF passable /\ answer \in {"true", "false", "short"}
            THEN task' = [task EXCEPT ![p].data = data,
                            ![p].at = IF Len(data) < MetaPieces THEN "pieces" ELSE "verify"]
            ELSE Fails(p)
  /\ Others

Intact(data) == \A i \in 1 .. Len(data) : data[i] # "short"
Matches(data) == \A i \in 1 .. Len(data) : data[i] = "true"

\* The length only.
LengthChecked(data) == Intact(data)
\* The assembled length and matches_info_bencoded.
Checked(data) == Intact(data) /\ Matches(data)

\* The first complete result is returned and the other tasks are dropped with their set.
Return(p) ==
  /\ result' = {task[p].data} /\ stage' = "over" /\ todo' = {}
  /\ task' = [q \in MtPeers |-> NoTask]
  /\ UNCHANGED <<round, candidates, stop, stopped, passable, cuts>>

\* A dictionary that fails the check is an error; one without layers is returned at once.
Verify(p) ==
  /\ Task(p, "verify")
  /\ IF ~Checked(task[p].data) THEN Fails(p) /\ Others
     ELSE IF Layers = 0 THEN Return(p)
     ELSE At(p, "layers") /\ Others

\* The layers a v2 dictionary needs, each recomputed to its root; the last completes it.
PieceLayer(p) ==
  /\ Task(p, "layers")
  /\ \E answer \in LayerResponse(p) :
       IF ~passable \/ answer # "root" THEN Fails(p) /\ Others
       ELSE IF task[p].layer + 1 < Layers
         THEN task' = [task EXCEPT ![p].layer = @ + 1] /\ Others
         ELSE Return(p)

\* A failed candidate ending the round.
FirstFailureEnds(p) ==
  /\ Task(p, "failed") /\ task' = [q \in MtPeers |-> NoTask] /\ todo' = {} /\ RoundFails
  /\ UNCHANGED <<round, candidates, result, stop, stopped, passable, cuts>>
\* join_next of a failed candidate; the last one ends the round.
JoinFailed(p) ==
  /\ Task(p, "failed") /\ task' = [task EXCEPT ![p] = NoTask]
  /\ IF Running = {p} /\ todo = {} THEN RoundFails ELSE UNCHANGED stage
  /\ UNCHANGED <<round, candidates, todo, result, stop, stopped, passable, cuts>>

\* MAGNET_METADATA_RETRY_PAUSE.
Pause ==
  /\ stage = "pause" /\ stage' = "poll" /\ round' = round + 1
  /\ UNCHANGED <<candidates, todo, task, result, stop, stopped, passable, cuts>>

\* The daemon's stop command, and the containment gate.
SendStop ==
  /\ stage # "over" /\ ~stop /\ stop' = TRUE
  /\ UNCHANGED <<stage, round, candidates, todo, task, result, stopped, passable, cuts>>
Cut ==
  /\ passable /\ cuts < MaxCuts /\ passable' = FALSE /\ cuts' = cuts + 1
  /\ UNCHANGED <<stage, round, candidates, todo, task, result, stop, stopped>>
Mend ==
  /\ ~passable /\ passable' = TRUE
  /\ UNCHANGED <<stage, round, candidates, todo, task, result, stop, stopped, cuts>>

MtTask(p) ==
  \/ Spawn(p) \/ ConnectPeer(p) \/ Greet(p) \/ Extend(p) \/ MetadataPiece(p) \/ Verify(p)
  \/ PieceLayer(p) \/ JoinFailed(p)

MtNext ==
  \/ PollRound \/ Discover \/ Pause \/ SendStop \/ Cut \/ Mend
  \/ \E p \in MtPeers : MtTask(p)

\* Every wait of a task is bounded by a timeout, and the engine's task runs.
MtFairness ==
  /\ WF_mt_vars(PollRound) /\ WF_mt_vars(Discover) /\ WF_mt_vars(Pause)
  /\ \A p \in MtPeers : WF_mt_vars(MtTask(p))
MtSpec == MtInit /\ [][MtNext]_mt_vars /\ MtFairness

-----------------------------------------------------------------------------
\* Whatever the peers sent, the dictionary returned is the one the magnet names.
ResolvedIsTrue == \A data \in result : Len(data) = MetaPieces /\ Matches(data)

Reachable(p) == \E i \in 1 .. Len(Transports) : Reaches(p, Transports[i])
Unresolved(p) == Reachable(p) /\ p \in todo /\ passable
Resolves == result # {} \/ ~passable

\* An honest peer among the candidates of a round that some transport and protection reach is
\* enough: the magnet resolves in that round, however many other candidates lie, stall or fail,
\* unless the network is blocked during it.
HonestResolves == \A p \in Honest : Unresolved(p) ~> Resolves
=============================================================================
