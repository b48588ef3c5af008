------------------------------- MODULE Upload -------------------------------
(***************************************************************************)
(* One peer session that uploads, in the five forms the daemon has:        *)
(*   "seed1"  serve_peer_session, a completed torrent (seeder.rs);         *)
(*   "seed2"  serve_v2_peer_session, a completed pure-v2 torrent;          *)
(*   "down1"  serve_downloader_peer, inbound to a running download;        *)
(*   "down2"  serve_downloader_v2_peer, the same for pure v2;              *)
(*   "duplex" the upload half of an outbound download session, which       *)
(*            queues requests in an InboundUploadQueue (engine/serve.rs).  *)
(* A request names a piece (0 stands for an index past the last one) and   *)
(* has one of five shapes: a "block" of at most 16 KiB, "wide" up to       *)
(* 128 KiB, "long" above that, "empty", and "past" the end of the piece.   *)
(* The second part is the exchange of a BEP 52 piece layer: what           *)
(* v2_hash_response answers and what fetch_v2_piece_layers makes of it.    *)
(* A hash is a tuple, so that distinct inputs have distinct hashes.        *)
(***************************************************************************)
EXTENDS Integers, Sequences, SequencesExt, FiniteSets, FiniteSetsExt

CONSTANTS UpPieces,      \* the piece indices, 1..n
          Kinds,         \* the session forms that are explored
          Fan,           \* Have messages sent per pass (64)
          Drain,         \* SERVE_DRAIN_PER_ITERATION (2)
          QueueCap,      \* MAX_INBOUND_SERVE_QUEUE (32)
          MaxAsks,       \* bound on the peer's requests
          MaxUpFaults,   \* bound on failing reads
          LayerCounts,   \* numbers of piece hashes a file may have
          PieceLayer,    \* height of the piece layer above the 16 KiB leaves
          HashRequestMax \* METADATA_HASH_REQUEST_MAX, the 512 of both sides

VARIABLES kind,      \* the form of this session
          verified,  \* EngineState.pieces_have, or the round's shared have
          announced, \* pieces of our bitfield and of the Haves sent
          choking,   \* our_choking / choking
          interest,  \* the peer's last word: it is interested
          queue,     \* InboundUploadQueue::queue
          task,      \* the request in hand and the await it is at
          uploaded,  \* EngineState.uploaded
          delivered, \* bytes of the Piece messages written
          refused,   \* requests turned down without a failing read
          asks, up_faults,
          layer, exchange  \* a file's number of pieces (0: the session is not
                           \* asked for hashes), and the exchange of hashes

up_vars == <<kind, verified, announced, choking, interest, queue, task,
             uploaded, delivered, refused, asks, up_faults, layer, exchange>>

Shapes == {"block", "wide", "long", "empty", "past"}
Request == [piece : UpPieces \cup {0}, shape : Shapes]
Bytes == [block |-> 1, wide |-> 2, long |-> 3, empty |-> 0, past |-> 1]
Idle == [at |-> "listen"]
Task(at, request) == [at |-> at, request |-> request]
Downloading == {"down1", "down2", "duplex"}
V2 == {"seed2", "down2"}

\* The leaf hashes of a file with n pieces.
Leaves(n) == [i \in 1..n |-> <<i>>]

UpTypeOK ==
    /\ kind \in Kinds
    /\ verified \subseteq UpPieces /\ announced \subseteq verified
    /\ choking \in BOOLEAN /\ interest \in BOOLEAN
    /\ queue \in Seq(Request) /\ Len(queue) <= QueueCap
    /\ task.at \in {"listen", "read", "send", "count", "pass", "over", "hashes"}
    /\ refused \subseteq Request
    /\ uploaded \in Nat /\ delivered \in Nat

(***************************************************************************)
(* Opening. Every form sends the bitfield of a snapshot of the verified    *)
(* pieces. The inbound session of a v1 download and the outbound session   *)
(* unchoke the peer at once, the others when it says it is interested.     *)
(***************************************************************************)
OpensUnchoked == kind \in {"down1", "duplex"}

UpInit ==
    /\ kind \in Kinds
    /\ verified \in SUBSET UpPieces
    /\ announced = verified
    /\ choking = ~OpensUnchoked
    /\ interest = FALSE
    /\ queue = <<>>
    /\ \/ layer = 0 /\ task = Idle
       \/ layer \in LayerCounts /\ kind = "seed2" /\ task = [at |-> "hashes"]
            /\ verified = UpPieces
    /\ uploaded = 0 /\ delivered = 0
    /\ refused = {}
    /\ asks = 0 /\ up_faults = 0
    /\ exchange = [hashes |-> <<>>, request |-> <<>>]

Listening == task.at = "listen"
UpRest == UNCHANGED <<kind, layer, exchange>>

\* A download commits pieces while the session runs.
Commit(p) ==
    /\ kind \in Downloading /\ p \notin verified
    /\ verified' = verified \cup {p}
    /\ UNCHANGED <<announced, choking, interest, queue, task, uploaded,
                   delivered, refused, asks, up_faults>> /\ UpRest

(***************************************************************************)
(* Interested and NotInterested. Only the v2 inbound session chokes again. *)
(***************************************************************************)
\* After a message the downloading forms make their announcement pass.
AfterMessage == IF kind \in Downloading THEN [at |-> "pass"] ELSE Idle

Interested ==
    /\ Listening /\ ~interest
    /\ interest' = TRUE
    /\ choking' = (choking /\ kind = "duplex")
    /\ task' = AfterMessage
    /\ UNCHANGED <<verified, announced, queue, uploaded, delivered, refused,
                   asks, up_faults>> /\ UpRest

NotInterested ==
    /\ Listening /\ interest
    /\ interest' = FALSE
    /\ choking' = (choking \/ kind = "down2")
    /\ task' = AfterMessage
    /\ UNCHANGED <<verified, announced, queue, uploaded, delivered, refused,
                   asks, up_faults>> /\ UpRest

(***************************************************************************)
(* Request: the checks each form makes before it reads from storage.       *)
(***************************************************************************)
\* The shapes a form lets through; the v1 seeder leaves them to the read.
Allowed == CASE kind \in V2 -> {"block"}
             [] kind \in {"down1", "duplex"} -> {"block", "wide"}
             [] kind = "seed1" -> Shapes

Admits(r) ==
    /\ ~choking
    /\ r.piece \in verified
    /\ r.shape \in Allowed

\* Reading past the piece fails in checked_piece_range, whatever the form.
Readable(r) == r.shape # "past"

\* A request the peer may rightly make: for a piece it was told of, a plain
\* block, and not while it declared itself uninterested.
Rightful(r) ==
    /\ r.piece \in announced /\ r.shape = "block"
    /\ interest \/ OpensUnchoked

Refuse(r) == refused' = IF Rightful(r) THEN refused \cup {r} ELSE refused

\* The inbound forms leave the select loop's body with `continue`, so a
\* refused request skips the announcement pass.
Ask(r) ==
    /\ Listening /\ asks < MaxAsks /\ kind # "duplex"
    /\ asks' = asks + 1
    /\ IF Admits(r) THEN task' = Task("read", r) /\ UNCHANGED refused
                    ELSE Refuse(r) /\ task' = Idle
    /\ UNCHANGED <<verified, announced, choking, interest, queue, uploaded,
                   delivered, up_faults>> /\ UpRest

\* Mutant: the queue is only drained after the other messages.
OfferUndrained(r) ==
    /\ Listening /\ asks < MaxAsks /\ kind = "duplex"
    /\ asks' = asks + 1
    /\ IF Admits(r) /\ Len(queue) < QueueCap
       THEN queue' = Append(queue, r) /\ UNCHANGED refused
       ELSE Refuse(r) /\ UNCHANGED queue
    /\ UNCHANGED <<task, verified, announced, choking, interest, uploaded,
                   delivered, up_faults>> /\ UpRest

\* InboundUploadQueue::offer, and the drain that follows every message.
Offer(r) ==
    /\ Listening /\ asks < MaxAsks /\ kind = "duplex"
    /\ asks' = asks + 1
    /\ IF Admits(r) /\ Len(queue) < QueueCap
       THEN queue' = Append(queue, r) /\ UNCHANGED refused
       ELSE Refuse(r) /\ UNCHANGED queue
    /\ task' = [at |-> "pass"]
    /\ UNCHANGED <<verified, announced, choking, interest, uploaded,
                   delivered, up_faults>> /\ UpRest

\* Cancel takes a queued response back; the other forms ignore the message.
Cancel(r) ==
    /\ Listening
    /\ queue' = SelectSeq(queue, LAMBDA q : q # r)
    /\ task' = AfterMessage
    /\ UNCHANGED <<verified, announced, choking, interest, uploaded, delivered,
                   refused, asks, up_faults>> /\ UpRest

(***************************************************************************)
(* Read, shape, send and count. The seeders count the block before they    *)
(* send it, the downloading forms once the message is written.             *)
(***************************************************************************)
CountsFirst == kind \in {"seed1", "seed2"}

\* serve_bounded serves up to Drain queued requests.
DrainFrom(n) == [at |-> "pass", left |-> n]
Left == IF "left" \in DOMAIN task THEN task.left ELSE Drain

ServeOne ==
    /\ task.at = "pass" /\ kind = "duplex" /\ queue # <<>> /\ Left > 0
    /\ task' = Task("read", Head(queue)) @@ [left |-> Left - 1]
    /\ queue' = Tail(queue)
    /\ UNCHANGED <<verified, announced, choking, interest, uploaded, delivered,
                   refused, asks, up_faults>> /\ UpRest

\* Where a request that was dealt with leads.
Done == IF kind = "duplex" THEN DrainFrom(Left)
        ELSE IF kind \in Downloading THEN [at |-> "pass"] ELSE Idle
\* ... and one whose read failed: the inbound forms continue the loop.
Failed == IF kind = "duplex" THEN DrainFrom(Left) ELSE Idle
Step(at) == [task EXCEPT !.at = at]

\* Mutant: the bytes are counted as soon as the request is accepted.
ReadCounting ==
    /\ task.at = "read" /\ Readable(task.request)
    /\ task' = Step(IF CountsFirst THEN "count" ELSE "send")
    /\ uploaded' = uploaded + (IF CountsFirst THEN 0 ELSE 1)
    /\ UNCHANGED <<verified, announced, choking, interest, queue, delivered,
                   refused, asks, up_faults>> /\ UpRest

ReadBlock ==
    /\ task.at = "read" /\ Readable(task.request)
    /\ task' = Step(IF CountsFirst THEN "count" ELSE "send")
    /\ UNCHANGED <<verified, announced, choking, interest, queue, uploaded,
                   delivered, refused, asks, up_faults>> /\ UpRest

ReadFails ==
    /\ task.at = "read"
    /\ IF Readable(task.request)
       THEN up_faults < MaxUpFaults /\ up_faults' = up_faults + 1
       ELSE UNCHANGED up_faults
    /\ task' = Failed
    /\ UNCHANGED <<verified, announced, choking, interest, queue, uploaded,
                   delivered, refused, asks>> /\ UpRest

Count ==
    /\ task.at = "count"
    /\ uploaded' = uploaded + Bytes[task.request.shape]
    /\ task' = IF CountsFirst THEN Step("send") ELSE Done
    /\ UNCHANGED <<verified, announced, choking, interest, queue, delivered,
                   refused, asks, up_faults>> /\ UpRest

Send ==
    /\ task.at = "send"
    /\ delivered' = delivered + Bytes[task.request.shape]
    /\ task' = IF CountsFirst THEN Done ELSE Step("count")
    /\ UNCHANGED <<verified, announced, choking, interest, queue, uploaded,
                   refused, asks, up_faults>> /\ UpRest

(***************************************************************************)
(* The announcement pass of a running download: a Have for each verified   *)
(* piece not yet announced, lowest first, at most Fan of them.             *)
(***************************************************************************)
Lowest(S, n) == {p \in S : Cardinality({q \in S : q < p}) < n}

Announce ==
    /\ task.at = "pass" /\ (kind # "duplex" \/ queue = <<>> \/ Left = 0)
    /\ announced' = announced \cup Lowest(verified \ announced, Fan)
    /\ task' = Idle
    /\ UNCHANGED <<verified, choking, interest, queue, uploaded, delivered,
                   refused, asks, up_faults>> /\ UpRest

\* availability_tick: the inbound forms make a pass every second.
Tick ==
    /\ Listening /\ kind \in {"down1", "down2"} /\ announced # verified
    /\ task' = [at |-> "pass"]
    /\ UNCHANGED <<verified, announced, choking, interest, queue, uploaded,
                   delivered, refused, asks, up_faults>> /\ UpRest

\* A failed write, the peer's departure, the idle limit, a shutdown or an
\* abort ends the session at any of its awaits.
Ends ==
    /\ task.at \notin {"over", "hashes"}
    /\ task' = [at |-> "over", held |-> task.at]
    /\ UNCHANGED <<verified, announced, choking, interest, queue, uploaded,
                   delivered, refused, asks, up_faults>> /\ UpRest

(***************************************************************************)
(* The piece layer. NextPow2 is checked_next_power_of_two, Log2 the        *)
(* trailing_zeros of a power of two.                                       *)
(***************************************************************************)
Log2(n) == CHOOSE k \in 0..n : 2 ^ k = n
NextPow2(n) == Min({m \in 1..(2 * n) : m >= n /\ \E k \in 0..n : m = 2 ^ k})
ZeroSubtree == FoldLeft(LAMBDA z, i : <<z, z>>, <<0>>, [i \in 1..PieceLayer |-> i])
Padded(hashes) == [i \in 1..NextPow2(Len(hashes)) |->
                     IF i <= Len(hashes) THEN hashes[i] ELSE ZeroSubtree]
Paired(level) == [i \in 1..(Len(level) \div 2) |->
                    <<level[2 * i - 1], level[2 * i]>>]

\* The layers from the piece layer (1) to the root.
Layers(hashes) ==
    FoldLeft(LAMBDA ls, i : Append(ls, Paired(Last(ls))), <<Padded(hashes)>>,
             [i \in 1..Log2(NextPow2(Len(hashes))) |-> i])
V2PieceLayerRoot(hashes) == Last(Layers(hashes))[1]

HashRequest == [index : 0..(2 * Max(LayerCounts)), length : 1..HashRequestMax,
                proof : 0..(Log2(NextPow2(Max(LayerCounts))) + 1)]

\* Mutant: the proof holds the node itself and not its sibling.
NodeItself(layers, start, l) == layers[l + 1][(start \div 2 ^ l) + 1]

\* The sibling (index xor 1) of the l-th ancestor of a position.
Uncle(layers, start, l) ==
    LET node == start \div 2 ^ l
    IN layers[l + 1][(IF node % 2 = 0 THEN node + 1 ELSE node - 1) + 1]

\* v2_hash_response for the layer of this file; <<>> stands for HashReject.
V2HashResponse(n, q) ==
    LET layers == Layers(Leaves(n))
        depth == Log2(q.length)
        top == Min({q.proof, Len(layers) - 1})
    IN IF \/ q.length < 2 \/ q.length # NextPow2(q.length)
          \/ q.index % q.length # 0 \/ q.length > HashRequestMax
          \/ q.index + q.length > Len(layers[1])
       THEN <<>>
       ELSE SubSeq(layers[1], q.index + 1, q.index + q.length)
              \o [i \in 1..Max({0, top - depth}) |->
                    Uncle(layers, q.index, depth + i - 1)]

AskHashes(q) ==
    /\ task.at = "hashes" /\ exchange.request = <<>>
    /\ exchange' = [request |-> <<q>>, hashes |-> V2HashResponse(layer, q)]
    /\ UNCHANGED <<kind, layer, verified, announced, choking, interest, queue,
                   task, uploaded, delivered, refused, asks, up_faults>>

\* fetch_v2_piece_layers: the requests it makes for a file of n pieces, with
\* the number of hashes it expects, and what it assembles of the answers.
FetchLength(n) == Min({NextPow2(n), HashRequestMax})
FetchRequests(n) ==
    [i \in 1..(NextPow2(n) \div FetchLength(n)) |->
       [index |-> (i - 1) * FetchLength(n), length |-> FetchLength(n),
        proof |-> Log2(NextPow2(n))]]
ExpectedHashes(n) ==
    FetchLength(n) + (Log2(NextPow2(n)) - Log2(FetchLength(n)))
Fetched(n) ==
    LET answers == [i \in DOMAIN FetchRequests(n) |->
                      V2HashResponse(n, FetchRequests(n)[i])]
    IN IF \E i \in DOMAIN answers : Len(answers[i]) # ExpectedHashes(n)
       THEN <<>>
       ELSE SubSeq(FoldLeft(LAMBDA acc, a : acc \o SubSeq(a, 1, FetchLength(n)),
                            <<>>, answers), 1, n)
FetchVerified(n) ==
    Fetched(n) # <<>> /\ V2PieceLayerRoot(Fetched(n)) = V2PieceLayerRoot(Leaves(n))

(***************************************************************************)
(* The specification.                                                      *)
(***************************************************************************)
UpNext ==
    \/ \E p \in UpPieces : Commit(p)
    \/ Interested \/ NotInterested
    \/ \E r \in Request : Ask(r) \/ Offer(r) \/ Cancel(r)
    \/ ServeOne \/ ReadBlock \/ ReadFails \/ Count \/ Send
    \/ Announce \/ Tick \/ Ends
    \/ \E q \in HashRequest : AskHashes(q)

UpSpec == UpInit /\ [][UpNext]_up_vars

(***************************************************************************)
(* Properties.                                                             *)
(***************************************************************************)
\* What the session announced it serves: a plain request for an announced
\* piece, from a peer that was unchoked, is never turned down by the checks
\* nor by a full queue. Only a failing read may drop it.
AnnouncedIsServed == refused = {}

\* Uploaded bytes are accounted exactly once (serve.rs): whenever the session
\* waits for a message, the bytes counted are the bytes of the Piece messages
\* it sent, whichever comes first in its form and whatever read failed.
UploadsAccounted == task.at \in {"listen", "pass"} => uploaded = delivered

\* The node a response proves: the root of the hashes asked for, combined
\* with one uncle per layer on the side the index gives.
Proved(q, hashes) ==
    LET own == V2PieceLayerRoot(SubSeq(hashes, 1, q.length))
        uncles == SubSeq(hashes, q.length + 1, Len(hashes))
        bit(i) == (q.index \div 2 ^ (Log2(q.length) + i - 1)) % 2
    IN FoldLeft(LAMBDA node, i : IF bit(i) = 0 THEN <<node, uncles[i]>>
                                               ELSE <<uncles[i], node>>,
                own, [i \in DOMAIN uncles |-> i])

\* A seeder's answer to a request for hashes proves them: combined with the
\* uncles it leads to the ancestor the number of proof layers reaches, the
\* file's root once there are enough of them; and a peer that fetches the
\* layer in bounded requests accepts the answers and ends up with all of it.
HashesProve ==
    /\ exchange.hashes # <<>> =>
         LET q == exchange.request[1]
             layers == Layers(Leaves(layer))
             reached == Min({Max({q.proof, Log2(q.length)}), Len(layers) - 1})
         IN Proved(q, exchange.hashes)
              = layers[reached + 1][(q.index \div 2 ^ reached) + 1]
    /\ layer >= 2 => Fetched(layer) = Leaves(layer) /\ FetchVerified(layer)

=============================================================================
