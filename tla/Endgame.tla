------------------------------ MODULE Endgame -------------------------------
(* The endgame round of one engine: up to ENDGAME_MAX_PEERS sessions ask for  *)
(* the blocks of the same remaining pieces and share a table of outstanding   *)
(* requests with a cap per block (swarmotterd/src/engine/endgame.rs,          *)
(* swarmotter-core/src/endgame.rs).                                           *)
(*                                                                            *)
(* The table and the shared bitfield have a mutex each; a step takes one of   *)
(* them at most once. Cancel messages change nothing on this side and are not *)
(* modelled; the pass that would send them is.                                *)
EXTENDS Naturals, FiniteSets

CONSTANTS
  EgPeers,        \* the candidates taken: at most MaxDuplicates of them
  EgPieces,       \* the remaining wanted pieces
  EgPriority,     \* PieceSelection::priority, a function on EgPieces
  EgBlocks,       \* blocks in a piece
  MaxDuplicates   \* ENDGAME_MAX_PEERS, the cap of OutstandingRequests

VARIABLES
  shared_have,  \* the pieces of EgPieces verified and written
  pending,      \* OutstandingRequests.pending: <<piece, block>>
  counts,       \* OutstandingRequests.counts; 0 for no entry
  spot,         \* where each session is
  offered,      \* the peer's bitfield
  known_bits,   \* peer_bf is set
  target,       \* the piece the session is on; {} for none
  asked,        \* blocks of it the request loop has passed
  waiting,      \* session_outstanding
  got           \* blocks in the assembler

table == <<pending, counts>>
peer == <<offered, known_bits>>
eg_vars == <<shared_have, table, spot, peer, target, asked, waiting, got>>

Requests == EgPieces \X (1 .. EgBlocks)
Spots == {"new", "choked", "free", "asking", "reading", "verified", "writing", "clearing",
          "cancelling", "closed"}

EgTypeOK ==
  /\ shared_have \subseteq EgPieces
  /\ pending \subseteq Requests
  /\ counts \in [Requests -> 0 .. MaxDuplicates]
  /\ spot \in [EgPeers -> Spots]
  /\ offered \in [EgPeers -> SUBSET EgPieces]
  /\ known_bits \in [EgPeers -> BOOLEAN]
  /\ target \in [EgPeers -> SUBSET EgPieces]
  /\ asked \in [EgPeers -> 0 .. EgBlocks]
  /\ waiting \in [EgPeers -> SUBSET (1 .. EgBlocks)]
  /\ got \in [EgPeers -> SUBSET (1 .. EgBlocks)]

(* run_endgame: one task per candidate over a fresh table. *)
EgInit ==
  /\ shared_have = {} /\ pending = {}
  /\ counts = [r \in Requests |-> 0]
  /\ spot = [s \in EgPeers |-> "new"]
  /\ offered = [s \in EgPeers |-> {}]
  /\ known_bits = [s \in EgPeers |-> FALSE]
  /\ target = [s \in EgPeers |-> {}]
  /\ asked = [s \in EgPeers |-> 0]
  /\ waiting = [s \in EgPeers |-> {}]
  /\ got = [s \in EgPeers |-> {}]

-----------------------------------------------------------------------------
(* OutstandingRequests. *)

On(s, o) == {<<p, o>> : p \in target[s]}

(* request: refused at the cap. *)
MayRequest(r) == counts[r] < MaxDuplicates
Request(r) == /\ counts' = [counts EXCEPT ![r] = @ + 1]
              /\ pending' = pending \cup {r}

(* delivered: the block is wanted from nobody any more, whoever asked for it. *)
Delivered(rs) == /\ counts' = [r \in Requests |-> IF r \in rs THEN 0 ELSE counts[r]]
                 /\ pending' = pending \ rs

(* cancel_request for every block the session still waits for. *)
CancelRequests(rs) ==
  LET lowered == [r \in Requests |-> IF r \in rs /\ counts[r] > 0 THEN counts[r] - 1 ELSE counts[r]]
  IN  /\ counts' = lowered
      /\ pending' = {r \in pending : r \notin rs \/ lowered[r] > 0}

(* clear_piece *)
ClearPiece(ps) == Delivered({r \in Requests : r[1] \in ps})

-----------------------------------------------------------------------------
(* endgame_peer_session. *)

Goes(s, to) == spot' = [spot EXCEPT ![s] = to]

(* Back at the head of the loop with no piece in hand. *)
Drops(s, to) == /\ Goes(s, to)
                /\ target' = [target EXCEPT ![s] = {}]
                /\ asked' = [asked EXCEPT ![s] = 0]
                /\ waiting' = [waiting EXCEPT ![s] = {}]
                /\ got' = [got EXCEPT ![s] = {}]

Idle == UNCHANGED <<target, asked, waiting, got>>

Open(s) ==
  /\ spot[s] = "new"
  /\ \E to \in {"choked", "closed"} : Goes(s, to)
  /\ Idle /\ UNCHANGED <<shared_have, table, peer>>

PeerBitfield(s, bits) ==
  /\ spot[s] \in {"choked", "reading"}
  /\ offered' = [offered EXCEPT ![s] = bits]
  /\ known_bits' = [known_bits EXCEPT ![s] = TRUE]
  /\ Idle /\ UNCHANGED <<shared_have, table, spot>>

PeerUnchokes(s) ==
  /\ spot[s] = "choked"
  /\ Goes(s, "free")
  /\ Idle /\ UNCHANGED <<shared_have, table, peer>>

(* Deadline, completion, silence, a closed connection, or a message that       *)
(* cannot be sent. An error in the request loop leaves the counts it added.    *)
Close(s) ==
  /\ spot[s] \in {"choked", "free", "asking", "cancelling"}
  /\ Drops(s, "closed")
  /\ UNCHANGED <<shared_have, table, peer>>

Wanted(s) == offered[s] \ shared_have

(* The piece of highest priority the peer has; the last of equals. *)
Choice(s, p) ==
  /\ p \in Wanted(s)
  /\ \A q \in Wanted(s) : \/ EgPriority[p] > EgPriority[q]
                          \/ EgPriority[p] = EgPriority[q] /\ p >= q

(* Unchoked: no bitfield yet or nothing left to ask for ends the session. *)
Choose(s) ==
  /\ spot[s] = "free"
  /\ IF known_bits[s] /\ Wanted(s) # {}
       THEN /\ \E p \in Wanted(s) : Choice(s, p) /\ target' = [target EXCEPT ![s] = {p}]
            /\ Goes(s, "asking")
            /\ UNCHANGED <<asked, waiting, got>>
       ELSE Drops(s, "closed")
  /\ UNCHANGED <<shared_have, table, peer>>

(* One turn of the request loop. *)
Ask(s) ==
  /\ spot[s] = "asking" /\ asked[s] < EgBlocks
  /\ asked' = [asked EXCEPT ![s] = @ + 1]
  /\ \E r \in On(s, asked[s] + 1) :
       IF MayRequest(r)
         THEN Request(r) /\ waiting' = [waiting EXCEPT ![s] = @ \cup {asked[s] + 1}]
         ELSE UNCHANGED <<table, waiting>>
  /\ UNCHANGED <<shared_have, spot, peer, target, got>>

(* The loop is through. With every block refused the session tries again at    *)
(* once.                                                                      *)
Asked(s) ==
  /\ spot[s] = "asking" /\ asked[s] = EgBlocks
  /\ IF waiting[s] = {} THEN Drops(s, "free") ELSE Goes(s, "reading") /\ Idle
  /\ UNCHANGED <<shared_have, table, peer>>

(* A block this session waits for. *)
Receive(s, o) ==
  /\ spot[s] = "reading" /\ o \in waiting[s]
  /\ waiting' = [waiting EXCEPT ![s] = @ \ {o}]
  /\ got' = [got EXCEPT ![s] = @ \cup {o}]
  /\ Delivered(On(s, o))
  /\ UNCHANGED <<shared_have, spot, peer, target, asked>>

(* 20 s limit, choke, a closed connection: release_endgame_session_requests.   *)
GiveUpQuietly(s) ==
  /\ spot[s] = "reading" /\ got[s] # 1 .. EgBlocks
  /\ \E to \in {"choked", "free"} : Drops(s, to)
  /\ UNCHANGED <<shared_have, table, peer>>
GiveUp(s) ==
  /\ spot[s] = "reading" /\ got[s] # 1 .. EgBlocks
  /\ \E to \in {"choked", "free"} : Drops(s, to)
  /\ CancelRequests(UNION {On(s, o) : o \in waiting[s]})
  /\ UNCHANGED <<shared_have, peer>>

(* All blocks: verify_piece. *)
Assembled(s) ==
  /\ spot[s] = "reading" /\ got[s] = 1 .. EgBlocks
  /\ (Goes(s, "verified") /\ Idle) \/ Drops(s, "free")
  /\ UNCHANGED <<shared_have, table, peer>>

(* `already`: another session may have set the piece meanwhile. *)
CheckAlready(s) ==
  /\ spot[s] = "verified"
  /\ Goes(s, IF target[s] \subseteq shared_have THEN "cancelling" ELSE "writing")
  /\ Idle /\ UNCHANGED <<shared_have, table, peer>>

WriteEndgamePiece(s) ==
  /\ spot[s] = "writing"
  /\ shared_have' = shared_have \cup target[s]
  /\ Goes(s, "clearing")
  /\ Idle /\ UNCHANGED <<table, peer>>

WriteError(s) ==
  /\ spot[s] = "writing"
  /\ Drops(s, "closed")
  /\ UNCHANGED <<shared_have, table, peer>>

Clear(s) ==
  /\ spot[s] = "clearing"
  /\ ClearPiece(target[s])
  /\ Goes(s, "cancelling")
  /\ Idle /\ UNCHANGED <<shared_have, peer>>

(* The pass over outstanding_for_piece. *)
CancelPass(s) ==
  /\ spot[s] = "cancelling"
  /\ Drops(s, "free")
  /\ UNCHANGED <<shared_have, table, peer>>

EgSession(s) ==
  \/ Open(s) \/ PeerUnchokes(s) \/ Close(s) \/ Choose(s) \/ Ask(s) \/ Asked(s) \/ GiveUp(s)
  \/ Assembled(s) \/ CheckAlready(s) \/ WriteEndgamePiece(s) \/ WriteError(s) \/ Clear(s)
  \/ CancelPass(s)
  \/ \E bits \in SUBSET EgPieces : PeerBitfield(s, bits)
  \/ \E o \in 1 .. EgBlocks : Receive(s, o)

EgNext == \E s \in EgPeers : EgSession(s)

EgSpec == EgInit /\ [][EgNext]_eg_vars

-----------------------------------------------------------------------------
(* The cap never refuses a request: with no more sessions than the cap, a      *)
(* refusal means a session's own earlier request was never given back. A       *)
(* refused block is never asked for again in that attempt, so the piece cannot *)
(* be assembled and the session spins or times out on it.                      *)
NeverRefused ==
  \A s \in EgPeers : spot[s] = "asking" /\ asked[s] < EgBlocks =>
    \A r \in On(s, asked[s] + 1) : MayRequest(r)

(* The table covers no more than was asked: every count stands for sessions    *)
(* that wait for the block or closed on an error while asking for it.          *)
CountsAreOwed ==
  \A r \in Requests :
    counts[r] <= Cardinality({s \in EgPeers : \/ spot[s] = "closed"
                                              \/ r[1] \in target[s] /\ r[2] \in waiting[s]})

(* "once a piece completes the still-outstanding blocks of that piece are      *)
(* cancelled": the pass of the session that completed it finds every request   *)
(* another session still waits for.                                            *)
CancelPassSeesDuplicates ==
  \A s, t \in EgPeers : spot[s] = "cancelling" /\ target[t] = target[s] /\ spot[t] = "reading"
    => \A o \in waiting[t] : On(t, o) \subseteq pending
=============================================================================
