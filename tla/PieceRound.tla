----------------------------- MODULE PieceRound -----------------------------
(* A parallel round of one engine: concurrent sessions reserve distinct       *)
(* pieces, request their blocks, verify, write and set the shared bit         *)
(* (swarmotterd/src/engine/parallel.rs). Engine sees a round as a set of      *)
(* pieces written and set in any order; this module is what happens inside.   *)
(*                                                                            *)
(* ParallelPieceState is behind one mutex; every step below that reads or     *)
(* changes it is one critical section. A session serves its downloads from a  *)
(* read loop with a 20 s idle limit, so a session with downloads always ends  *)
(* its window. Which of the equally good pieces reserve_piece takes depends   *)
(* on a hash of the peer's address and is left open.                          *)
EXTENDS Naturals, FiniteSets

CONSTANTS
  Rounders,     \* the peers with a session in this round
  Pieces,       \* the pieces the selection wants and the round starts without
  Priority,     \* PieceSelection::priority, a function on Pieces
  Offers,       \* the bitfields a peer may send
  Blocks,       \* blocks in a piece
  PieceWindow,  \* NORMAL_PEER_PIECE_WINDOW
  Budgets       \* the values desired_in_flight takes as the rate changes

(* What a round may take for granted: finitely many peers and pieces, a peer's *)
(* bitfield names pieces, and windows and budgets are counts.                 *)
ASSUME RoundAssumption ==
  /\ IsFiniteSet(Rounders) /\ IsFiniteSet(Pieces)
  /\ Offers \subseteq SUBSET Pieces
  /\ Blocks \in Nat /\ PieceWindow \in Nat /\ Budgets \subseteq Nat

VARIABLES
  have,          \* ParallelPieceState.have, of Pieces
  reserved,      \* ParallelPieceState.reserved
  availability,  \* ParallelPieceState.availability
  peer_pieces,   \* ParallelPieceState.peer_pieces; {} for no entry
  at,            \* where each session is
  quota,         \* max_for_this_session of the fill under way
  known,         \* peer_bf is set; its bits are those of peer_pieces
  choking,       \* peer_choking
  downloads,     \* piece -> number of requests sent, and those not answered
  current,       \* the piece being written, as a set
  received,      \* received_any in this window
  over           \* the round has ended and its sessions are aborted

work == <<have, reserved, availability, peer_pieces>>
session == <<at, quota, known, choking, downloads, current, received>>
pr_vars == <<work, session, over>>

Places == {"new", "wait", "fill", "window", "writing", "written", "refill",
           "ended"}
Download == [next : 0 .. Blocks, flight : SUBSET (1 .. Blocks)]
Downloads == UNION {[held -> Download] : held \in SUBSET Pieces}

PrTypeOK ==
  /\ have \subseteq Pieces /\ reserved \subseteq Pieces
  /\ availability \in [Pieces -> Nat]
  /\ peer_pieces \in [Rounders -> SUBSET Pieces]
  /\ at \in [Rounders -> Places]
  /\ quota \in [Rounders -> Nat]
  /\ known \in [Rounders -> BOOLEAN]
  /\ choking \in [Rounders -> BOOLEAN]
  /\ downloads \in [Rounders -> Downloads]
  /\ current \in [Rounders -> SUBSET Pieces]
  /\ received \in [Rounders -> BOOLEAN]
  /\ over \in BOOLEAN

NoDownloads == [p \in {} |-> 0]

(* run_parallel_peer_round: ParallelPieceState::new and one task per candidate. *)
PrInit ==
  /\ have = {} /\ reserved = {}
  /\ availability = [p \in Pieces |-> 0]
  /\ peer_pieces = [s \in Rounders |-> {}]
  /\ at = [s \in Rounders |-> "new"]
  /\ quota = [s \in Rounders |-> 0]
  /\ known = [s \in Rounders |-> FALSE]
  /\ choking = [s \in Rounders |-> TRUE]
  /\ downloads = [s \in Rounders |-> NoDownloads]
  /\ current = [s \in Rounders |-> {}]
  /\ received = [s \in Rounders |-> FALSE]
  /\ over = FALSE

-----------------------------------------------------------------------------
(* ParallelPieceState. *)

Held(s) == DOMAIN downloads[s]
InFlight(s) == LET pairs == {x \in Held(s) \X (1 .. Blocks) : x[2] \in downloads[s][x[1]].flight}
               IN Cardinality(pairs)

With(s, p, d) == [q \in Held(s) \cup {p} |-> IF q = p THEN d ELSE downloads[s][q]]
Without(s, p) == [q \in Held(s) \ {p} |-> downloads[s][q]]

(* note_peer_bitfield: the peer's earlier bits are taken back first. *)
NoteBitfield(s, bits) ==
  /\ peer_pieces' = [peer_pieces EXCEPT ![s] = bits]
  /\ availability' = [p \in Pieces |->
       availability[p] - (IF p \in peer_pieces[s] THEN 1 ELSE 0) + (IF p \in bits THEN 1 ELSE 0)]

(* note_peer_have *)
NoteHave(s, p) == NoteBitfield(s, peer_pieces[s] \cup {p})

(* remove_peer *)
RemovePeer(s) == NoteBitfield(s, {})

Assignable(s) == (peer_pieces[s] \ have) \ reserved

(* reserve_piece: highest priority, then rarest; an availability of 0 counts as 1. *)
Rarity(p) == IF availability[p] = 0 THEN 1 ELSE availability[p]
Best(s, p) ==
  /\ p \in Assignable(s)
  /\ \A q \in Assignable(s) : \/ Priority[p] > Priority[q]
                              \/ Priority[p] = Priority[q] /\ Rarity(p) <= Rarity(q)

(* send_more: requests in order while the window has room. *)
Sent(d, room) ==
  LET n == IF d.next + room < Blocks THEN d.next + room ELSE Blocks
  IN  [next |-> n, flight |-> d.flight \cup (d.next + 1 .. n)]

-----------------------------------------------------------------------------
(* A session: connecting and waiting. *)

(* Permit, connection, handshake and the opening messages; any may fail. *)
Connect(s) ==
  /\ at[s] = "new"
  /\ \E to \in {"wait", "ended"} : at' = [at EXCEPT ![s] = to]
  /\ UNCHANGED <<work, quota, known, choking, downloads, current, received, over>>

Listening(s) == at[s] \in {"wait", "window"}

(* Message::Bitfield *)
Bitfield(s, bits) ==
  /\ Listening(s)
  /\ NoteBitfield(s, bits)
  /\ known' = [known EXCEPT ![s] = TRUE]
  /\ UNCHANGED <<have, reserved, at, quota, choking, downloads, current, received, over>>

(* Message::Have, apply_peer_have *)
PeerHas(s, p) ==
  /\ Listening(s)
  /\ p \notin peer_pieces[s]
  /\ NoteHave(s, p)
  /\ known' = [known EXCEPT ![s] = TRUE]
  /\ UNCHANGED <<have, reserved, at, quota, choking, downloads, current, received, over>>

Unchoke(s) ==
  /\ Listening(s) /\ choking[s]
  /\ choking' = [choking EXCEPT ![s] = FALSE]
  /\ UNCHANGED <<work, at, quota, known, downloads, current, received, over>>

(* A choke while waiting; in a window it ends the window, see WindowEnds. *)
Choke(s) ==
  /\ at[s] = "wait" /\ ~choking[s]
  /\ choking' = [choking EXCEPT ![s] = TRUE]
  /\ UNCHANGED <<work, at, quota, known, downloads, current, received, over>>

(* The session ends: deadline, completion, silence, a closed connection, an    *)
(* error. Every way out of the loop removes the peer.                          *)
EndKeepingPeer(s) ==
  /\ at[s] = "wait"
  /\ at' = [at EXCEPT ![s] = "ended"]
  /\ UNCHANGED <<work, quota, known, choking, downloads, current, received, over>>
EndSession(s) ==
  /\ at[s] = "wait"
  /\ at' = [at EXCEPT ![s] = "ended"]
  /\ RemovePeer(s)
  /\ known' = [known EXCEPT ![s] = FALSE]
  /\ choking' = [choking EXCEPT ![s] = TRUE]
  /\ UNCHANGED <<have, reserved, quota, downloads, current, received, over>>

-----------------------------------------------------------------------------
(* fill_parallel_piece_window. *)

Ceiling(n, d) == (n + d - 1) \div d
Least(m, n) == IF m <= n THEN m ELSE n

(* The share of the pieces this peer could take now, counted before reserving: *)
(* on entering a window, and again after each piece written.                  *)
StartFill(s) ==
  /\ \/ /\ at[s] = "wait" /\ ~choking[s] /\ known[s] /\ have # Pieces
        /\ at' = [at EXCEPT ![s] = "fill"]
     \/ /\ at[s] = "written"
        /\ at' = [at EXCEPT ![s] = "refill"]
  /\ quota' = [quota EXCEPT ![s] = Least(PieceWindow,
                 Ceiling(Cardinality(Assignable(s)), Cardinality(Rounders)))]
  /\ UNCHANGED <<work, known, choking, downloads, current, received, over>>

Filling(s) == at[s] \in {"fill", "refill"}
Begun(s, budget) == Sent([next |-> 0, flight |-> {}], budget - InFlight(s))

(* reserve_piece under the lock, then the first requests of the piece. *)
ReserveUnmarked(s, p) ==
  /\ Filling(s) /\ Cardinality(Held(s)) < quota[s] /\ Best(s, p)
  /\ \E budget \in Budgets :
       /\ InFlight(s) < budget
       /\ downloads' = [downloads EXCEPT ![s] = With(s, p, Begun(s, budget))]
  /\ UNCHANGED <<work, at, quota, known, choking, current, received, over>>
Reserve(s, p) ==
  /\ Filling(s) /\ Cardinality(Held(s)) < quota[s] /\ Best(s, p)
  /\ reserved' = reserved \cup {p}
  /\ \E budget \in Budgets :
       /\ InFlight(s) < budget
       /\ downloads' = [downloads EXCEPT ![s] = With(s, p, Begun(s, budget))]
  /\ UNCHANGED <<have, availability, peer_pieces, at, quota, known, choking, current,
                 received, over>>

(* Every way out of a session with reservations: the pieces it holds, the one  *)
(* it was writing included, go back, and the peer is removed.                  *)
Leave(s) ==
  /\ at' = [at EXCEPT ![s] = "ended"]
  /\ reserved' = (reserved \ Held(s)) \ current[s]
  /\ downloads' = [downloads EXCEPT ![s] = NoDownloads]
  /\ current' = [current EXCEPT ![s] = {}]
  /\ RemovePeer(s)
  /\ quota' = [quota EXCEPT ![s] = 0]
  /\ received' = [received EXCEPT ![s] = FALSE]
  /\ known' = [known EXCEPT ![s] = FALSE]
  /\ choking' = [choking EXCEPT ![s] = TRUE]
  /\ UNCHANGED <<have, over>>

(* The fill stops: quota or request window full, or nothing assignable. With   *)
(* nothing held, a first fill ends the session (NoWorkAvailable or             *)
(* NotInterested) and a refill ends the window.                                *)
FillStops(s) ==
  \/ Cardinality(Held(s)) >= quota[s]
  \/ Assignable(s) = {}
  \/ \E budget \in Budgets : InFlight(s) >= budget
FillEnds(s) ==
  /\ Filling(s) /\ FillStops(s)
  /\ \/ at[s] = "fill" /\ Held(s) = {} /\ Leave(s)
     \/ /\ at[s] = "refill" \/ Held(s) # {}
        /\ at' = [at EXCEPT ![s] = IF Held(s) = {} THEN "wait" ELSE "window"]
        /\ received' = [received EXCEPT ![s] = @ /\ Held(s) # {}]
        /\ quota' = [quota EXCEPT ![s] = 0]
        /\ UNCHANGED <<work, known, choking, downloads, current, over>>

(* A request or Have cannot be sent. A first fill that holds pieces reads the  *)
(* window out before the error ends the session; a refill leaves at once.      *)
FillFails(s) ==
  /\ Filling(s)
  /\ IF at[s] = "fill" /\ Held(s) # {}
       THEN /\ at' = [at EXCEPT ![s] = "window"]
            /\ quota' = [quota EXCEPT ![s] = 0]
            /\ UNCHANGED <<work, known, choking, downloads, current, received, over>>
       ELSE Leave(s)

-----------------------------------------------------------------------------
(* The window: blocks, verification, writing. *)

(* record_block for an outstanding offset, then send_more on the same piece. A *)
(* block of another offset or length changes nothing.                          *)
Block(s, p, o) ==
  /\ at[s] = "window" /\ p \in Held(s) /\ o \in downloads[s][p].flight
  /\ LET d == [downloads[s][p] EXCEPT !.flight = @ \ {o}]
     IN  /\ d # [next |-> Blocks, flight |-> {}]
         /\ \E budget \in Budgets :
              LET room == IF budget > InFlight(s) - 1 THEN budget - (InFlight(s) - 1) ELSE 0
              IN  downloads' = [downloads EXCEPT ![s][p] = Sent(d, room)]
  /\ received' = [received EXCEPT ![s] = TRUE]
  /\ UNCHANGED <<work, at, quota, known, choking, current, over>>

(* The last block: the piece leaves downloads and is verified.                 *)
LastBlock(s, p, o) ==
  /\ at[s] = "window" /\ p \in Held(s)
  /\ downloads[s][p] = [next |-> Blocks, flight |-> {o}]
  /\ downloads' = [downloads EXCEPT ![s] = Without(s, p)]

Verified(s, p, o) ==
  /\ LastBlock(s, p, o)
  /\ at' = [at EXCEPT ![s] = "writing"]
  /\ current' = [current EXCEPT ![s] = {p}]
  /\ received' = [received EXCEPT ![s] = TRUE]
  /\ UNCHANGED <<work, quota, known, choking, over>>

HashMismatchKeeps(s, p, o) ==
  /\ LastBlock(s, p, o)
  /\ at' = [at EXCEPT ![s] = IF Held(s) = {p} THEN "wait" ELSE "window"]
  /\ received' = [received EXCEPT ![s] = Held(s) # {p}]
  /\ UNCHANGED <<work, quota, known, choking, current, over>>
HashMismatch(s, p, o) ==
  /\ LastBlock(s, p, o)
  /\ reserved' = reserved \ {p}
  /\ at' = [at EXCEPT ![s] = IF Held(s) = {p} THEN "wait" ELSE "window"]
  /\ received' = [received EXCEPT ![s] = Held(s) # {p}]
  /\ UNCHANGED <<have, availability, peer_pieces, quota, known, choking, current, over>>

(* write_piece succeeds; the bit and the release share one critical section.   *)
WritePiece(s) ==
  /\ at[s] = "writing"
  /\ have' = have \cup current[s]
  /\ reserved' = reserved \ current[s]
  /\ current' = [current EXCEPT ![s] = {}]
  /\ at' = [at EXCEPT ![s] = "written"]
  /\ UNCHANGED <<availability, peer_pieces, quota, known, choking, downloads, received, over>>

WriteFails(s) == at[s] = "writing" /\ Leave(s)

(* Idle limit, choke, a closed connection or an error: the window ends and     *)
(* gives back what it holds. The session goes on only if a block came.         *)
WindowEnds(s) ==
  /\ at[s] = "window"
  /\ \/ Leave(s)
     \/ /\ received[s]
        /\ at' = [at EXCEPT ![s] = "wait"]
        /\ received' = [received EXCEPT ![s] = FALSE]
        /\ reserved' = reserved \ Held(s)
        /\ downloads' = [downloads EXCEPT ![s] = NoDownloads]
        /\ \E choke \in BOOLEAN : choking' = [choking EXCEPT ![s] = choke]
        /\ UNCHANGED <<have, availability, peer_pieces, quota, known, current, over>>

-----------------------------------------------------------------------------
(* run_parallel_peer_round: complete, deadline, or every session ended; the    *)
(* sessions still running are aborted and the shared state is dropped.         *)
RoundEnds ==
  /\ ~over /\ over' = TRUE
  /\ reserved' = {}
  /\ availability' = [p \in Pieces |-> 0]
  /\ peer_pieces' = [s \in Rounders |-> {}]
  /\ at' = [s \in Rounders |-> "ended"]
  /\ quota' = [s \in Rounders |-> 0]
  /\ known' = [s \in Rounders |-> FALSE]
  /\ choking' = [s \in Rounders |-> TRUE]
  /\ downloads' = [s \in Rounders |-> NoDownloads]
  /\ current' = [s \in Rounders |-> {}]
  /\ received' = [s \in Rounders |-> FALSE]
  /\ UNCHANGED have

Peer(s) == \/ \E bits \in Offers : Bitfield(s, bits)
           \/ \E p \in Pieces : PeerHas(s, p)
           \/ Unchoke(s)
           \/ Choke(s)
           \/ \E p \in Pieces, o \in 1 .. Blocks :
                Block(s, p, o) \/ Verified(s, p, o) \/ HashMismatch(s, p, o)

(* What the session does by itself, its time limits included. *)
Own(s) == \/ Connect(s)
          \/ StartFill(s)
          \/ \E p \in Pieces : Reserve(s, p)
          \/ FillEnds(s)
          \/ FillFails(s)
          \/ WritePiece(s)
          \/ WriteFails(s)
          \/ WindowEnds(s)
          \/ EndSession(s)

Step(s) == ~over /\ (Peer(s) \/ Own(s))

PrNext == (\E s \in Rounders : Step(s)) \/ RoundEnds

(* A session's own steps need only the runtime, the connection's time limits    *)
(* and the storage; none waits for another session.                            *)
Runs(s) == ~over /\ Own(s)
PrFairness == \A s \in Rounders : WF_pr_vars(Runs(s))

PrSpec == PrInit /\ [][PrNext]_pr_vars /\ PrFairness

-----------------------------------------------------------------------------
(* No piece is fetched by two sessions, none that is written is fetched again, *)
(* and every reservation belongs to a session that is working on it: a release *)
(* forgotten on one of the session's exits would bar the piece for the round.  *)
Working(s) == Held(s) \cup current[s]
ReservationsMatch ==
  /\ reserved = UNION {Working(s) : s \in Rounders}
  /\ \A s, t \in Rounders : s # t => Working(s) \cap Working(t) = {}
  /\ \A s \in Rounders : Held(s) \cap have = {} /\ current[s] \cap Held(s) = {}

(* Rarest-first counts each connected peer once per piece, through repeated    *)
(* bitfields, haves and every way a session ends.                              *)
AvailabilityMatches ==
  /\ \A p \in Pieces : availability[p] = Cardinality({s \in Rounders : p \in peer_pieces[s]})
  /\ \A s \in Rounders : at[s] = "ended" => peer_pieces[s] = {}

(* A session writes only in that step and has announced nothing before it is  *)
(* connected: what ReservationsMatch and AvailabilityMatches rest on.         *)
OnePlace ==
  \A s \in Rounders : /\ at[s] # "writing" => current[s] = {}
                      /\ at[s] = "new" => peer_pieces[s] = {}

(* No exit of a session forgets to give something back: what it had reserved,  *)
(* or its share of the counts.                                                 *)
NothingIsKept == ReservationsMatch /\ AvailabilityMatches

Reserved(p) == p \in reserved

(* A reserved piece is written or given back, even when its session has no     *)
(* request outstanding for it (the window shrank and only a block of that      *)
(* piece refills it).                                                          *)
ReservationEnds == \A p \in Pieces : Reserved(p) ~> ~Reserved(p)
=============================================================================
