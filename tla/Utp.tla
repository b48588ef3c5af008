-------------------------------- MODULE Utp --------------------------------
(* A uTP connection (swarmotter-core/src/utp/mod.rs, sack.rs, congestion.rs)  *)
(* and the driver task of its stream (stream.rs), run at both ends over a     *)
(* network that loses and reorders datagrams; they are repeated by timeouts.   *)
(*                                                                            *)
(* A unit stands for the payload of one DATA packet, and windows count units. *)
(* Sequence numbers wrap at 2^SeqBits (u16 in the code) and start at          *)
(* FirstSeq, so that a connection which has sent for long is covered. Timers  *)
(* may expire at any time. The reader takes everything that is delivered, so  *)
(* the receive window stays open, and queuing delay stays below the target:   *)
(* the congestion window shrinks by losses only.                              *)
EXTENDS Integers, Sequences, FiniteSets, FiniteSetsExt, SequencesExt

CONSTANTS
  SeqBits,
  FirstSeq,     \* sequence number of the SYN and of the reply to it
  Units,        \* end -> units its application writes
  SendCap,      \* SEND_BUFFER_CAP
  MaxWindow,    \* MAX_CWND
  NetCap        \* bound: datagrams in the network

Ends == {"a", "b"}      \* "a" connects, "b" accepts
Other(e) == CHOOSE f \in Ends : f # e

VARIABLES
  conn,       \* the connection record of each end
  written,    \* units the application wrote and the stream took (poll_write)
  refused,    \* those of them that write() did not take
  net,        \* datagrams under way
  late        \* the connecting end took a STATE that was not the reply to SYN

utp_vars == <<conn, written, refused, net, late>>

-----------------------------------------------------------------------------
(* Wrapping sequence arithmetic. *)
Modulus == 2^SeqBits
Plus(s, n) == (s + n) % Modulus
Distance(s, r) == (s - r) % Modulus       \* s.wrapping_sub(r)
SeqIsAhead(s, r) == Distance(s, r) # 0 /\ Distance(s, r) < Modulus \div 2
SeqAtOrBefore(s, k) == Distance(k, s) < Modulus \div 2

(* Sack::from_held and sack_acks_sequence: bit 0 stands for ack + 2. *)
FirstBitIsNext(k, held) == {Distance(p.seq, k) - 1 : p \in held}
Sack(k, held) == {Distance(p.seq, k) : p \in {q \in held : Distance(q.seq, k) >= 2}}

Fresh == [at |-> "syn", seq_next |-> Plus(FirstSeq, 1), ack |-> 0, ooo |-> {},
          send_buf |-> <<>>, in_flight |-> {}, cwnd |-> 1, got |-> <<>>,
          peer_fin |-> FALSE, fin |-> "no"]
\* at: "syn", "listen", "up", "closed"; fin: "no", "asked", "sent"

Packet(e, typ, seq, unit, k, sack) ==
  [to |-> Other(e), typ |-> typ, seq |-> seq, unit |-> unit, ack |-> k, sack |-> sack]
Syn == Packet("a", "syn", FirstSeq, 0, 0, {})
SendState(e, c) == Packet(e, "state", c.seq_next, 0, c.ack, Sack(c.ack, c.ooo))

UtpInit ==
  /\ conn = [e \in Ends |-> [Fresh EXCEPT !.at = IF e = "a" THEN "syn" ELSE "listen"]]
  /\ written = [e \in Ends |-> <<>>]
  /\ refused = [e \in Ends |-> {}]
  /\ net = {Syn}
  /\ late = FALSE

(* Datagrams sent while the network holds NetCap are lost; others may be. *)
Sends(rest, out, lost) ==
  /\ lost \subseteq out
  /\ Cardinality(rest \cup (out \ lost)) <= NetCap
  /\ net' = rest \cup (out \ lost)

-----------------------------------------------------------------------------
(* The send half of drive(). *)

(* try_send: as many units as the congestion window leaves. *)
NewPackets(c) ==
  LET n == Min({Len(c.send_buf), Max({0, c.cwnd - Cardinality(c.in_flight)})})
  IN  {[seq |-> Plus(c.seq_next, i - 1), unit |-> c.send_buf[i]] : i \in 1 .. n}
TrySend(c) ==
  LET new == NewPackets(c)
      n == Cardinality(new)
  IN  [c EXCEPT !.send_buf = SubSeq(@, n + 1, Len(@)), !.seq_next = Plus(@, n),
                !.in_flight = @ \cup new]

RECURSIVE Halved(_, _)
Halved(w, n) == IF n = 0 THEN w ELSE Halved(Max({1, w \div 2}), n - 1)

DataPackets(e, c, ps, sack) == {Packet(e, "data", p.seq, p.unit, c.ack, sack) : p \in ps}

(* FIN goes out once, as soon as everything queued has been transmitted. *)
FinDue(c) == c.fin = "asked" /\ c.send_buf = <<>>
SendFin(c) == IF FinDue(c) THEN [c EXCEPT !.fin = "sent", !.seq_next = Plus(@, 1)] ELSE c

(* try_send, retransmit (the packets of expired), maybe_send_ack, send_fin. *)
Sent(c, expired) ==
  SendFin([TrySend(c) EXCEPT !.cwnd = Halved(@, Cardinality(expired))])
Outgoing(e, c, expired, due) ==
  LET sack == Sack(c.ack, c.ooo)
      fin == TrySend(c)
  IN  DataPackets(e, c, NewPackets(c), sack) \cup DataPackets(e, c, expired, {})
      \cup (IF due THEN {SendState(e, TrySend(c))} ELSE {})
      \cup (IF FinDue(fin) THEN {Packet(e, "fin", fin.seq_next, 0, c.ack, sack)} ELSE {})

-----------------------------------------------------------------------------
(* handle_packet *)

(* ack_in_flight *)
AckInFlight(c, p) ==
  [c EXCEPT !.in_flight = {q \in @ : ~SeqAtOrBefore(q.seq, p.ack)
                                     /\ Distance(q.seq, p.ack) \notin p.sack}]

(* drain_ooo: the held packets contiguous with the ack number. *)
RECURSIVE DrainOoo(_)
DrainOoo(c) ==
  LET next == {p \in c.ooo : p.seq = Plus(c.ack, 1)}
  IN  IF next = {} THEN c
      ELSE LET p == CHOOSE q \in next : TRUE
           IN  DrainOoo([c EXCEPT !.ooo = @ \ {p}, !.ack = p.seq, !.got = Append(@, p.unit)])

HandleData(c, p) ==
  LET held == [seq |-> p.seq, unit |-> p.unit]
  IN  CASE p.seq = Plus(c.ack, 1) ->
             DrainOoo([c EXCEPT !.ack = p.seq, !.got = Append(@, p.unit)])
        [] p.seq # Plus(c.ack, 1) /\ SeqIsAhead(p.seq, c.ack) -> [c EXCEPT !.ooo = @ \cup {held}]
        [] OTHER -> c

(* Ledbat::on_ack below the target delay. *)
OnAck(c) == [c EXCEPT !.cwnd = Min({@ + 1, MaxWindow})]

HandlePacket(c, p) ==
  CASE p.typ = "data" -> OnAck(HandleData(AckInFlight(c, p), p))
    [] p.typ = "state" -> OnAck(AckInFlight(c, p))
    [] p.typ = "fin" -> [c EXCEPT !.ack = Max({@, p.seq}), !.peer_fin = TRUE,
                                  !.at = IF c.fin = "sent" THEN "closed" ELSE @]
    [] OTHER -> c
Reply(e, c, p) == IF p.typ \in {"fin", "syn"} THEN {SendState(e, c)} ELSE {}

-----------------------------------------------------------------------------
(* One drive() of the end e: it sends, closes if both FINs are through, and    *)
(* else takes one datagram or none.                                            *)
Ready(c) == c.at = "up"
BothFins(c) == c.peer_fin /\ c.fin = "sent"

DriveCloses(e, expired, due, lost) ==
  LET c == Sent(conn[e], expired)
  IN  /\ Ready(conn[e]) /\ BothFins(c)
      /\ conn' = [conn EXCEPT ![e] = [c EXCEPT !.at = "closed"]]
      /\ Sends(net, Outgoing(e, conn[e], expired, due), lost)
      /\ UNCHANGED <<written, refused, late>>

DriveIdle(e, expired, due, lost) ==
  LET c == Sent(conn[e], expired)
  IN  /\ Ready(conn[e]) /\ ~BothFins(c)
      /\ conn' = [conn EXCEPT ![e] = c]
      /\ Sends(net, Outgoing(e, conn[e], expired, due), lost)
      /\ UNCHANGED <<written, refused, late>>

DriveReceives(e, p, lost) ==
  LET c == Sent(conn[e], {})
      d == HandlePacket(c, p)
  IN  /\ Ready(conn[e]) /\ ~BothFins(c)
      /\ p \in net /\ p.to = e
      /\ conn' = [conn EXCEPT ![e] = d]
      /\ Sends(net \ {p},
               Outgoing(e, conn[e], {}, FALSE) \cup Reply(e, d, p), lost)
      /\ UNCHANGED <<written, refused, late>>

(* UtpConnection::connect, waiting: the first datagram decides. *)
Connect(p) ==
  /\ conn["a"].at = "syn" /\ p \in net /\ p.to = "a"
  /\ net' = net \ {p}
  /\ IF p.typ = "state" /\ p.ack = FirstSeq
       THEN /\ conn' = [conn EXCEPT !["a"].at = "up", !["a"].ack = p.seq]
            /\ late' = (p.seq # FirstSeq)
       ELSE /\ conn' = [conn EXCEPT !["a"].at = "closed"]
            /\ UNCHANGED late
  /\ UNCHANGED <<written, refused>>

(* accept_from_syn *)
AcceptFromSyn(keep, lost) ==
  /\ conn["b"].at = "listen" /\ Syn \in net
  /\ conn' = [conn EXCEPT !["b"].at = "up", !["b"].ack = Syn.seq]
  /\ Sends(net \ (IF keep THEN {} ELSE {Syn}),
           {Packet("b", "state", FirstSeq, 0, Syn.seq, {})}, lost)
  /\ UNCHANGED <<written, refused, late>>

(* A connection that hears nothing for IDLE_TIMEOUT is closed: its peer sends  *)
(* a STATE every 200 ms, so that takes a peer that is gone. A SYN without an   *)
(* answer is given up after 10 s.                                              *)
IdleTimeout(e) ==
  /\ conn[e].at \in {"up", "syn"}
  /\ \/ conn[Other(e)].at = "closed" /\ ~\E p \in net : p.to = e
     \/ conn[e].at = "syn" /\ net = {}
  /\ conn' = [conn EXCEPT ![e].at = "closed"]
  /\ UNCHANGED <<written, refused, net, late>>

(* The application writes a unit: poll_write takes it, and the driver hands it *)
(* to write(), which takes none when the send buffer is full.                  *)
AppWrite(e) ==
  /\ conn[e].at = "up" /\ conn[e].fin = "no" /\ Len(written[e]) < Units[e]
  /\ written' = [written EXCEPT ![e] = Append(@, Len(@) + 1)]
  /\ IF Len(conn[e].send_buf) + Cardinality(conn[e].in_flight) < SendCap
       THEN conn' = [conn EXCEPT ![e].send_buf = Append(@, Len(written[e]) + 1)]
            /\ UNCHANGED refused
       ELSE refused' = [refused EXCEPT ![e] = @ \cup {Len(written[e]) + 1}]
            /\ UNCHANGED conn
  /\ UNCHANGED <<net, late>>

AppClose(e) ==
  /\ conn[e].at = "up" /\ conn[e].fin = "no" /\ Len(written[e]) = Units[e]
  /\ conn' = [conn EXCEPT ![e].fin = "asked"]
  /\ UNCHANGED <<written, refused, net, late>>

UtpNext ==
  \/ \E e \in Ends :
       \/ AppWrite(e) \/ AppClose(e) \/ IdleTimeout(e)
       \/ \E due \in BOOLEAN, expired \in SUBSET conn[e].in_flight :
            \E lost \in SUBSET Outgoing(e, conn[e], expired, due) :
              DriveCloses(e, expired, due, lost) \/ DriveIdle(e, expired, due, lost)
       \/ \E p \in net :
            \E lost \in SUBSET (Outgoing(e, conn[e], {}, FALSE)
                                \cup Reply(e, HandlePacket(Sent(conn[e], {}), p), p)) :
              DriveReceives(e, p, lost)
  \/ \E p \in net : Connect(p)
  \/ \E keep \in BOOLEAN, lost \in SUBSET {Packet("b", "state", FirstSeq, 0, Syn.seq, {})} :
       AcceptFromSyn(keep, lost)

UtpSpec == UtpInit /\ [][UtpNext]_utp_vars

-----------------------------------------------------------------------------
(* Units a sender, or the buffer of the receiver, still answers for. *)
Owed(e) == Range(conn[e].send_buf) \cup {p.unit : p \in conn[e].in_flight}
           \cup {p.unit : p \in conn[Other(e)].ooo}

(* What the connection took is delivered once and in order, and until a FIN is *)
(* taken what is not delivered is queued, in flight or held by the receiver:   *)
(* acknowledgements, selective or cumulative, free nothing that did not        *)
(* arrive, whatever is lost, repeated or overtaken.                            *)
NothingForgotten ==
  \A e \in Ends :
    LET got == conn[Other(e)].got
    IN  /\ \A i \in 1 .. Len(got) - 1 : got[i] < got[i + 1]
        /\ ~late /\ ~conn[Other(e)].peer_fin =>
             Range(written[e]) \subseteq Range(got) \cup Owed(e) \cup refused[e]

(* "Send a FIN once all data is acked" (send_fin): an end that has the FIN has *)
(* everything the other end's application wrote.                               *)
StreamIsWhole == \A e \in Ends : conn[e].peer_fin => conn[e].got = written[Other(e)]
=============================================================================
