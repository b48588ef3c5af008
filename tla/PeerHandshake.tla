--------------------------- MODULE PeerHandshake ---------------------------
(***************************************************************************)
(* How two peers become a session: the outbound side tries its transports, *)
(* negotiates message stream encryption as its mode asks for, and          *)
(* exchanges handshakes (peer_session.rs, mse.rs); the inbound side peeks  *)
(* at the first bytes, accepts either form long enough to identify the     *)
(* torrent, and then applies the effective mode and the peer filter        *)
(* (seeder.rs, peer_filter.rs).  Both ends are daemons of this code.       *)
(*                                                                         *)
(* A stream is the sequence of the pieces the other end has not read.  The *)
(* opening is cut where the listener's peek can see less than all of it: a *)
(* plaintext handshake is its length byte 19, the rest of the protocol     *)
(* name and the remainder; a public key is its first byte, which may       *)
(* happen to be 19, and the rest.  An address is a number of AddrBytes     *)
(* bytes of ByteBits bits.                                                 *)
(***************************************************************************)
EXTENDS Integers, Sequences, FiniteSets

CONSTANTS
  PhModes,       \* effective encryption modes the two sides may have
  PhOrder,       \* peer_transport_order, a sequence of transports
  PhListens,     \* the transports the other daemon accepts
  PhHashes,      \* stream keys and wire hashes the listener has registered
  PhWanted,      \* the wire hash the dialler asks for
  PhSettings,    \* peer filter settings the two sides may have
  PhAddrs,       \* addresses the dialler may have
  PhThere,       \* the listener's address
  AddrBytes, ByteBits,
  MaxLapses      \* bound: time limits that pass and connections that break

VARIABLES
  dial_mode, listen_mode,   \* the effective encryption modes
  addr, client,             \* the dialler's address and client
  dial_filter, listen_filter,
  dial,        \* the outbound attempt
  serve,       \* the inbound session of the present connection
  inward,      \* the stream from the dialler to the listener
  outward,     \* the stream back
  lapses

ph_vars == <<dial_mode, listen_mode, addr, client, dial_filter, listen_filter,
             dial, serve, inward, outward, lapses>>
ph_setup == <<dial_mode, listen_mode, addr, client, dial_filter, listen_filter>>

-----------------------------------------------------------------------------
(* The peer filter. *)

Clients == {"plain", "barred"}
AddrWidth == AddrBytes * ByteBits

(* Byte number i of an address, the most significant first. *)
AddrByte(ip, i) == (ip \div (2 ^ (ByteBits * (AddrBytes - i)))) % (2 ^ ByteBits)

(* A mask that is one bit short. *)
MaskedShort(byte, bits) == byte - (byte % (2 ^ (ByteBits - bits + 1)))

(* The bits of a byte that a mask of its `bits` highest keeps. *)
Masked(byte, bits) == byte - (byte % (2 ^ (ByteBits - bits)))

(* bytes_prefix_match: whole bytes first, then the bits that remain. *)
BytesPrefixMatch(network, ip, prefix) ==
  LET whole == prefix \div ByteBits
      rest == prefix % ByteBits
  IN  /\ \A i \in 1..whole : AddrByte(network, i) = AddrByte(ip, i)
      /\ rest = 0 \/ Masked(AddrByte(network, whole + 1), rest) = Masked(AddrByte(ip, whole + 1), rest)

(* PeerIpRule::matches. *)
RuleMatches(rule, ip) ==
  CASE rule.kind = "single" -> rule.ip = ip
    [] rule.kind = "range" -> rule.start <= ip /\ ip <= rule.end
    [] rule.kind = "cidr" -> BytesPrefixMatch(rule.network, ip, rule.prefix)

(* PeerIpRule::parse refuses a range whose end is before its start and a   *)
(* prefix longer than the address.                                         *)
RuleParses(rule) ==
  /\ rule.kind = "range" => rule.start <= rule.end
  /\ rule.kind = "cidr" => rule.prefix <= AddrWidth

(* load_blocklist: a line that is no rule is skipped; a source that cannot *)
(* be read refuses the whole policy.                                       *)
Imported(source) == SelectSeq(source.lines, RuleParses)

(* PeerFilter::from_config. *)
Compiles(s) ==
  /\ \A i \in DOMAIN s.rules : RuleParses(s.rules[i])
  /\ \A i \in DOMAIN s.sources : s.sources[i].readable

FromConfig(s) ==
  [failed |-> FALSE, enabled |-> s.enabled, bans |-> s.bans, clients |-> s.clients,
   rules |-> {s.rules[i] : i \in DOMAIN s.rules} \cup
             UNION {{Imported(s.sources[i])[j] : j \in DOMAIN Imported(s.sources[i])} :
                       i \in DOMAIN s.sources}]

(* PeerFilter::fail_closed. *)
FailClosed == [failed |-> TRUE, enabled |-> TRUE, bans |-> {}, clients |-> {}, rules |-> {}]

(* DaemonRuntime's construction: settings that do not compile deny peers. *)
Constructed(s) == IF Compiles(s) THEN FromConfig(s) ELSE FailClosed

(* admit_ip. *)
AdmitIp(f, ip) ==
  /\ ~f.failed
  /\ f.enabled => ip \notin f.bans /\ \A rule \in f.rules : ~RuleMatches(rule, ip)

(* admit_client_id. *)
AdmitClient(f, c) == ~f.failed /\ (f.enabled => c \notin f.clients)

-----------------------------------------------------------------------------
NoSession == [stage |-> "none", encrypted |-> FALSE]

PhInit ==
  /\ dial_mode \in PhModes
  /\ listen_mode \in PhModes
  /\ addr \in PhAddrs
  /\ client \in Clients
  /\ \E a \in PhSettings, b \in PhSettings :
       dial_filter = Constructed(a) /\ listen_filter = Constructed(b)
  /\ dial = [stage |-> "admit", index |-> 1, encrypted |-> FALSE, plain |-> FALSE]
  /\ serve = NoSession
  /\ inward = <<>>
  /\ outward = <<>>
  /\ lapses = 0

Stays == UNCHANGED <<ph_setup, lapses>>

(* connect_peer_wire_with_transport asks the filter first. *)
Admit ==
  /\ dial.stage = "admit"
  /\ dial' = [dial EXCEPT !.stage = IF AdmitIp(dial_filter, PhThere) THEN "connect" ELSE "failed"]
  /\ UNCHANGED <<serve, inward, outward>>
  /\ Stays

(* An attempt failed: the next transport, or the end. *)
AttemptFailed ==
  [dial EXCEPT !.stage = IF dial.index < Len(PhOrder) THEN "connect" ELSE "failed",
               !.index = IF dial.index < Len(PhOrder) THEN dial.index + 1 ELSE dial.index,
               !.encrypted = FALSE, !.plain = FALSE]

(* The pieces of a public key and of a handshake in the clear. *)
KeyPieces == {<<"nineteen", "key">>, <<"first", "key">>}
PlainHandshake == <<"nineteen", "name", "handshake">>

(* The mode asks for encryption and this is not the plaintext retry. *)
Encrypts == dial_mode # "disabled" /\ ~dial.plain

(* connect_peer_stream succeeds; the listener's hub accepts and asks its   *)
(* filter.  The dialler writes the opening of its mode.                    *)
Connect ==
  /\ dial.stage = "connect"
  /\ PhOrder[dial.index] \in PhListens
  /\ serve' = [stage |-> IF AdmitIp(listen_filter, addr) THEN "peek" ELSE "closed",
               encrypted |-> FALSE]
  /\ IF Encrypts
     THEN /\ dial' = [dial EXCEPT !.stage = "key"]
          /\ inward' \in KeyPieces
     ELSE /\ dial' = [dial EXCEPT !.stage = "hello", !.encrypted = FALSE]
          /\ inward' = PlainHandshake
  /\ outward' = <<>>
  /\ Stays

(* The transport cannot be opened. *)
ConnectFails ==
  /\ dial.stage = "connect"
  /\ PhOrder[dial.index] \notin PhListens
  /\ dial' = AttemptFailed
  /\ UNCHANGED <<serve, inward, outward>>
  /\ Stays

(* mse::connect: the peer's key arrives; the request, with the torrent as  *)
(* stream key, and the offer follow.                                       *)
SendOffer ==
  /\ dial.stage = "key"
  /\ outward # <<>>
  /\ Head(outward) = "key"
  /\ outward' = Tail(outward)
  /\ inward' = inward \o <<"request", "offer">>
  /\ dial' = [dial EXCEPT !.stage = "select"]
  /\ UNCHANGED serve
  /\ Stays

(* read_responder_selection: the stream is encrypted and the handshake is  *)
(* written on it.                                                          *)
Selected ==
  /\ dial.stage = "select"
  /\ outward # <<>>
  /\ outward' = Tail(outward)
  /\ inward' = Append(inward, "handshake")
  /\ dial' = [dial EXCEPT !.stage = "hello", !.encrypted = TRUE]
  /\ UNCHANGED serve
  /\ Stays

(* attempt_peer_wire_transport: the preferred mode reconnects the same     *)
(* transport in the clear when the negotiation fails.                      *)
RetriesPlain == dial_mode = "preferred"

Negotiating == dial.stage \in {"key", "select"}
NegotiationFails ==
  dial' = IF RetriesPlain THEN [dial EXCEPT !.stage = "connect", !.plain = TRUE] ELSE AttemptFailed

(* The listener closed the stream; what it wrote before has been read. *)
Closed == serve.stage = "closed" /\ outward = <<>>

NegotiationClosed ==
  /\ Negotiating
  /\ Closed
  /\ NegotiationFails
  /\ UNCHANGED <<serve, inward, outward>>
  /\ Stays

(* The 10 s limit on the negotiation, or a broken connection.  The old     *)
(* session of the listener ends with its stream.                           *)
NegotiationLapses ==
  /\ Negotiating
  /\ lapses < MaxLapses
  /\ lapses' = lapses + 1
  /\ NegotiationFails
  /\ serve' = [serve EXCEPT !.stage = "closed"]
  /\ inward' = <<>>
  /\ outward' = <<>>
  /\ UNCHANGED ph_setup

(* The peer's handshake: its hash, a peer id other than ours, and its      *)
(* client are checked.  A daemon's own client is never barred here.        *)
Hello ==
  /\ dial.stage = "hello"
  /\ outward # <<>>
  /\ outward' = Tail(outward)
  /\ dial' = [dial EXCEPT !.stage = "up"]
  /\ UNCHANGED <<serve, inward>>
  /\ Stays

HelloClosed ==
  /\ dial.stage = "hello"
  /\ Closed
  /\ dial' = AttemptFailed
  /\ UNCHANGED <<serve, inward, outward>>
  /\ Stays

HelloLapses ==
  /\ dial.stage = "hello"
  /\ lapses < MaxLapses
  /\ lapses' = lapses + 1
  /\ dial' = AttemptFailed
  /\ serve' = [serve EXCEPT !.stage = "closed"]
  /\ inward' = <<>>
  /\ outward' = <<>>
  /\ UNCHANGED ph_setup

-----------------------------------------------------------------------------
(* serve_routed_peer. *)

(* How much of the stream one peek sees: some prefix that has arrived. *)
Seen == {n \in 1..2 : n <= Len(inward)}

(* looks_like_plaintext_peer_handshake: undecided while only the length    *)
(* byte is there.                                                          *)
LooksPlain(n) == n = 2 /\ SubSeq(inward, 1, 2) = <<"nineteen", "name">>

LooksEncrypted(n) == inward[1] # "nineteen" \/ (n = 2 /\ inward[2] # "name")

Peek ==
  /\ serve.stage = "peek"
  /\ \E n \in Seen :
       \/ LooksPlain(n) /\ serve' = [stage |-> "hello", encrypted |-> FALSE]
       \/ /\ ~LooksPlain(n)
          /\ LooksEncrypted(n)
          /\ serve' = [stage |-> "key", encrypted |-> TRUE]
  /\ UNCHANGED <<dial, inward, outward>>
  /\ Stays

(* accept_matching: the key of the other side is read, ours is written. *)
AcceptKey ==
  /\ serve.stage = "key"
  /\ Len(inward) >= 2
  /\ inward' = SubSeq(inward, 3, Len(inward))
  /\ outward' = Append(outward, "key")
  /\ serve' = [serve EXCEPT !.stage = "request"]
  /\ UNCHANGED dial
  /\ Stays

(* The request names a registered torrent; the offer is answered. *)
AcceptRequest ==
  /\ serve.stage = "request"
  /\ Len(inward) >= 2
  /\ inward' = SubSeq(inward, 3, Len(inward))
  /\ IF PhWanted \in PhHashes
     THEN outward' = Append(outward, "select") /\ serve' = [serve EXCEPT !.stage = "hello"]
     ELSE outward' = outward /\ serve' = [serve EXCEPT !.stage = "closed"]
  /\ UNCHANGED dial
  /\ Stays

(* Plaintext is let through in every mode. *)
ModeAllowsPlain(encrypted) == listen_mode = "disabled" => ~encrypted

(* The effective mode of the torrent decides on the form that was used. *)
ModeAllows(encrypted) ==
  /\ listen_mode = "required" => encrypted
  /\ listen_mode = "disabled" => ~encrypted

(* read_v2_peer_handshake, the registry lookup, the mode and the client.   *)
(* The session then answers with its own handshake.                        *)
Routed ==
  /\ serve.stage = "hello"
  /\ LET whole == IF serve.encrypted THEN 1 ELSE 3
     IN  Len(inward) >= whole /\ inward' = SubSeq(inward, whole + 1, Len(inward))
  /\ IF PhWanted \in PhHashes /\ ModeAllows(serve.encrypted) /\ AdmitClient(listen_filter, client)
     THEN serve' = [serve EXCEPT !.stage = "up"] /\ outward' = Append(outward, "handshake")
     ELSE serve' = [serve EXCEPT !.stage = "closed"] /\ outward' = outward
  /\ UNCHANGED dial
  /\ Stays

(* The listener's limits: 5 s on the peek, 10 s on the negotiation and     *)
(* 15 s on the handshake.                                                  *)
ServeLapses ==
  /\ serve.stage \in {"peek", "key", "request", "hello"}
  /\ lapses < MaxLapses
  /\ lapses' = lapses + 1
  /\ serve' = [serve EXCEPT !.stage = "closed"]
  /\ UNCHANGED <<ph_setup, dial, inward, outward>>

PhSteps ==
  \/ Admit \/ Connect \/ ConnectFails \/ SendOffer \/ Selected \/ NegotiationClosed
  \/ Hello \/ HelloClosed \/ Peek \/ AcceptKey \/ AcceptRequest \/ Routed

PhNext == PhSteps \/ NegotiationLapses \/ HelloLapses \/ ServeLapses

PhSpec == PhInit /\ [][PhNext]_ph_vars /\ WF_ph_vars(PhSteps)

(* The states of the two ends. *)
PhTypeOK ==
  /\ dial.stage \in {"admit", "connect", "key", "select", "hello", "up", "failed"}
  /\ dial.index \in DOMAIN PhOrder
  /\ serve.stage \in {"none", "peek", "key", "request", "hello", "up", "closed"}
  /\ lapses \in 0..MaxLapses

-----------------------------------------------------------------------------
(* The prefix of an address, as the number its highest bits make. *)
Prefix(ip, prefix) == ip \div (2 ^ (AddrWidth - prefix))

(* What the operator's settings bar, read without the code's byte masks. *)
Barred(f) ==
  \/ f.failed
  \/ /\ f.enabled
     /\ \/ addr \in f.bans
        \/ client \in f.clients
        \/ \E rule \in f.rules :
             IF rule.kind = "cidr"
             THEN Prefix(rule.network, rule.prefix) = Prefix(addr, rule.prefix)
             ELSE RuleMatches(rule, addr)

(* A session that both ends hold used the form that both effective modes   *)
(* allow, and its peer is none that the listener's settings bar            *)
(* (peer_session.rs 755-797, seeder.rs 785-811).                           *)
SessionsHonourPolicy ==
  dial.stage = "up" =>
    /\ dial.encrypted = serve.encrypted
    /\ "required" \in {dial_mode, listen_mode} => dial.encrypted
    /\ "disabled" \in {dial_mode, listen_mode} => ~dial.encrypted
    /\ ~Barred(listen_filter)

(* Two ends whose modes and filters can agree do not give up unless a time *)
(* limit passed: required with disabled cannot agree, nor can a preferred  *)
(* dialler with a disabled listener, whose negotiation succeeds before the *)
(* listener's mode refuses it.                                             *)
WillingEndsMeet ==
  dial.stage = "failed" /\ lapses = 0 =>
    \/ PhWanted \notin PhHashes
    \/ ~AdmitIp(dial_filter, PhThere)
    \/ Barred(listen_filter)
    \/ {dial_mode, listen_mode} = {"required", "disabled"}
    \/ dial_mode = "preferred" /\ listen_mode = "disabled"

(* The preferred mode falls back to plaintext where the other end takes    *)
(* nothing else ("then retries plaintext only on the same selected         *)
(* contained transport", docs/configuration.md:704).                       *)
PreferredFallsBack ==
  dial.stage = "failed" /\ lapses = 0 /\ dial_mode = "preferred" =>
    \/ PhWanted \notin PhHashes
    \/ ~AdmitIp(dial_filter, PhThere)
    \/ Barred(listen_filter)

=============================================================================
