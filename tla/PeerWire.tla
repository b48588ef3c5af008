------------------------------ MODULE PeerWire ------------------------------
(***************************************************************************)
(* One direction of a peer connection, byte by byte: the frames of the     *)
(* peer wire protocol (crates/swarmotter-core/src/peer.rs), the RC4 stream *)
(* of an encrypted connection with its buffers (mse.rs), and the piece a   *)
(* download session assembles from what it decodes.  The writer finds the  *)
(* socket full, the reader finds it empty, and the caller's timer drops a  *)
(* read that is under way, at any byte.                                    *)
(*                                                                         *)
(* A byte is a number below Byte, a length prefix has Width bytes, and     *)
(* every integer field of a message is one byte: the arithmetic of a frame *)
(* that starts in the wrong place is therefore the code's, scaled down.    *)
(***************************************************************************)
EXTENDS Integers, SequencesExt

CONSTANTS
    Byte,          \* bytes are 0..Byte - 1
    ByteWidth,     \* bits of a byte
    Width,         \* bytes of a length prefix
    MaxFrame,      \* MAX_MESSAGE_LEN
    PwScripts,     \* the messages the sender may write: a set of sequences
    PwPrefixes,    \* bytes of the stream that may arrive in the encryption handshake
    SocketRoom,    \* bytes the connection holds
    Readers,       \* the callers of read_message: "pinned", "ending", "resuming"
    Announced,     \* the pieces of the sender's bitfield
    PwPieceCount, PieceData, Block,
                   \* the torrent: pieces, the bytes of the piece, bytes per block
    MaxTimeouts    \* bound: reads dropped by their caller

VARIABLES
    script, written,             \* what the sender has to write, and has written
    pending_write, outgoing,     \* MseStream of the sender: ciphertext, keystream position
    in_socket,                   \* ciphertext on its way
    read_prefix, incoming,       \* MseStream of the reader
    reader, reading,             \* the caller, and its read_message under way
    decoded,                     \* the messages it was given
    known, buf, received,        \* the peer's bitfield, and the PieceAssembler
    dropped,                     \* history variable: bytes taken and given to nobody
    pw_timeouts

pw_vars == <<script, written, pending_write, outgoing, in_socket, read_prefix, incoming,
             reader, reading, decoded, known, buf, received, dropped, pw_timeouts>>
-----------------------------------------------------------------------------
(* Frames.                                                                 *)

\* The message ids, in the order of MessageId; the ones above eight are
\* renumbered to fit a byte.
Ids == <<"choke", "unchoke", "interested", "not_interested", "have", "bitfield", "request",
         "piece", "cancel", "reject", "extended", "hash_request", "hashes", "hash_reject">>

IdOf(kind) == (CHOOSE i \in DOMAIN Ids : Ids[i] = kind) - 1

Message(kind, payload) == [kind |-> kind, payload |-> payload]

Keepalive == Message("keepalive", <<>>)

Digits(n) == [i \in 1..Width |-> (n \div Byte^(Width - i)) % Byte]

Number(digits) == FoldLeft(LAMBDA n, d: n * Byte + d, 0, digits)

len_prefix(length, body) == Digits(length) \o body

\* Mutant: the length of a frame with a payload leaves out its id.
encode_short(m) ==
    IF m = Keepalive
    THEN len_prefix(0, <<>>)
    ELSE len_prefix(IF m.payload = <<>> THEN 1 ELSE Len(m.payload),
                    <<IdOf(m.kind)>> \o m.payload)

encode(m) ==
    IF m = Keepalive
    THEN len_prefix(0, <<>>)
    ELSE len_prefix(1 + Len(m.payload), <<IdOf(m.kind)>> \o m.payload)

\* root, base layer, index, length and proof layers: one byte each.
HashHeader == 5

validate_v2_hash_request(payload) ==
    payload[4] \in {2, 4, 8} /\ payload[3] % payload[4] = 0

\* The payload lengths a message of its kind may have; any other is Unknown.
WellFormed(kind, payload) ==
    CASE kind \in {"choke", "unchoke", "interested", "not_interested"} -> payload = <<>>
      [] kind = "have" -> Len(payload) = 1
      [] kind \in {"request", "cancel", "reject"} -> Len(payload) = 3
      [] kind = "piece" -> Len(payload) >= 2
      [] kind \in {"hash_request", "hash_reject"} -> Len(payload) = HashHeader
      [] kind = "hashes" -> Len(payload) >= HashHeader
      [] kind = "extended" -> payload # <<>>
      [] OTHER -> TRUE

ParseError == Message("error", <<>>)

decode_frame(body) ==
    LET id == body[1]
        payload == Tail(body)
        kind == IF id < Len(Ids) THEN Ids[id + 1] ELSE "unknown"
    IN  IF ~WellFormed(kind, payload)
        THEN Message("unknown", body)
        ELSE IF /\ kind \in {"hash_request", "hashes", "hash_reject"}
                /\ ~validate_v2_hash_request(payload)
             THEN ParseError
             ELSE Message(kind, payload)
-----------------------------------------------------------------------------
(* Bitfields, blocks and the assembler.                                    *)

Bit(byte, i) == (byte \div 2^(ByteWidth - 1 - i)) % 2 = 1

div_ceil(a, b) == (a + b - 1) \div b

from_bytes(bits) == SubSeq(bits, 1, div_ceil(PwPieceCount, ByteWidth))

has(bits, index) ==
    /\ index < PwPieceCount
    /\ index \div ByteWidth < Len(bits)
    /\ Bit(bits[index \div ByteWidth + 1], index % ByteWidth)

\* A Have sets its bit; the first message about the peer's pieces makes the
\* bitfield.
set(bits, index) ==
    LET byte == index \div ByteWidth + 1
    IN  IF index < PwPieceCount /\ byte \in DOMAIN bits /\ ~has(bits, index)
        THEN [bits EXCEPT ![byte] = @ + 2^(ByteWidth - 1 - (index % ByteWidth))] ELSE bits

apply_peer_have(bits, piece) ==
    set(IF bits = <<>> THEN [i \in 1..div_ceil(PwPieceCount, ByteWidth) |-> 0] ELSE bits, piece)

Ones(byte) == Cardinality({i \in 0..ByteWidth - 1 : Bit(byte, i)})

\* Mutant: the spare bits of the last byte are counted.
count_spare(bits) == FoldLeft(LAMBDA n, b: n + Ones(b), 0, bits)

count(bits) ==
    LET full == PwPieceCount \div ByteWidth
        rem == PwPieceCount % ByteWidth
        whole == FoldLeft(LAMBDA n, b: n + Ones(b), 0, SubSeq(bits, 1, full))
    IN  IF rem > 0 /\ full < Len(bits)
        THEN whole + Ones((bits[full + 1] \div 2^(ByteWidth - rem)) * 2^(ByteWidth - rem))
        ELSE whole

block_requests == {<<o, Min({Block, Len(PieceData) - o})>> :
                       o \in {i * Block : i \in 0..div_ceil(Len(PieceData), Block) - 1}}

Offset(m) == m.payload[2]

BlockOf(m) == SubSeq(m.payload, 3, Len(m.payload))

\* Mutant: a block of the piece is taken whatever its length.
ExpectedAnyLength(m) ==
    /\ m.kind = "piece" /\ m.payload[1] = 0
    /\ \E r \in block_requests : r[1] = Offset(m) /\ r[1] + Len(BlockOf(m)) <= Len(PieceData)

\* The session takes a block of the piece it asked for, with the offset and
\* the length it asked for.
Expected(m) ==
    m.kind = "piece" /\ m.payload[1] = 0 /\ <<Offset(m), Len(BlockOf(m))>> \in block_requests

add_block(m) ==
    [i \in DOMAIN buf |->
        IF i - 1 \in Offset(m)..Offset(m) + Len(BlockOf(m)) - 1
        THEN BlockOf(m)[i - Offset(m)] ELSE buf[i]]

Complete == received = {r[1] : r \in block_requests}
-----------------------------------------------------------------------------
(* The encrypted stream: the n-th byte is masked with the n-th byte of the *)
(* keystream, which both ends step once per byte.                          *)

Keystream(n) == (n * n + 3) % Byte

Apply(bytes, position) ==
    [i \in DOMAIN bytes |-> (bytes[i] + Keystream(position + i - 1)) % Byte]

Unapply(bytes, position) ==
    [i \in DOMAIN bytes |-> (bytes[i] + Byte - Keystream(position + i - 1)) % Byte]

Between == [at |-> "between", bytes |-> <<>>, length |-> 0]

PwInit ==
    /\ script \in PwScripts /\ reader \in Readers
    /\ written = 0 /\ pending_write = <<>> /\ in_socket = <<>>
    /\ \E n \in PwPrefixes :
          LET all == FlattenSeq([i \in DOMAIN script |-> encode(script[i])])
              early == SubSeq(all, 1, n)
          IN  /\ read_prefix = early
              /\ outgoing = Len(early) /\ incoming = Len(early)
    /\ reading = Between
    /\ decoded = <<>>
    /\ known = <<>> /\ buf = [i \in DOMAIN PieceData |-> 0] /\ received = {}
    /\ dropped = FALSE
    /\ pw_timeouts = 0

ReaderVars == <<read_prefix, incoming, reader, reading, decoded, known, buf, received, dropped,
                pw_timeouts>>

\* poll_flush_pending: as much as the socket takes.
DrainPending(cipher) ==
    LET n == Min({Len(cipher), SocketRoom - Len(in_socket)})
    IN  /\ in_socket' = in_socket \o SubSeq(cipher, 1, n)
        /\ pending_write' = SubSeq(cipher, n + 1, Len(cipher))

\* What of the next message the encryption handshake has not carried already.
Rest(m) ==
    LET sent == FlattenSeq([i \in 1..written |-> encode(script[i])])
        early == Max({0, outgoing - Len(sent)})
    IN  SubSeq(encode(m), early + 1, Len(encode(m)))

\* Mutant: a write the socket does not take at once is offered again.
poll_write_again ==
    /\ written < Len(script) /\ pending_write = <<>>
    /\ LET bytes == Rest(script[written + 1])
       IN  /\ outgoing' = outgoing + Len(bytes)
           /\ IF Len(bytes) <= SocketRoom - Len(in_socket)
              THEN DrainPending(Apply(bytes, outgoing)) /\ written' = written + 1
              ELSE UNCHANGED <<in_socket, pending_write, written>>
    /\ UNCHANGED <<script, ReaderVars>>

\* write_message: poll_write waits until nothing is pending, encrypts the
\* message once, and accepts all of it, whatever the socket takes now.
poll_write ==
    /\ written < Len(script) /\ pending_write = <<>>
    /\ LET bytes == Rest(script[written + 1])
       IN  /\ DrainPending(Apply(bytes, outgoing))
           /\ outgoing' = outgoing + Len(bytes)
    /\ written' = written + 1
    /\ UNCHANGED <<script, ReaderVars>>

poll_flush ==
    /\ pending_write # <<>> /\ Len(in_socket) < SocketRoom
    /\ DrainPending(pending_write)
    /\ UNCHANGED <<script, written, outgoing, ReaderVars>>
-----------------------------------------------------------------------------
(* The reader.                                                             *)

Alive == reading.at # "closed"

Wanted == (IF reading.at = "body" THEN reading.length ELSE Width) - Len(reading.bytes)

\* What MseStream::poll_read gives a caller that wants so many bytes: first
\* the early bytes, then what the socket has, decrypted.
Prefix(n) == SubSeq(read_prefix, 1, Min({n, Len(read_prefix)}))

SocketBytes(n) == SubSeq(in_socket, 1, Min({n, Len(in_socket)}))

Takes(got) ==
    LET bytes == reading.bytes \o got
    IN  reading' = [reading EXCEPT !.bytes = bytes,
                                   !.at = IF @ = "between" THEN "header" ELSE @]

poll_read ==
    LET early == Prefix(Wanted)
        cipher == SocketBytes(Wanted - Len(early))
    IN  /\ Alive /\ Wanted > 0
        /\ early \o cipher # <<>>
        /\ read_prefix' = SubSeq(read_prefix, Len(early) + 1, Len(read_prefix))
        /\ in_socket' = SubSeq(in_socket, Len(cipher) + 1, Len(in_socket))
        /\ incoming' = incoming + Len(cipher)
        /\ IF cipher = <<>> /\ Len(early) < Wanted /\ reading.at # "body"
           THEN \* Pending, with bytes already put into the caller's buffer: the
                \* read of a length prefix starts again with an empty one.
                UNCHANGED reading /\ dropped' = TRUE
           ELSE Takes(early \o Unapply(cipher, incoming)) /\ UNCHANGED dropped
        /\ UNCHANGED <<script, written, pending_write, outgoing, reader, decoded, known, buf,
                       received, pw_timeouts>>

\* read_message: the length is complete.
ReadLength ==
    /\ reading.at = "header" /\ Wanted = 0
    /\ LET length == Number(reading.bytes)
       IN  reading' = [at |-> IF length > MaxFrame THEN "closed"
                              ELSE IF length = 0 THEN "keepalive" ELSE "body",
                       bytes |-> <<>>, length |-> length]
    /\ UNCHANGED <<script, written, pending_write, outgoing, in_socket, read_prefix, incoming,
                   reader, decoded, known, buf, received, dropped, pw_timeouts>>

\* The piece is given up: the next attempt has a new assembler.
GiveUp == buf' = [i \in DOMAIN PieceData |-> 0] /\ received' = {}

\* A download session acts on a message.
Acts(m) ==
    /\ decoded' = Append(decoded, m)
    /\ known' = CASE m.kind = "bitfield" -> from_bytes(m.payload)
                  [] m.kind = "have" -> apply_peer_have(known, m.payload[1])
                  [] OTHER -> known
    /\ CASE m.kind = "choke" -> GiveUp
         [] Expected(m) -> buf' = add_block(m) /\ received' = received \cup {Offset(m)}
         [] OTHER -> UNCHANGED <<buf, received>>

read_message ==
    /\ reading.at = "keepalive" \/ (reading.at = "body" /\ Wanted = 0)
    /\ LET m == IF reading.at = "keepalive" THEN Keepalive ELSE decode_frame(reading.bytes)
       IN  IF m = ParseError
           THEN /\ reading' = [Between EXCEPT !.at = "closed"]
                /\ UNCHANGED <<decoded, known, buf, received>>
           ELSE reading' = Between /\ Acts(m)
    /\ UNCHANGED <<script, written, pending_write, outgoing, in_socket, read_prefix, incoming,
                   reader, dropped, pw_timeouts>>

\* The caller's timer.  The seeding sessions keep their read pinned across
\* their loop and end when idle; a metadata session ends; a download session
\* gives up the piece, drops the read and goes on.
Timeout ==
    /\ Alive /\ reading.at # "keepalive" /\ Wanted > 0
    /\ pw_timeouts < MaxTimeouts
    /\ pw_timeouts' = pw_timeouts + 1
    /\ IF reader = "resuming"
       THEN reading' = Between /\ dropped' = (dropped \/ reading # Between) /\ GiveUp
       ELSE /\ reading' = [Between EXCEPT !.at = "closed"]
            /\ UNCHANGED <<dropped, buf, received>>
    /\ UNCHANGED <<script, written, pending_write, outgoing, in_socket, read_prefix, incoming,
                   reader, decoded, known>>

PwNext ==
    \/ poll_write \/ poll_flush
    \/ poll_read \/ ReadLength \/ read_message \/ Timeout

PwSpec == PwInit /\ [][PwNext]_pw_vars
-----------------------------------------------------------------------------
PwTypeOK ==
    /\ written \in 0..Len(script)
    /\ Len(in_socket) <= SocketRoom
    /\ reading.at \in {"between", "header", "body", "keepalive", "closed"}
    /\ dropped \in BOOLEAN /\ pw_timeouts \in 0..MaxTimeouts

\* The pieces the sender has told of in these messages.
Told(messages) ==
    LET kinds == {messages[i].kind : i \in DOMAIN messages}
        haves == {i \in DOMAIN messages : messages[i].kind = "have"}
    IN  (IF "bitfield" \in kinds THEN Announced ELSE {}) \cup {messages[i].payload[1] : i \in haves}

(***************************************************************************)
(* What a session is given is what was sent, message for message, and what *)
(* it builds from that is right: wherever the socket cuts a frame, however *)
(* long a write waits in the cipher's buffer and whatever the encryption   *)
(* handshake already carried, both keystreams and the framing stay         *)
(* aligned, the bitfield names the sender's pieces and counts no spare     *)
(* bit, and a piece whose blocks have all been received is the sender's    *)
(* piece.  Only a read that was dropped with bytes in it is excepted:      *)
(* FramingHolds is about that.                                             *)
(***************************************************************************)
DecodedIsSent ==
    ~dropped =>
        /\ IsPrefix(decoded, script)
        /\ known # <<>> => LET told == Told(decoded)
                           IN  /\ {i \in 0..PwPieceCount - 1 : has(known, i)} = told
                               /\ count(known) = Cardinality(told)
        /\ Complete => buf = PieceData

(***************************************************************************)
(* PeerReader is an "async framed reader" that "reads [...] length-        *)
(* prefixed messages": a session that goes on reading is given the         *)
(* messages the peer sent.  A download session whose timer has dropped a   *)
(* read in the middle of a frame goes on reading inside that frame.        *)
(***************************************************************************)
FramingHolds == IsPrefix(decoded, script)
=============================================================================
