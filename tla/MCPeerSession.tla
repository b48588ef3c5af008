--------------------------- MODULE MCPeerSession ---------------------------
(***************************************************************************)
(* What a peer session does and what torrents are read from, for TLC:      *)
(* transport, handshake, frames, the endgame, uploads, and the documents.  *)
(* A behaviour is one of the component `part` names; its variables are the *)
(* cells, in the order of the module, and what it leaves unused stays 0.   *)
(***************************************************************************)
EXTENDS Integers, TLC

CONSTANTS Parts

VARIABLES part, c1, c2, c3, c4, c5, c6, c7, c8, c9, c10, c11, c12, c13, c14,
          c15

cells == <<c1, c2, c3, c4, c5, c6, c7, c8, c9, c10, c11, c12, c13, c14, c15>>
-----------------------------------------------------------------------------
CONSTANTS SeqBits, FirstSeq, Units, SendCap, MaxWindow, NetCap

UT == INSTANCE Utp WITH
        conn <- c1, written <- c2, refused <- c3, net <- c4, late <- c5

MCUnits == [a |-> 2, b |-> 0]
-----------------------------------------------------------------------------
CONSTANTS PhModes, PhOrder, PhListens, PhHashes, PhWanted, PhSettings,
          PhAddrs, PhThere, AddrBytes, ByteBits, MaxLapses

PH == INSTANCE PeerHandshake WITH
        dial_mode <- c1, listen_mode <- c2, addr <- c3, client <- c4,
        dial_filter <- c5, listen_filter <- c6, dial <- c7, serve <- c8,
        inward <- c9, outward <- c10, lapses <- c11

Setting(enabled, rules, sources, bans, clients) ==
    [enabled |-> enabled, rules |-> rules, sources |-> sources, bans |-> bans,
     clients |-> clients]

Cidr(network, prefix) ==
    [kind |-> "cidr", network |-> network, prefix |-> prefix, ip |-> 0, start |-> 0, end |-> 0]

IpRange(first, last) ==
    [kind |-> "range", network |-> 0, prefix |-> 0, ip |-> 0, start |-> first, end |-> last]

MCSettings ==
    {Setting(FALSE, <<>>, <<>>, {6}, {}),
     Setting(TRUE, <<Cidr(4, 3)>>, <<>>, {}, {"barred"}),
     Setting(TRUE, <<>>, <<[readable |-> TRUE, lines |-> <<IpRange(7, 5), IpRange(5, 5)>>]>>, {}, {}),
     Setting(TRUE, <<>>, <<[readable |-> FALSE, lines |-> <<>>]>>, {}, {})}

MCTransports == <<"utp", "tcp">>
-----------------------------------------------------------------------------
CONSTANTS Byte, ByteWidth, Width, MaxFrame, PwScripts, PwPrefixes, SocketRoom,
          Readers, Announced, PwPieceCount, PieceData, Block, MaxTimeouts

PW == INSTANCE PeerWire WITH
        script <- c1, written <- c2, pending_write <- c3, outgoing <- c4,
        in_socket <- c5, read_prefix <- c6, incoming <- c7, reader <- c8,
        reading <- c9, decoded <- c10, known <- c11, buf <- c12,
        received <- c13, dropped <- c14, pw_timeouts <- c15

Says(kind, payload) == [kind |-> kind, payload |-> payload]

\* Blocks out of order, a repeated one and one of the wrong length; a
\* bitfield with spare bits set and one that is too long.
MCScripts ==
    {<<Says("bitfield", <<13, 15>>), Says("keepalive", <<>>), Says("piece", <<0, 2, 7>>),
       Says("piece", <<0, 0, 5, 6>>), Says("have", <<2>>)>>,
     <<Says("have", <<4>>), Says("hash_request", <<9, 0, 4, 2, 1>>), Says("piece", <<0, 0, 5>>),
       Says("piece", <<0, 2, 7>>), Says("request", <<1, 2, 3>>), Says("piece", <<0, 0, 5, 6>>)>>,
     <<Says("bitfield", <<13, 15, 3>>), Says("choke", <<>>), Says("piece", <<0, 0, 5, 6>>),
       Says("extended", <<0, 1>>), Says("unchoke", <<>>)>>}
MCData == <<5, 6, 7>>
-----------------------------------------------------------------------------
CONSTANTS EgPeers, EgPieces, EgPriority, EgBlocks, MaxDuplicates

EG == INSTANCE Endgame WITH
        shared_have <- c1, pending <- c2, counts <- c3, spot <- c4,
        offered <- c5, known_bits <- c6, target <- c7, asked <- c8,
        waiting <- c9, got <- c10

MCEgPriority == <<1>>
-----------------------------------------------------------------------------
CONSTANTS UpPieces, Kinds, Fan, Drain, QueueCap, MaxAsks, MaxUpFaults,
          LayerCounts, PieceLayer, HashRequestMax

UP == INSTANCE Upload WITH
        kind <- c1, verified <- c2, announced <- c3, choking <- c4,
        interest <- c5, queue <- c6, task <- c7, uploaded <- c8,
        delivered <- c9, refused <- c10, asks <- c11, up_faults <- c12,
        layer <- c13, exchange <- c14
-----------------------------------------------------------------------------
CONSTANTS BnDocuments, BnAlphabet, InfoKey, MaxDepth, MaxNodes, MaxInt,
          MaxBnEdits

BN == INSTANCE Bencode WITH
        bytes <- c1, bn_edits <- c2

MCInfoKey == <<"i">>

Value(t, v) == [t |-> t, v |-> v]

\* {e: -1, i: [0]} and {i: {"": "e"}}
MCBnDocuments ==
    {Value("dict", <<<<<<"e">>, Value("int", -1)>>,
                     <<<<"i">>, Value("list", <<Value("int", 0)>>)>>>>),
     Value("dict", <<<<<<"i">>, Value("dict", <<<<<<>>, Value("str", <<"e">>)>>>>)>>>>)}
-----------------------------------------------------------------------------
CONSTANTS MiTorrents, MiKinds, MiPieceLength, MaxPieceLength, MaxPieces,
          MaxFiles, MaxDirect, BadNames, MagnetPairs, MaxQuery, MaxMiEdits

MI == INSTANCE Metainfo WITH
        via <- c1, truth <- c2, document <- c3, mi_edits <- c4, query <- c5

MCMiTorrents ==
    {<<[path |-> <<"a">>, length |-> 5, content |-> 1], [path |-> <<"d", "b">>, length |-> 2, content |-> 2]>>,
     <<[path |-> <<"a">>, length |-> 3, content |-> 1], [path |-> <<"b">>, length |-> 3, content |-> 1],
       [path |-> <<"c">>, length |-> 0, content |-> 3]>>}

MCPeer(n, port, unspecified) == [ip |-> n, port |-> port, unspecified |-> unspecified]
MCMagnetPairs ==
    {[key |-> "btih", hash |-> "h1"], [key |-> "btih", hash |-> "h2"], [key |-> "btmh", hash |-> "h1"],
     [key |-> "so", terms |-> <<<<1, 2>>, <<0, 0>>>>], [key |-> "so", terms |-> <<<<2, 3>>>>],
     [key |-> "so", terms |-> <<>>], [key |-> "dn"],
     [key |-> "x.pe", peer |-> MCPeer(1, 1, FALSE)], [key |-> "x.pe", peer |-> MCPeer(2, 1, FALSE)],
     [key |-> "x.pe", peer |-> MCPeer(1, 0, FALSE)]}
-----------------------------------------------------------------------------
mc_vars == <<part, cells>>

MCInit ==
    /\ part \in Parts
    /\ \/ /\ part = "utp" /\ UT!UtpInit
          /\ c6 = 0 /\ c7 = 0 /\ c8 = 0 /\ c9 = 0 /\ c10 = 0 /\ c11 = 0
          /\ c12 = 0 /\ c13 = 0 /\ c14 = 0 /\ c15 = 0
       \/ /\ part = "handshake" /\ PH!PhInit
          /\ c12 = 0 /\ c13 = 0 /\ c14 = 0 /\ c15 = 0
       \/ /\ part = "wire" /\ PW!PwInit
       \/ /\ part = "endgame" /\ EG!EgInit
          /\ c11 = 0 /\ c12 = 0 /\ c13 = 0 /\ c14 = 0 /\ c15 = 0
       \/ /\ part = "upload" /\ UP!UpInit
          /\ c15 = 0
       \/ /\ part = "bencode" /\ BN!BnInit
          /\ c3 = 0 /\ c4 = 0 /\ c5 = 0 /\ c6 = 0 /\ c7 = 0 /\ c8 = 0
          /\ c9 = 0 /\ c10 = 0 /\ c11 = 0 /\ c12 = 0 /\ c13 = 0 /\ c14 = 0
          /\ c15 = 0
       \/ /\ part = "metainfo" /\ MI!MiInit
          /\ c6 = 0 /\ c7 = 0 /\ c8 = 0 /\ c9 = 0 /\ c10 = 0 /\ c11 = 0
          /\ c12 = 0 /\ c13 = 0 /\ c14 = 0 /\ c15 = 0

MCNext ==
    /\ UNCHANGED part
    /\ \/ /\ part = "utp" /\ UT!UtpNext
          /\ UNCHANGED <<c6, c7, c8, c9, c10, c11, c12, c13, c14, c15>>
       \/ /\ part = "handshake" /\ PH!PhNext
          /\ UNCHANGED <<c12, c13, c14, c15>>
       \/ /\ part = "wire" /\ PW!PwNext
       \/ /\ part = "endgame" /\ EG!EgNext
          /\ UNCHANGED <<c11, c12, c13, c14, c15>>
       \/ /\ part = "upload" /\ UP!UpNext
          /\ UNCHANGED <<c15>>
       \/ /\ part = "bencode" /\ BN!BnNext
          /\ UNCHANGED <<c3, c4, c5, c6, c7, c8, c9, c10, c11, c12, c13, c14,
                         c15>>
       \/ /\ part = "metainfo" /\ MI!MiNext
          /\ UNCHANGED <<c6, c7, c8, c9, c10, c11, c12, c13, c14, c15>>

MCSpec == MCInit /\ [][MCNext]_mc_vars
-----------------------------------------------------------------------------
(***************************************************************************)
(* PeerHandshake and PeerWire: a session both ends hold has the protection *)
(* both modes allow and a peer that no rule, ban or client setting bars;   *)
(* two ends whose settings agree do not give up while no time limit        *)
(* passes; and a session is given the messages that were sent, in order,   *)
(* and builds the sender's bitfield and pieces from them, unless a read    *)
(* was dropped with bytes in it. Every component keeps its type.           *)
(***************************************************************************)
ConnectionsAreSound ==
    /\ part = "handshake" => PH!PhTypeOK /\ PH!SessionsHonourPolicy /\ PH!WillingEndsMeet
    /\ part = "wire" => PW!PwTypeOK /\ PW!DecodedIsSent
    /\ part = "endgame" => EG!EgTypeOK
    /\ part = "upload" => UP!UpTypeOK
    /\ part = "bencode" => BN!BnTypeOK
    /\ part = "metainfo" => MI!MiTypeOK

(***************************************************************************)
(* Utp: what the connection took is delivered once and in order; until a   *)
(* FIN is taken, what is not delivered is queued, in flight or held by the *)
(* receiver, whatever is lost, repeated or overtaken.                      *)
(***************************************************************************)
NothingForgotten == part = "utp" => UT!NothingForgotten

(***************************************************************************)
(* Endgame and Upload: the cap on duplicates refuses no request, the table *)
(* holds no count that no session owes; a request for an announced piece   *)
(* from an unchoked peer is not turned down, the bytes counted are the     *)
(* bytes sent, and an answer to a request for hashes proves them.          *)
(***************************************************************************)
BlocksAreExact ==
    /\ part = "endgame" => EG!NeverRefused /\ EG!CountsAreOwed
    /\ part = "upload" => UP!AnnouncedIsServed /\ UP!UploadsAccounted /\ UP!HashesProve

(***************************************************************************)
(* Bencode and Metainfo: the bytes hashed as the info dictionary are the   *)
(* ones the parser read; metadata that is accepted can be run; a magnet    *)
(* link leads to the torrent of the file; and what a link leaves in the    *)
(* durable record passes the checks that restoring makes.                  *)
(***************************************************************************)
DocumentsAreRead ==
    /\ part = "bencode" => BN!HashedIsRead
    /\ part = "metainfo" => MI!AcceptedIsWhole /\ MI!MagnetIsFile /\ MI!MagnetIsDurable
=============================================================================
