------------------------------ MODULE Metainfo -------------------------------
(* core meta.rs, v2.rs (the piece layout), magnet.rs and hash.rs: from a     *)
(* decoded metainfo document, or from the `info` dictionary that BEP 9       *)
(* carries and the piece layers that the BEP 52 hash exchange carries, to    *)
(* the metadata the engine runs on; and from the query of a magnet link to   *)
(* the identity, file selection and direct peers of a torrent.               *)
(*                                                                           *)
(* A dictionary is a function from the keys it has; a key whose value has    *)
(* the wrong type counts as absent, as get_str and get_int count it.         *)
(* Lengths are in blocks of V2_BLOCK_LENGTH.  A hash of a block is <<n>>,    *)
(* the zero hash <<>>, the hash of a pair <<left, right>>, so hashes are     *)
(* equal only when what they cover is.  A document starts as the one that    *)
(* describes a torrent's files truly and then has a few fields changed.      *)
EXTENDS Integers, Sequences, FiniteSets, SequencesExt

CONSTANTS MiTorrents,     \* files of true torrents: sequences of [path, length, content]
          MiKinds,        \* subset of {"v1", "v2", "hybrid"}
          MiPieceLength,  \* the true piece length
          MaxPieceLength, \* MAX_PIECE_LENGTH
          MaxPieces,      \* MAX_TORRENT_PIECES
          MaxFiles,       \* MAX_TORRENT_FILES and MAX_MAGNET_SELECT_ONLY_INDICES
          MaxDirect,      \* MAX_MAGNET_DIRECT_PEERS
          BadNames,       \* path components that are refused
          MagnetPairs,    \* key-value pairs of a magnet query
          MaxQuery,       \* bound on the pairs of a query
          MaxMiEdits      \* bound on the changed fields

VARIABLES via, truth, document, mi_edits, query

mi_vars == <<via, truth, document, mi_edits, query>>

Rejected == [ok |-> FALSE]

\* The `?` of the code.
Then(result, Continue(_)) == IF result.ok THEN Continue(result) ELSE Rejected

CeilDiv(n, d) == (n + d - 1) \div d
PowerOfTwo(n) == \E k \in 0..8 : n = 2^k
NextPowerOfTwo(n) == CHOOSE w \in {2^k : k \in 0..8} : w >= n /\ w < 2 * n
Total(files) == FoldLeft(LAMBDA sum, file : sum + file.length, 0, files)
Dedup(s) ==
    FoldLeft(LAMBDA out, x : IF \E i \in DOMAIN out : out[i] = x THEN out ELSE Append(out, x),
             <<>>, s)

-----------------------------------------------------------------------------
(* The hash tree (v2.rs, meta.rs).                                           *)

ZeroHash == <<>>
LeafHash(n) == <<n>>
HashPair(left, right) == <<left, right>>

Resized(level, width, hash) ==
    [i \in 1..width |-> IF i <= Len(level) THEN level[i] ELSE hash]

RECURSIVE TreeRoot(_)
TreeRoot(level) ==
    IF Len(level) = 1 THEN level[1]
    ELSE TreeRoot([i \in 1..(Len(level) \div 2) |-> HashPair(level[2 * i - 1], level[2 * i])])

\* v2_piece_root: padded to the piece; v2_file_root: padded to the file only.
PieceRoot(leaves, piece_length) == TreeRoot(Resized(leaves, piece_length, ZeroHash))
FileRoot(leaves) == TreeRoot(Resized(leaves, NextPowerOfTwo(Len(leaves)), ZeroHash))

\* Mutant: absent pieces are padded with the raw zero hash.
PieceLayerRootRaw(hashes, piece_length) ==
    TreeRoot(Resized(hashes, NextPowerOfTwo(Len(hashes)), ZeroHash))

\* v2_piece_layer_root: absent pieces are all-zero subtrees of a piece's depth.
PieceLayerRoot(hashes, piece_length) ==
    LET zero == TreeRoot(Resized(<<>>, piece_length, ZeroHash))
    IN  TreeRoot(Resized(hashes, NextPowerOfTwo(Len(hashes)), zero))

-----------------------------------------------------------------------------
(* Validation.                                                               *)

ValidComponent(name) == name \notin BadNames

ValidPath(path) == path # <<>> /\ \A i \in DOMAIN path : ValidComponent(path[i])

ValidateFileList(files, total) ==
    /\ files # <<>>
    /\ Len(files) <= MaxFiles
    /\ \A i \in DOMAIN files : ValidPath(files[i].path)
    /\ \A i, j \in DOMAIN files : files[i].path = files[j].path => i = j
    /\ Total(files) = total

ValidateV1PieceLayout(meta) ==
    /\ Len(meta.pieces) <= MaxPieces
    /\ Len(meta.pieces) = CeilDiv(meta.total_length, meta.piece_length)

ValidateV2PieceLength(piece_length) == piece_length >= 1 /\ PowerOfTwo(piece_length)

HasRoot(file) == "pieces_root" \in DOMAIN file

\* The layers against the roots of the files, both ways.
LayersMatch(files, layers, piece_length) ==
    LET filled == {i \in DOMAIN files : files[i].length > 0}
        Large(i) == files[i].length > piece_length
    IN  /\ \A k, l \in DOMAIN layers : layers[k].root = layers[l].root => k = l
        /\ \A i \in filled :
             LET sharing == {j \in filled : files[j].pieces_root = files[i].pieces_root}
                 found == {k \in DOMAIN layers : layers[k].root = files[i].pieces_root}
             IN  IF \E j \in sharing : Large(j)
                 THEN \E k \in found :
                        /\ \A j \in sharing :
                             Large(j) => Len(layers[k].hashes) = CeilDiv(files[j].length, piece_length)
                        /\ PieceLayerRoot(layers[k].hashes, piece_length) = files[i].pieces_root
                 ELSE found = {}
        /\ \A k \in DOMAIN layers : \E i \in filled : files[i].pieces_root = layers[k].root

ValidateV2Metadata(v2, piece_length, total) ==
    /\ ValidateV2PieceLength(piece_length)
    /\ ValidateFileList(v2.files, total)
    /\ \A i \in DOMAIN v2.files : v2.files[i].length > 0 => HasRoot(v2.files[i])
    /\ IF v2.verified THEN LayersMatch(v2.files, v2.layers, piece_length) ELSE v2.layers = <<>>

SameLayout(left, right) ==
    /\ Len(left) = Len(right)
    /\ \A i \in DOMAIN left : left[i].path = right[i].path /\ left[i].length = right[i].length

Relative(files) ==
    [i \in DOMAIN files |-> [path |-> Tail(files[i].path), length |-> files[i].length]]

ValidateHybridLayout(v1_files, v2_files, multi) ==
    SameLayout(v1_files, v2_files) \/ (multi /\ SameLayout(Relative(v1_files), v2_files))

\* TorrentMeta::validate.  Identities are hashes of the info dictionary, here
\* the dictionary itself; which of them a torrent has is its kind.
Validate(meta) ==
    /\ ValidComponent(meta.name)
    /\ meta.piece_length \in 1..MaxPieceLength
    /\ meta.total_length > 0
    /\ ValidateFileList(meta.files, meta.total_length)
    /\ ~meta.multi => Len(meta.files) = 1
    /\ meta.kind \in {"v1", "hybrid"} => ValidateV1PieceLayout(meta)
    /\ meta.kind = "v2" => meta.pieces = <<>> /\ meta.v2.verified
    /\ meta.kind \in {"v2", "hybrid"} =>
         ValidateV2Metadata(meta.v2, meta.piece_length, meta.total_length)
    /\ meta.kind = "hybrid" => ValidateHybridLayout(meta.files, meta.v2.files, meta.multi)

-----------------------------------------------------------------------------
(* Parsing.                                                                  *)

Key(dictionary, key) == key \in DOMAIN dictionary
KeyOr(dictionary, key, default) == IF Key(dictionary, key) THEN dictionary[key] ELSE default

Validated(meta) == IF Validate(meta) THEN meta ELSE Rejected

\* A file entry, as storage names it.
Entry(path, length) == [path |-> path, length |-> length]

\* The v1 file list: one file named by the torrent, or a list below its name.
V1Files(info) ==
    IF Key(info, "length") THEN <<Entry(<<info.name>>, info.length)>>
    ELSE [i \in DOMAIN info.files |-> Entry(<<info.name>> \o info.files[i].path, info.files[i].length)]

V1FilesParse(info) ==
    \/ Key(info, "length") /\ info.length >= 0
    \/ /\ ~Key(info, "length")
       /\ Key(info, "files")
       /\ Len(info.files) <= MaxFiles
       /\ \A i \in DOMAIN info.files : ValidPath(info.files[i].path) /\ info.files[i].length >= 0
       /\ \A i, j \in DOMAIN info.files : info.files[i].path = info.files[j].path => i = j

\* parse_v1_torrent_root.
ParseV1(root) ==
    LET info == root.info
    IN  IF \/ ~Key(info, "name") \/ ~Key(info, "piece_length") \/ ~Key(info, "pieces")
        THEN Rejected
        ELSE IF \/ ~ValidComponent(info.name)
                \/ info.piece_length \notin 1..MaxPieceLength
                \/ Len(info.pieces) > MaxPieces
                \/ ~V1FilesParse(info)
        THEN Rejected
        ELSE Validated([ok |-> TRUE, kind |-> "v1", name |-> info.name,
                        piece_length |-> info.piece_length, pieces |-> info.pieces,
                        files |-> V1Files(info), total_length |-> Total(V1Files(info)),
                        multi |-> ~Key(info, "length"),
                        announce |-> KeyOr(root, "announce", "none"),
                        announce_list |-> KeyOr(root, "announce_list", <<>>)])

\* parse_v2_file_tree_node.  A node is a sequence of <<key, child>>; the key ""
\* holds a file's properties.
RECURSIVE TreeFiles(_, _)
TreeFiles(node, path) ==
    LET properties == {i \in DOMAIN node : node[i][1] = ""}
        Below(files, entry) ==
            LET below == IF ValidComponent(entry[1])
                         THEN TreeFiles(entry[2], Append(path, entry[1])) ELSE Rejected
            IN  IF files.ok /\ below.ok THEN [ok |-> TRUE, files |-> files.files \o below.files]
                ELSE Rejected
    IN  IF properties # {}
        THEN LET file == node[CHOOSE i \in properties : TRUE][2]
             IN  IF \/ path = <<>>
                    \/ Len(node) > 1
                    \/ ~Key(file, "length")
                 THEN Rejected
                 ELSE IF file.length < 0 \/ (file.length > 0 /\ ~HasRoot(file)) THEN Rejected
                 ELSE [ok |-> TRUE,
                       files |-> <<IF HasRoot(file)
                                   THEN [path |-> path, length |-> file.length,
                                         pieces_root |-> file.pieces_root]
                                   ELSE Entry(path, file.length)>>]
        ELSE FoldLeft(Below, [ok |-> TRUE, files |-> <<>>], node)

ParseFileTree(tree) ==
    Then(TreeFiles(tree, <<>>),
         LAMBDA parsed : IF parsed.files # <<>> /\ Len(parsed.files) <= MaxFiles
                         THEN parsed ELSE Rejected)

\* parse_v2_piece_layers and parse_v2_metadata.
CheckedV2(v2, piece_length) ==
    IF /\ Total(v2.files) > 0
       /\ \A k \in DOMAIN v2.layers : Len(v2.layers[k].hashes) <= MaxPieces
       /\ ValidateV2Metadata(v2, piece_length, Total(v2.files))
    THEN v2 ELSE Rejected

ParseV2(root, piece_length, require_layers) ==
    LET has == Key(root, "piece_layers")
    IN  IF ~Key(root.info, "file_tree") \/ (~has /\ require_layers) THEN Rejected
        ELSE Then(ParseFileTree(root.info.file_tree),
                  LAMBDA tree : CheckedV2([ok |-> TRUE, files |-> tree.files, verified |-> has,
                                           layers |-> KeyOr(root, "piece_layers", <<>>)],
                                          piece_length))

\* parse_v2_torrent_root: only complete metadata is validated.
PureV2(root, v2) ==
    [ok |-> TRUE, kind |-> "v2", name |-> root.info.name,
     piece_length |-> root.info.piece_length, pieces |-> <<>>,
     files |-> v2.files, total_length |-> Total(v2.files), multi |-> Len(v2.files) # 1,
     announce |-> KeyOr(root, "announce", "none"),
     announce_list |-> KeyOr(root, "announce_list", <<>>), v2 |-> v2]

ParsePureV2(root, require_layers) ==
    IF ~Key(root.info, "name") \/ ~Key(root.info, "piece_length") THEN Rejected
    ELSE IF ~ValidComponent(root.info.name) \/ root.info.piece_length \notin 1..MaxPieceLength
    THEN Rejected
    ELSE Then(ParseV2(root, root.info.piece_length, require_layers),
              LAMBDA v2 : IF require_layers THEN Validated(PureV2(root, v2)) ELSE PureV2(root, v2))

Hybrid(v1, v2) ==
    [f \in DOMAIN v1 \cup {"v2"} |->
       IF f = "kind" THEN "hybrid" ELSE IF f = "v2" THEN v2 ELSE v1[f]]

ParseHybrid(root, require_layers) ==
    Then(ParseV1(root),
         LAMBDA v1 : Then(ParseV2(root, v1.piece_length, require_layers),
                          LAMBDA v2 : IF ValidateHybridLayout(v1.files, v2.files, v1.multi)
                                      THEN Validated(Hybrid(v1, v2)) ELSE Rejected))

\* parse_torrent_root: the keys of `info` say which kind of torrent it is.
ParseTorrentRoot(root, require_layers) ==
    IF ~Key(root, "info") THEN Rejected
    ELSE LET info == root.info
             pieces == Key(info, "pieces")
             layout == Key(info, "length") \/ Key(info, "files")
         IN  IF ~Key(info, "meta_version") THEN ParseV1(root)
             ELSE IF info.meta_version # 2 \/ (pieces # layout) THEN Rejected
             ELSE IF pieces THEN ParseHybrid(root, require_layers)
             ELSE ParsePureV2(root, require_layers)

ParseTorrent(root) == ParseTorrentRoot(root, TRUE)

\* magnet_root_with_trackers.
MagnetRoot(info, trackers) ==
    [k \in {"info"} \cup (IF trackers # <<>> THEN {"announce"} ELSE {})
                    \cup (IF Len(trackers) > 1 THEN {"announce_list"} ELSE {}) |->
        CASE k = "info" -> info
          [] k = "announce" -> trackers[1]
          [] k = "announce_list" -> <<Tail(trackers)>>]

RequiresV2DataPlane(meta) == meta.kind = "v2"

\* parse_info_dict: a pure v2 torrent is not executable without its layers.
ParseInfoDict(info, trackers) ==
    Then(ParseTorrentRoot(MagnetRoot(info, trackers), FALSE),
         LAMBDA meta : IF RequiresV2DataPlane(meta) THEN Rejected ELSE meta)

\* parse_info_dict_with_piece_layers.
ParseInfoDictWithLayers(info, trackers, layers) ==
    LET root == MagnetRoot(info, trackers)
    IN  ParseTorrentRoot([k \in DOMAIN root \cup {"piece_layers"} |->
                            IF k = "piece_layers" THEN layers ELSE root[k]], TRUE)

\* inspect_bep9_v2_info.
InspectBep9(info) == ParseTorrentRoot([info |-> info], FALSE)

\* Mutant: files of exactly one piece are asked for as well.
RequiredPieceLayersFrom(files, piece_length) ==
    {<<files[i].pieces_root, CeilDiv(files[i].length, piece_length)>> :
        i \in {j \in DOMAIN files : files[j].length >= piece_length}}

\* required_piece_layers: root and number of pieces of every larger file.
RequiredPieceLayers(files, piece_length) ==
    {<<files[i].pieces_root, CeilDiv(files[i].length, piece_length)>> :
        i \in {j \in DOMAIN files : files[j].length > piece_length}}

Inconsistent(required) == \E a, b \in required : a[1] = b[1] /\ a[2] # b[2]

AllTrackers(meta) ==
    Dedup((IF meta.announce = "none" THEN <<>> ELSE <<meta.announce>>)
          \o FlattenSeq(meta.announce_list))

-----------------------------------------------------------------------------
(* What the engine makes of it.                                              *)

LastPieceLength(meta) ==
    IF meta.total_length % meta.piece_length = 0 THEN meta.piece_length
    ELSE meta.total_length % meta.piece_length

PieceByteRange(meta, index) ==
    <<index * meta.piece_length,
      IF (index + 1) * meta.piece_length < meta.total_length
      THEN (index + 1) * meta.piece_length ELSE meta.total_length>>

PieceLengthForIndex(meta, index) ==
    IF index + 1 = Len(meta.pieces) THEN LastPieceLength(meta) ELSE meta.piece_length

\* V2PieceLayout::from_meta: the pieces of one file.
FilePieces(meta, i) ==
    LET file == meta.v2.files[i]
        layer == IF file.length > meta.piece_length
                 THEN (CHOOSE k \in DOMAIN meta.v2.layers :
                         meta.v2.layers[k].root = file.pieces_root) ELSE 0
    IN  [w \in 1..CeilDiv(file.length, meta.piece_length) |->
           LET offset == (w - 1) * meta.piece_length
           IN  [file |-> i, offset |-> offset,
                length |-> IF file.length - offset < meta.piece_length
                           THEN file.length - offset ELSE meta.piece_length,
                expected |-> IF layer = 0 THEN file.pieces_root
                             ELSE meta.v2.layers[layer].hashes[w]]]

\* validate_storage_file_mapping.
StorageMapped(meta) ==
    /\ Len(meta.files) = Len(meta.v2.files)
    /\ \A i \in DOMAIN meta.files :
         /\ meta.files[i].length = meta.v2.files[i].length
         /\ \/ meta.files[i].path = meta.v2.files[i].path
            \/ meta.multi /\ Tail(meta.files[i].path) = meta.v2.files[i].path

Layout(meta) == FlattenSeq([i \in DOMAIN meta.v2.files |-> FilePieces(meta, i)])

\* The conditions under which from_meta returns it.
HasLayout(meta) ==
    /\ meta.v2.verified
    /\ StorageMapped(meta)
    /\ \A i \in DOMAIN meta.v2.files :
         meta.v2.files[i].length > meta.piece_length =>
           \E k \in DOMAIN meta.v2.layers :
             /\ meta.v2.layers[k].root = meta.v2.files[i].pieces_root
             /\ Len(meta.v2.layers[k].hashes)
                  = CeilDiv(meta.v2.files[i].length, meta.piece_length)
    /\ Len(Layout(meta)) \in 1..MaxPieces

\* verify_piece, of the leaves of the data.
VerifyPiece(meta, piece, leaves) ==
    /\ Len(leaves) = piece.length
    /\ piece.expected = (IF meta.v2.files[piece.file].length <= meta.piece_length
                         THEN FileRoot(leaves) ELSE PieceRoot(leaves, meta.piece_length))

-----------------------------------------------------------------------------
(* Magnet links: the pairs of a query, folded in order.                      *)

NoMagnet == [ok |-> TRUE, v1 |-> "none", v2 |-> "none", selected |-> {}, peers |-> <<>>]

\* set_unique_v1 and set_unique_v2.
SetUnique(magnet, field, hash) ==
    IF magnet[field] \in {"none", hash} THEN [magnet EXCEPT ![field] = hash] ELSE Rejected

\* parse_select_only: the terms of one `so`, each a range.
RECURSIVE SelectOnly(_, _)
SelectOnly(magnet, terms) ==
    IF terms = <<>> THEN magnet
    ELSE LET first == terms[1][1]
             last == terms[1][2]
             selected == magnet.selected \cup first..last
         IN  IF first > last \/ last - first + 1 > MaxFiles \/ Cardinality(selected) > MaxFiles
             THEN Rejected
             ELSE SelectOnly([magnet EXCEPT !.selected = selected], Tail(terms))

\* Mutant: a repeated peer is kept.
DirectPeerRepeated(magnet, peer) ==
    IF peer.port = 0 \/ peer.unspecified \/ Len(magnet.peers) = MaxDirect THEN Rejected
    ELSE [magnet EXCEPT !.peers = Append(@, peer)]

\* parse_direct_peer and the set of peers it goes into.
DirectPeer(magnet, peer) ==
    IF peer.port = 0 \/ peer.unspecified THEN Rejected
    ELSE IF \E i \in DOMAIN magnet.peers : magnet.peers[i] = peer THEN magnet
    ELSE IF Len(magnet.peers) = MaxDirect THEN Rejected
    ELSE [magnet EXCEPT !.peers = Append(@, peer)]

MagnetPair(magnet, pair) ==
    IF ~magnet.ok THEN Rejected
    ELSE CASE pair.key = "btih" -> SetUnique(magnet, "v1", pair.hash)
           [] pair.key = "btmh" -> SetUnique(magnet, "v2", pair.hash)
           [] pair.key = "so" -> IF pair.terms = <<>> THEN Rejected ELSE SelectOnly(magnet, pair.terms)
           [] pair.key = "x.pe" -> DirectPeer(magnet, pair.peer)
           [] OTHER -> magnet

\* Magnet::parse.
ParseMagnet(pairs) ==
    Then(FoldLeft(MagnetPair, NoMagnet, pairs),
         LAMBDA magnet : IF magnet.v1 = "none" /\ magnet.v2 = "none" THEN Rejected ELSE magnet)

Indices(magnet) == SetToSortSeq(magnet.selected, <)

\* validate_select_only_file_indices and validate_direct_peers, of durable state.
ValidateSelectOnly(indices, file_count) ==
    /\ Len(indices) <= MaxFiles
    /\ \A i \in 1..(Len(indices) - 1) : indices[i] < indices[i + 1]
    /\ \A i \in DOMAIN indices : indices[i] < file_count

ValidateDirectPeers(peers) ==
    /\ Len(peers) <= MaxDirect
    /\ \A i \in DOMAIN peers : peers[i].port # 0 /\ ~peers[i].unspecified
    /\ \A i, j \in DOMAIN peers : peers[i] = peers[j] => i = j

-----------------------------------------------------------------------------
(* True documents, and the fields that are changed in them.                  *)

Leaves(file) == [i \in 1..file.length |-> LeafHash(10 * file.content + i)]

Piece(file, w, piece_length) ==
    SubSeq(Leaves(file), (w - 1) * piece_length + 1,
           IF w * piece_length < file.length THEN w * piece_length ELSE file.length)

TrueProperties(file) ==
    IF file.length = 0 THEN [length |-> 0]
    ELSE [length |-> file.length, pieces_root |-> FileRoot(Leaves(file))]

TrueLayers(files) ==
    LET large == SelectSeq(files, LAMBDA file : file.length > MiPieceLength)
    IN  Dedup([k \in DOMAIN large |->
                 [root |-> FileRoot(Leaves(large[k])),
                  hashes |-> [w \in 1..CeilDiv(large[k].length, MiPieceLength) |->
                                PieceRoot(Piece(large[k], w, MiPieceLength), MiPieceLength)]]])

\* A node of the file tree for a path of one or two components.
RECURSIVE TreePath(_, _)
TreePath(path, properties) ==
    IF path = <<>> THEN <<<<"", properties>>>>
    ELSE <<<<path[1], TreePath(Tail(path), properties)>>>>

TrueTree(files) ==
    FlattenSeq([i \in DOMAIN files |-> TreePath(files[i].path, TrueProperties(files[i]))])

TrueInfo(files, kind) ==
    LET keys == {"name", "piece_length"}
                \cup (IF kind = "v2" THEN {} ELSE {"pieces", "files"})
                \cup (IF kind = "v1" THEN {} ELSE {"meta_version", "file_tree"})
    IN  [k \in keys |->
           CASE k = "name" -> "n"
             [] k = "piece_length" -> MiPieceLength
             [] k = "pieces" -> [w \in 1..CeilDiv(Total(files), MiPieceLength) |-> w]
             [] k = "files" -> [i \in DOMAIN files |-> Entry(files[i].path, files[i].length)]
             [] k = "meta_version" -> 2
             [] k = "file_tree" -> TrueTree(files)]

TrueDocument(files, kind) ==
    IF kind = "v1" THEN [info |-> TrueInfo(files, kind), announce |-> "t1"]
    ELSE [info |-> TrueInfo(files, kind), announce |-> "t1",
          piece_layers |-> TrueLayers(files)]

\* A torrent comes as a document, or first as a magnet link.
MiInit ==
    /\ \/ /\ via = "file"
          /\ truth \in MiTorrents
          /\ \E kind \in MiKinds : document = TrueDocument(truth, kind)
       \/ /\ via = "magnet"
          /\ truth = <<>>
          /\ document = <<>>
    /\ mi_edits = 0
    /\ query = <<>>

Change(d) ==
    /\ mi_edits < MaxMiEdits
    /\ document' = d
    /\ mi_edits' = mi_edits + 1
    /\ UNCHANGED <<via, truth, query>>

Without(dictionary, key) == [k \in DOMAIN dictionary \ {key} |-> dictionary[k]]

\* A key is lost, or written as a value of another type.
DropInfoKey(key) ==
    /\ key \in DOMAIN document.info
    /\ Change([document EXCEPT !.info = Without(document.info, key)])
DropLayers ==
    /\ Key(document, "piece_layers")
    /\ Change(Without(document, "piece_layers"))

SetPieceLength(n) ==
    /\ Key(document.info, "piece_length")
    /\ Change([document EXCEPT !.info.piece_length = n])
SetVersion ==
    /\ Key(document.info, "meta_version")
    /\ Change([document EXCEPT !.info.meta_version = 3])
DropPieceHash ==
    /\ Key(document.info, "pieces") /\ document.info.pieces # <<>>
    /\ Change([document EXCEPT !.info.pieces = Tail(@)])
SetSingle(n) ==
    Change([document EXCEPT !.info = [k \in DOMAIN @ \cup {"length"} |->
                                        IF k = "length" THEN n ELSE document.info[k]]])

\* An entry of the file list or of the tree is lost, repeated or changed.
ChangeFiles(files) == Change([document EXCEPT !.info.files = files])
ChangeTree(tree) == Change([document EXCEPT !.info.file_tree = tree])
EditFiles(i) ==
    /\ Key(document.info, "files") /\ i \in DOMAIN document.info.files
    /\ LET files == document.info.files
       IN  \/ ChangeFiles(RemoveAt(files, i))
           \/ ChangeFiles(Append(files, files[i]))
           \/ \E n \in {-1, 0, 3} : ChangeFiles([files EXCEPT ![i].length = n])
           \/ \E name \in BadNames : ChangeFiles([files EXCEPT ![i].path = <<name>>])
EditTree(i) ==
    /\ Key(document.info, "file_tree") /\ i \in DOMAIN document.info.file_tree
    /\ LET tree == document.info.file_tree
       IN  \/ ChangeTree(RemoveAt(tree, i))
           \/ ChangeTree(Append(tree, tree[i]))
           \/ ChangeTree(Append(tree, <<"", [length |-> 1]>>))
           \/ \E name \in BadNames : ChangeTree([tree EXCEPT ![i][1] = name])
           \/ \E file \in {[length |-> n] : n \in {-1, 0, 1}} \cup
                           {[length |-> n, pieces_root |-> FileRoot(Leaves(truth[1]))] : n \in 1..4} :
                 ChangeTree([tree EXCEPT ![i][2] = <<<<"", file>>>>])

\* A layer is lost, repeated, given to another root, or has other hashes.
EditLayers(k) ==
    /\ Key(document, "piece_layers") /\ k \in DOMAIN document.piece_layers
    /\ LET layers == document.piece_layers
           hashes == layers[k].hashes
       IN  /\ hashes # <<>>
           /\ \E changed \in {RemoveAt(layers, k), Append(layers, layers[k]),
                               [layers EXCEPT ![k].root = LeafHash(0)],
                               [layers EXCEPT ![k].hashes = Tail(hashes)],
                               [layers EXCEPT ![k].hashes = Append(hashes, hashes[1])],
                               [layers EXCEPT ![k].hashes = Reverse(hashes)]} :
                Change([document EXCEPT !.piece_layers = changed])

\* A query of a magnet link grows by one pair.
AddPair(pair) ==
    /\ Len(query) < MaxQuery
    /\ query' = Append(query, pair)
    /\ UNCHANGED <<via, truth, document, mi_edits>>

ChangeDocument ==
    \/ \E key \in {"name", "piece_length", "pieces", "files", "meta_version", "file_tree"} :
          DropInfoKey(key)
    \/ DropLayers
    \/ \E n \in {0, 1, 3, 4, MaxPieceLength + 1} : SetPieceLength(n)
    \/ SetVersion
    \/ DropPieceHash
    \/ \E n \in {-1, 3} : SetSingle(n)
    \/ \E i \in 1..3 : EditFiles(i) \/ EditTree(i) \/ EditLayers(i)

MiNext ==
    \/ via = "file" /\ ChangeDocument
    \/ via = "magnet" /\ \E pair \in MagnetPairs : AddPair(pair)

MiSpec == MiInit /\ [][MiNext]_mi_vars

-----------------------------------------------------------------------------
MiTypeOK == mi_edits \in 0..MaxMiEdits /\ Len(query) <= MaxQuery

V1IsTiled(meta) ==
    LET last == Len(meta.pieces) - 1
    IN  /\ last >= 0
        /\ PieceByteRange(meta, 0)[1] = 0
        /\ PieceByteRange(meta, last)[2] = meta.total_length
        /\ \A i \in 0..last :
             /\ PieceByteRange(meta, i)[2] - PieceByteRange(meta, i)[1] = PieceLengthForIndex(meta, i)
             /\ PieceLengthForIndex(meta, i) > 0
             /\ i < last => PieceByteRange(meta, i)[2] = PieceByteRange(meta, i + 1)[1]

V2IsTiled(meta) ==
    /\ HasLayout(meta) \/ Len(Layout(meta)) > MaxPieces
    /\ \A i \in DOMAIN meta.files :
         meta.files[i].length
           = FoldLeft(LAMBDA sum, piece : IF piece.file = i THEN sum + piece.length ELSE sum,
                      0, Layout(meta))

TrueDataVerifies(meta) ==
    \A k \in DOMAIN Layout(meta) :
        LET piece == Layout(meta)[k]
            file == meta.v2.files[piece.file]
        IN  \A i \in DOMAIN truth :
              (truth[i].length = file.length /\ FileRoot(Leaves(truth[i])) = file.pieces_root) =>
                VerifyPiece(meta, piece,
                            SubSeq(Leaves(truth[i]), piece.offset + 1, piece.offset + piece.length))

IsWhole(meta) ==
    /\ mi_edits = 0 => meta.ok
    /\ meta.ok =>
         /\ meta.total_length > 0
         /\ meta.kind \in {"v1", "hybrid"} => V1IsTiled(meta)
         /\ meta.kind \in {"v2", "hybrid"} => V2IsTiled(meta) /\ TrueDataVerifies(meta)

(* Metadata that is accepted can be run: its pieces tile the payload of the  *)
(* data plane that will be used, the two descriptions of a hybrid torrent    *)
(* are of the same files, and every file whose length and root are true      *)
(* will be accepted piece by piece from an honest peer, whatever was changed *)
(* elsewhere in the document.  A true document is accepted.  (Files that     *)
(* share a root may have more pieces between them than from_meta allows.)    *)
AcceptedIsWhole == via = "file" => IsWhole(ParseTorrent(document))

LinkTrackers == <<"t1", "t2", "t1">>

SameTorrent(meta, file) ==
    LET Parsed(m) == [f \in DOMAIN m \ {"announce", "announce_list"} |-> m[f]]
    IN  meta.ok /\ Parsed(meta) = Parsed(file) /\ AllTrackers(meta) = Dedup(LinkTrackers)

AsksForLayers(inspected, layers) ==
    /\ inspected.ok
    /\ LET required == RequiredPieceLayers(inspected.v2.files, inspected.piece_length)
       IN  /\ ~Inconsistent(required)
           /\ required = {<<layers[k].root, Len(layers[k].hashes)>> : k \in DOMAIN layers}

LeadsTo(file) ==
    file.ok =>
      /\ AllTrackers(file) = <<"t1">>
      /\ IF file.kind = "v1"
         THEN SameTorrent(ParseInfoDict(document.info, LinkTrackers), file)
         ELSE /\ AsksForLayers(InspectBep9(document.info), document.piece_layers)
              /\ SameTorrent(ParseInfoDictWithLayers(document.info, LinkTrackers,
                                                     document.piece_layers), file)
              /\ ParseInfoDict(document.info, LinkTrackers).ok <=> (file.kind = "hybrid")

(* A magnet link leads to the torrent of the file: the layers that a v2      *)
(* `info` dictionary is said to need are exactly those of the document       *)
(* (so the exchange asks for each once, and for the right number of          *)
(* hashes), the dictionary with them parses to the metadata of the document, *)
(* without them only a torrent with a v1 data plane is accepted, and the     *)
(* link's trackers are all there and in order.                               *)
MagnetIsFile == via = "file" => LeadsTo(ParseTorrent(document))

(* What a magnet link leaves in the durable record is readable again: the    *)
(* selection and direct peers that parsing produces, from overlapping and    *)
(* repeated fields in any order, pass the checks that restoring the record   *)
(* makes, for any torrent with enough files.                                 *)
MagnetIsDurable ==
    LET magnet == ParseMagnet(query)
    IN  magnet.ok =>
          /\ ValidateDirectPeers(magnet.peers)
          /\ ValidateSelectOnly(Indices(magnet), 10)

=============================================================================
