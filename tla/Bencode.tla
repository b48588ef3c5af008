------------------------------- MODULE Bencode -------------------------------
(* core bencode.rs: the decoder with its depth and node budgets, the writer, *)
(* and the scanner that cuts the raw `info` value out of a document.  The    *)
(* scanner and the decoder are two parsers of the same bytes: the torrent's  *)
(* identity is the hash of what the first returns, its content what the      *)
(* second returns.  Bytes are one-character strings; a document starts as    *)
(* one that the writer produced and has a few bytes replaced, inserted or    *)
(* dropped.                                                                  *)
EXTENDS Integers, Sequences, SequencesExt

CONSTANTS BnDocuments,  \* documents to start from, as values
          BnAlphabet,   \* the bytes an edit may put in
          InfoKey,      \* the key `info`, as bytes
          MaxDepth,     \* MAX_BENCODE_DEPTH
          MaxNodes,     \* MAX_BENCODE_NODES
          MaxInt,       \* i64::MAX, usize::MAX
          MaxBnEdits    \* bound on the edits

VARIABLES bytes, bn_edits

bn_vars == <<bytes, bn_edits>>

Digits == <<"0", "1", "2", "3", "4", "5", "6", "7", "8", "9">>
IsDigit(c) == \E i \in DOMAIN Digits : Digits[i] = c
DigitValue(c) == (CHOOSE i \in DOMAIN Digits : Digits[i] = c) - 1

(* Values: integers, byte strings, lists, and dictionaries as sequences of   *)
(* <<key, value>> in the order of the document.                              *)
Integer(n) == [t |-> "int", v |-> n]
Str(s) == [t |-> "str", v |-> s]
List(items) == [t |-> "list", v |-> items]
Dict(entries) == [t |-> "dict", v |-> entries]

-----------------------------------------------------------------------------
(* Writing.  Spelling is the reference: the one encoding a value has, its     *)
(* dictionaries in the order they were read.                                 *)

RECURSIVE Decimal(_)
Decimal(n) ==
    IF n < 0 THEN <<"-">> \o Decimal(-n)
    ELSE IF n < 10 THEN <<Digits[n + 1]>>
    ELSE Decimal(n \div 10) \o <<Digits[(n % 10) + 1]>>

WriteBytes(s) == Decimal(Len(s)) \o <<":">> \o s

RECURSIVE Spelling(_)
Spelling(value) ==
    CASE value.t = "int" -> <<"i">> \o Decimal(value.v) \o <<"e">>
      [] value.t = "str" -> WriteBytes(value.v)
      [] value.t = "list" ->
           <<"l">> \o FlattenSeq([i \in DOMAIN value.v |-> Spelling(value.v[i])]) \o <<"e">>
      [] value.t = "dict" ->
           <<"d">> \o FlattenSeq([i \in DOMAIN value.v |->
                        WriteBytes(value.v[i][1]) \o Spelling(value.v[i][2])]) \o <<"e">>

-----------------------------------------------------------------------------
(* The decoder.  A result carries the position after the value and the nodes *)
(* counted so far.                                                           *)

At(b, p) == IF p \in DOMAIN b THEN b[p] ELSE "end"

Failed == [ok |-> FALSE]
Parsed(value, p, nodes) == [ok |-> TRUE, value |-> value, pos |-> p, nodes |-> nodes]

\* The position of the first c at or after p, past the end if there is none.
Find(b, p, c) ==
    LET hits == {i \in p..Len(b) : b[i] = c}
    IN  IF hits = {} THEN Len(b) + 1 ELSE CHOOSE i \in hits : \A j \in hits : i <= j

Number(s) == FoldLeft(LAMBDA n, c : 10 * n + DigitValue(c), 0, s)

AllDigits(s) == \A i \in DOMAIN s : IsDigit(s[i])

\* Mutant: leading zeros are let through.
CanonicalOrPadded(s, limit) == s # <<>> /\ AllDigits(s) /\ Number(s) <= limit

\* ASCII digits, no leading zero, in range.
Canonical(s, limit) ==
    /\ s # <<>>
    /\ AllDigits(s)
    /\ s[1] = "0" => Len(s) = 1
    /\ Number(s) <= limit

\* parse_int: everything up to the `e`, which must be there.
ParseInt(b, p, nodes) ==
    LET end == Find(b, p + 1, "e")
        s == SubSeq(b, p + 1, end - 1)
        negative == s # <<>> /\ s[1] = "-"
        digits == IF negative THEN Tail(s) ELSE s
        limit == IF negative THEN MaxInt + 1 ELSE MaxInt
    IN  IF \/ ~Canonical(digits, limit)
           \/ negative /\ digits[1] = "0"
           \/ end > Len(b)
        THEN Failed
        ELSE Parsed(Integer(IF negative THEN -Number(digits) ELSE Number(digits)), end + 1, nodes)

\* parse_str: a length, a colon, and that many bytes.
ParseStr(b, p, nodes) ==
    LET colon == Find(b, p, ":")
        length == SubSeq(b, p, colon - 1)
    IN  IF colon > Len(b) THEN Failed
        ELSE IF ~Canonical(length, MaxInt) THEN Failed
        ELSE IF colon + Number(length) > Len(b) THEN Failed
        ELSE Parsed(Str(SubSeq(b, colon + 1, colon + Number(length))),
                    colon + Number(length) + 1, nodes)

RECURSIVE Parse(_, _, _, _), ParseItems(_, _, _, _, _), ParseEntries(_, _, _, _, _)

Parse(b, p, depth, nodes) ==
    IF nodes + 1 > MaxNodes THEN Failed
    ELSE CASE At(b, p) = "i" -> ParseInt(b, p, nodes + 1)
           [] At(b, p) = "l" ->
                IF depth + 1 > MaxDepth THEN Failed
                ELSE ParseItems(b, p + 1, depth + 1, nodes + 1, <<>>)
           [] At(b, p) = "d" ->
                IF depth + 1 > MaxDepth THEN Failed
                ELSE ParseEntries(b, p + 1, depth + 1, nodes + 1, <<>>)
           [] IsDigit(At(b, p)) -> ParseStr(b, p, nodes + 1)
           [] OTHER -> Failed

\* parse_list.
ParseItems(b, p, depth, nodes, items) ==
    IF At(b, p) = "e" THEN Parsed(List(items), p + 1, nodes)
    ELSE LET item == Parse(b, p, depth, nodes)
         IN  IF ~item.ok THEN Failed
             ELSE ParseItems(b, item.pos, depth, item.nodes, Append(items, item.value))

\* parse_dict: string keys, each once; a key counts as a node.
ParseEntries(b, p, depth, nodes, entries) ==
    IF At(b, p) = "e" THEN Parsed(Dict(entries), p + 1, nodes)
    ELSE IF ~IsDigit(At(b, p)) \/ nodes + 1 > MaxNodes THEN Failed
    ELSE LET key == ParseStr(b, p, nodes + 1)
         IN  IF ~key.ok THEN Failed
             ELSE IF \E i \in DOMAIN entries : entries[i][1] = key.value.v THEN Failed
             ELSE LET item == Parse(b, key.pos, depth, key.nodes)
                  IN  IF ~item.ok THEN Failed
                      ELSE ParseEntries(b, item.pos, depth, item.nodes,
                                        Append(entries, <<key.value.v, item.value>>))

DecodePrefix(b) == Parse(b, 1, 0, 0)

\* decode: one value and nothing after it.
Decode(b) ==
    LET prefix == DecodePrefix(b)
    IN  IF prefix.ok /\ prefix.pos = Len(b) + 1 THEN prefix ELSE Failed

\* find and as_dict: the value of a key of a top-level dictionary.
Has(value, key) == value.t = "dict" /\ \E i \in DOMAIN value.v : value.v[i][1] = key
Get(value, key) == value.v[CHOOSE i \in DOMAIN value.v : value.v[i][1] = key][2]

-----------------------------------------------------------------------------
(* The scanner.  A position of 0 stands for None.                            *)

\* read_str: the position after the string at p.
ReadStr(b, p) ==
    LET colon == Find(b, p, ":")
        length == SubSeq(b, p, colon - 1)
    IN  IF colon > Len(b) THEN 0
        ELSE IF ~Canonical(length, MaxInt) THEN 0
        ELSE IF colon + Number(length) > Len(b) THEN 0
        ELSE colon + Number(length) + 1

\* The body of an integer is skipped without being looked at.
SkipInt(b, p) ==
    LET end == Find(b, p + 1, "e") IN IF end > Len(b) THEN 0 ELSE end + 1

\* Mutant: strings are not stepped over, their bytes are read as tokens.
RECURSIVE SkipInStrings(_, _, _)
SkipInStrings(b, p, depth) ==
    IF p = 0 THEN 0
    ELSE IF depth = 0 \/ p > Len(b) THEN p
    ELSE CASE At(b, p) \in {"l", "d"} -> SkipInStrings(b, p + 1, depth + 1)
           [] At(b, p) = "e" -> SkipInStrings(b, p + 1, depth - 1)
           [] At(b, p) = "i" -> SkipInStrings(b, SkipInt(b, p), depth)
           [] OTHER -> SkipInStrings(b, p + 1, depth)

\* The loop of skip_value over a list or dictionary: a nesting depth, no stack.
RECURSIVE SkipNested(_, _, _)
SkipNested(b, p, depth) ==
    IF p = 0 THEN 0
    ELSE IF depth = 0 \/ p > Len(b) THEN p
    ELSE CASE At(b, p) \in {"l", "d"} -> SkipNested(b, p + 1, depth + 1)
           [] At(b, p) = "e" -> SkipNested(b, p + 1, depth - 1)
           [] IsDigit(At(b, p)) -> SkipNested(b, ReadStr(b, p), depth)
           [] At(b, p) = "i" -> SkipNested(b, SkipInt(b, p), depth)
           [] OTHER -> 0

SkipValue(b, p) ==
    CASE At(b, p) = "i" ->
           LET after == SkipInt(b, p) IN IF after = p + 2 THEN 0 ELSE after
      [] At(b, p) \in {"l", "d"} -> SkipNested(b, p + 1, 1)
      [] IsDigit(At(b, p)) -> ReadStr(b, p)
      [] OTHER -> 0

\* extract_value_bytes from an entry on: <<first, after>> of the value.
RECURSIVE ExtractFrom(_, _, _)
ExtractFrom(b, p, key) ==
    IF p > Len(b) \/ At(b, p) = "e" THEN <<>>
    ELSE LET start == ReadStr(b, p)
             after == IF start = 0 THEN 0 ELSE SkipValue(b, start)
         IN  IF after = 0 THEN <<>>
             ELSE IF SubSeq(b, Find(b, p, ":") + 1, start - 1) = key THEN <<start, after>>
             ELSE ExtractFrom(b, after, key)

ExtractValueBytes(b, key) ==
    IF At(b, 1) # "d" THEN <<>>
    ELSE LET span == ExtractFrom(b, 2, key)
         IN  IF span = <<>> THEN <<>> ELSE SubSeq(b, span[1], span[2] - 1)

-----------------------------------------------------------------------------
(* The documents.                                                            *)

BnInit ==
    /\ bytes \in {Spelling(value) : value \in BnDocuments}
    /\ bn_edits = 0

Edited(b) ==
    /\ bn_edits < MaxBnEdits
    /\ b # bytes
    /\ bytes' = b
    /\ bn_edits' = bn_edits + 1

Replace(p, c) == Edited([bytes EXCEPT ![p] = c])
Insert(p, c) == Edited(InsertAt(bytes, p, c))
Drop(p) == Edited(RemoveAt(bytes, p))

BnNext ==
    \E p \in DOMAIN bytes :
        \/ \E c \in BnAlphabet : Replace(p, c) \/ Insert(p, c)
        \/ Drop(p)

BnSpec == BnInit /\ [][BnNext]_bn_vars

-----------------------------------------------------------------------------
BnTypeOK == bytes \in Seq(STRING) /\ bn_edits \in 0..MaxBnEdits

ReadAsHashed(document) ==
    document.ok =>
      /\ Spelling(document.value) = bytes
      /\ document.value.t = "dict" =>
           ExtractValueBytes(bytes, InfoKey) =
             (IF Has(document.value, InfoKey) THEN Spelling(Get(document.value, InfoKey))
              ELSE <<>>)

(* What is hashed is what is read: of a document that the decoder accepts,   *)
(* the scanner finds the key exactly when the decoder does, and cuts out     *)
(* the bytes of just that value; and the decoder accepts a value in one      *)
(* spelling only, so the bytes hashed are determined by the value read.      *)
HashedIsRead == ReadAsHashed(Decode(bytes))
=============================================================================
