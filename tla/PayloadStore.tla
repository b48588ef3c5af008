---------------------------- MODULE PayloadStore ----------------------------
(***************************************************************************)
(* StorageIo (core storage/io/mod.rs): the files of one torrent on disk.   *)
(* A v1 torrent addresses its files as one run of bytes cut into pieces; a *)
(* v2 torrent cuts each file by itself.  Modelled are the layout made for  *)
(* a start, writes slice by slice as the awaits allow them to interleave,  *)
(* reads and rechecks, the fast-resume file with its temporary sibling,    *)
(* and the removal of everything.  A byte on disk is TRUE when it is the   *)
(* torrent's byte for that place and FALSE when it is a hole.              *)
(***************************************************************************)
EXTENDS Integers, Sequences, SequencesExt, FiniteSets

CONSTANTS Layouts,       \* file lengths, as sequences
          Addressing,    \* subset of {"v1", "v2"}
          PieceLength,
          MaxStoreFaults \* bound on failing calls, crashes and tampering

VARIABLES lengths, v2,   \* the torrent: lengths of its files, addressing
          wanted,        \* files selected
          preallocate,   \* storage.preallocate
          phase,         \* what the storage is being used for
          present,       \* files that exist
          content,       \* their bytes
          writing,       \* pieces being written, with their next slice
          stored,        \* pieces the engine believes to be on disk
          resume,        \* what the resume file holds
          temporary,     \* the temporary sibling of the resume file
          store_faults

store_vars == <<lengths, v2, wanted, preallocate, phase, present, content,
                writing, stored, resume, temporary, store_faults>>

(* The layout. *)

FileIndices == DOMAIN lengths
Total(ls) == FoldLeft(LAMBDA a, b : a + b, 0, ls)
FileStart(f) == Total(SubSeq(lengths, 1, f - 1))
FileEnd(f) == FileStart(f) + lengths[f]
Greater(a, b) == IF a > b THEN a ELSE b
Lesser(a, b) == IF a < b THEN a ELSE b
Pieces(n) == (n + PieceLength - 1) \div PieceLength

Slice(f, from, to) == [file |-> f, offset |-> from, length |-> to - from]

\* Mutant: a file that ends where the range starts counts as touched, and the
\* one that starts at its last byte does not.
SlicesShifted(start, end) ==
    LET touched == SelectSeq([f \in FileIndices |-> f],
                     LAMBDA f : FileEnd(f) >= start /\ FileStart(f) < end - 1)
    IN  [i \in DOMAIN touched |->
           LET f == touched[i]
           IN  Slice(f, Greater(FileStart(f), start) - FileStart(f),
                        Lesser(FileEnd(f), end) - FileStart(f))]

\* byte_ranges_to_file_slices: the files a byte range covers, in order.
Slices(start, end) ==
    LET touched == SelectSeq([f \in FileIndices |-> f],
                     LAMBDA f : FileEnd(f) > start /\ FileStart(f) < end)
    IN  [i \in DOMAIN touched |->
           LET f == touched[i]
           IN  Slice(f, Greater(FileStart(f), start) - FileStart(f),
                        Lesser(FileEnd(f), end) - FileStart(f))]

\* V2PieceLayout: the pieces of each file, one file after the other.
V2Layout ==
    LET OfFile(f) == [i \in 1..Pieces(lengths[f]) |->
                        Slice(f, (i - 1) * PieceLength,
                                 Lesser(i * PieceLength, lengths[f]))]
    IN  FoldLeft(LAMBDA all, f : all \o OfFile(f), <<>>, [f \in FileIndices |-> f])

PieceIndices ==
    IF v2 THEN DOMAIN V2Layout ELSE 1..Pieces(Total(lengths))

PieceSlices(p) ==
    IF v2 THEN <<V2Layout[p]>>
    ELSE Slices((p - 1) * PieceLength, Lesser(p * PieceLength, Total(lengths)))

PieceSize(p) == Total([i \in DOMAIN PieceSlices(p) |-> PieceSlices(p)[i].length])

\* checked_piece_range: the slices of a block, or none if it does not fit.
BlockSlices(p, offset, length) ==
    IF offset + length > PieceSize(p) THEN <<>>
    ELSE IF v2 THEN <<Slice(V2Layout[p].file, V2Layout[p].offset + offset,
                            V2Layout[p].offset + offset + length)>>
    ELSE Slices((p - 1) * PieceLength + offset,
                (p - 1) * PieceLength + offset + length)

(* The disk. *)

Bytes(f) == [o \in 0..(Len(content[f]) - 1) |-> content[f][o + 1]]

\* A write past the end leaves a hole before it.
WithSlice(bytes, slice) ==
    [i \in 1..Greater(Len(bytes), slice.offset + slice.length) |->
        IF i - 1 \in slice.offset..(slice.offset + slice.length - 1) THEN TRUE
        ELSE IF i <= Len(bytes) THEN bytes[i] ELSE FALSE]

SetLen(bytes, n) == [i \in 1..n |-> IF i <= Len(bytes) THEN bytes[i] ELSE FALSE]

\* A slice reads back when its file has all of its bytes; a hole reads as zero.
Reads(slice) ==
    /\ slice.file \in present
    /\ slice.offset + slice.length <= Len(content[slice.file])

Right(slice) ==
    /\ Reads(slice)
    /\ \A o \in slice.offset..(slice.offset + slice.length - 1) :
          Bytes(slice.file)[o]

ReadsRight(slices) == \A i \in DOMAIN slices : Right(slices[i])
Verified(p) == ReadsRight(PieceSlices(p))
RecheckResult == {p \in PieceIndices : Verified(p)}

NoWrites == [p \in {} |-> 0]

StoreTypeOK ==
    /\ lengths \in Layouts /\ v2 \in BOOLEAN
    /\ wanted \subseteq FileIndices /\ present \subseteq FileIndices
    /\ \A f \in FileIndices : Len(content[f]) <= lengths[f]
    /\ stored \subseteq PieceIndices /\ DOMAIN writing \subseteq PieceIndices
    /\ phase \in {"new", "open", "removing", "removed"}

StoreInit ==
    /\ lengths \in Layouts
    /\ v2 \in {a = "v2" : a \in Addressing}
    /\ wanted \in SUBSET FileIndices \ {{}} /\ preallocate \in BOOLEAN
    /\ phase = "new" /\ present = {} /\ content = [f \in FileIndices |-> <<>>]
    /\ writing = NoWrites /\ stored = {}
    /\ resume = "none" /\ temporary = "none" /\ store_faults = 0

Fault == store_faults < MaxStoreFaults /\ store_faults' = store_faults + 1
Torrent == <<lengths, v2, wanted, preallocate>>

(* Starting. *)

\* preallocate_files sizes the selected files; otherwise the layout of a
\* single-file torrent is one empty file.  Then the recheck.
Prepare ==
    LET made == IF preallocate THEN wanted
                ELSE IF Len(lengths) = 1 THEN wanted ELSE {}
    IN  /\ phase = "new" /\ phase' = "open"
        /\ present' = present \cup made
        /\ content' = [f \in FileIndices |->
                         IF preallocate /\ f \in wanted
                           THEN SetLen(content[f], lengths[f]) ELSE content[f]]
        /\ stored' = RecheckResult
        /\ UNCHANGED <<Torrent, writing, resume, temporary, store_faults>>

\* An error on the way leaves what was made so far.
PrepareFails ==
    /\ phase = "new" /\ Fault /\ preallocate
    /\ \E f \in wanted :
          /\ present' = present \cup {f}
          /\ content' = [content EXCEPT ![f] = SetLen(content[f], lengths[f])]
    /\ UNCHANGED <<Torrent, phase, writing, stored, resume, temporary>>

(* Writing a verified piece, one slice at a time. *)

BeginWrite(p) ==
    /\ phase = "open" /\ p \notin stored /\ p \notin DOMAIN writing
    /\ writing' = [q \in DOMAIN writing \cup {p} |-> IF q = p THEN 1 ELSE writing[q]]
    /\ UNCHANGED <<Torrent, phase, present, content, stored, resume, temporary,
                   store_faults>>

WriteEnds(p) == [q \in DOMAIN writing \ {p} |-> writing[q]]

WriteSlice(p) ==
    LET slice == PieceSlices(p)[writing[p]]
        last == writing[p] = Len(PieceSlices(p))
    IN  /\ p \in DOMAIN writing
        /\ present' = present \cup {slice.file}
        /\ content' = [content EXCEPT ![slice.file] = WithSlice(@, slice)]
        /\ writing' = IF last THEN WriteEnds(p)
                              ELSE [writing EXCEPT ![p] = @ + 1]
        /\ stored' = IF last THEN stored \cup {p} ELSE stored
        /\ UNCHANGED <<Torrent, phase, resume, temporary, store_faults>>

WriteFails(p) ==
    /\ p \in DOMAIN writing /\ Fault /\ writing' = WriteEnds(p)
    /\ UNCHANGED <<Torrent, phase, present, content, stored, resume, temporary>>

Recheck ==
    /\ phase = "open" /\ stored # RecheckResult /\ stored' = RecheckResult
    /\ UNCHANGED <<Torrent, phase, present, content, writing, resume, temporary,
                   store_faults>>

(* The resume file: written beside, synced, renamed. *)

\* Mutant: the resume file itself is opened and written.
SaveInPlace ==
    /\ phase = "open" /\ temporary = "none" /\ resume # "torn"
    /\ resume' = "torn" /\ temporary' = "torn"
    /\ UNCHANGED <<Torrent, phase, present, content, writing, stored, store_faults>>

SaveBegins ==
    /\ phase = "open" /\ temporary = "none" /\ temporary' = "torn"
    /\ UNCHANGED <<Torrent, phase, present, content, writing, stored, resume,
                   store_faults>>

SaveSynced ==
    /\ phase = "open" /\ temporary = "torn" /\ temporary' = "whole"
    /\ UNCHANGED <<Torrent, phase, present, content, writing, stored, resume,
                   store_faults>>

SaveRenamed ==
    /\ phase = "open" /\ temporary = "whole"
    /\ resume' = temporary /\ temporary' = "none"
    /\ UNCHANGED <<Torrent, phase, present, content, writing, stored, store_faults>>

SaveFails ==
    /\ phase = "open" /\ temporary # "none" /\ Fault /\ temporary' = "none"
    /\ UNCHANGED <<Torrent, phase, present, content, writing, stored, resume>>

\* What does not parse, or does not fit the torrent, is renamed out of the way.
LoadResume ==
    /\ phase = "new" /\ resume = "garbled" /\ resume' = "none"
    /\ UNCHANGED <<Torrent, phase, present, content, writing, stored, temporary,
                   store_faults>>

(* Removing everything, file by file; the first failure does not stop it. *)

RemoveAll ==
    /\ phase = "open" /\ DOMAIN writing = {} /\ temporary = "none"
    /\ phase' = "removing" /\ stored' = {}
    /\ UNCHANGED <<Torrent, present, content, writing, resume, temporary,
                   store_faults>>

RemoveFile(f) ==
    /\ phase = "removing" /\ f \in present
    /\ present' = present \ {f} /\ content' = [content EXCEPT ![f] = <<>>]
    /\ UNCHANGED <<Torrent, phase, writing, stored, resume, temporary, store_faults>>

RemoveResume ==
    /\ phase = "removing" /\ present = {}
    /\ resume' = "none" /\ phase' = "removed"
    /\ UNCHANGED <<Torrent, present, content, writing, stored, temporary,
                   store_faults>>

(* The world outside. *)

\* The temporary file of an interrupted save stays, under a name of its own.
Crash ==
    /\ phase = "open" /\ Fault
    /\ phase' = "new" /\ writing' = NoWrites /\ temporary' = "none"
    /\ UNCHANGED <<Torrent, present, content, stored, resume>>

\* Somebody cuts a file short, or damages the resume file.
Tamper(f) ==
    /\ phase = "new" /\ Fault /\ content[f] # <<>>
    /\ content' = [content EXCEPT ![f] = SubSeq(@, 1, Len(@) - 1)]
    /\ resume' = IF resume = "none" THEN "none" ELSE "garbled"
    /\ UNCHANGED <<Torrent, phase, present, writing, stored, temporary>>

StoreNext ==
    \/ Prepare \/ PrepareFails \/ Recheck
    \/ \E p \in PieceIndices : BeginWrite(p) \/ WriteSlice(p) \/ WriteFails(p)
    \/ SaveBegins \/ SaveSynced \/ SaveRenamed \/ SaveFails \/ LoadResume
    \/ RemoveAll \/ (\E f \in FileIndices : RemoveFile(f)) \/ RemoveResume
    \/ Crash \/ \E f \in FileIndices : Tamper(f)

StoreSpec == StoreInit /\ [][StoreNext]_store_vars

(* Properties *)

\* Every piece that was written reads back as itself, every block of it too,
\* and no write touches a byte of a piece nobody wrote: the slices of the
\* pieces cover each file exactly once, whatever the lengths of the files
\* (byte_ranges_to_file_slices 1872-1901, V2PieceLayout).
PiecesLandInPlace ==
    phase = "open" =>
        /\ \A p \in stored :
              /\ Verified(p)
              /\ \A o, n \in 0..PieceSize(p) :
                    o + n <= PieceSize(p) =>
                        /\ ReadsRight(BlockSlices(p, o, n))
                        /\ Total([i \in DOMAIN BlockSlices(p, o, n) |->
                                    BlockSlices(p, o, n)[i].length]) = n
        /\ \A f \in FileIndices : \A o \in 0..(Len(content[f]) - 1) :
              Bytes(f)[o] =>
                 Cardinality({p \in PieceIndices : \E i \in DOMAIN PieceSlices(p) :
                    LET s == PieceSlices(p)[i]
                    IN  s.file = f /\ o \in s.offset..(s.offset + s.length - 1)}) = 1

\* A crash at any point of a save leaves the resume file as it was or as it
\* should become, never in between (save_resume 1520-1560).
ResumeNeverTorn == resume # "torn"

=============================================================================
