---------------------- MODULE EngineAndAdmissionProofs ----------------------
(***************************************************************************)
(* What the resume file, the engine's claims and a finished torrent say    *)
(* about the disk, for every set of pieces, number of starts and number of *)
(* faults.                                                                 *)
(*                                                                         *)
(* For any torrents, sizes, rechecks and root controls, also when the      *)
(* control is replaced at any time: reservations and recheck permits are   *)
(* those of the work that exists, and they stay within the limits that     *)
(* those who reserved had read.                                            *)
(***************************************************************************)
EXTENDS Engine, StorageAdmission, FiniteSetTheorems, WellFoundedInduction, TLAPS

(* The pieces in every place are pieces of the torrent, and a checkpoint        *)
(* returns to the loop or ends the engine.                                      *)
Shape ==
  /\ disk \subseteq Pieces /\ buffered \subseteq Pieces /\ lost \subseteq Pieces
  /\ have \subseteq Pieces /\ shown \subseteq Pieces /\ shared \subseteq Pieces
  /\ writing \subseteq Pieces /\ stray \subseteq Pieces
  /\ resume = [present |-> resume.present, pieces |-> resume.pieces, fresh |-> resume.fresh]
  /\ resume.pieces \subseteq Pieces
  /\ torrent \in TorrentKinds
  /\ after \in {"exit", "poll", "webseed", "endgame", "parallel", "serial", "v2peers"}

(* No engine: nothing is claimed and nothing is in flight behind a live handle. *)
OffIsEmpty ==
  at = "off" => have = {} /\ shown = {} /\ shared = {} /\ writing = {} /\ buffered = {}

(* The stamps of a checkpoint were read after the flush and still match: what   *)
(* the checkpoint is about to record is on disk.                                *)
SaveIsSound == at = "save" /\ stamped => have \subseteq disk \cup lost

(* Finishing starts with the selection complete, and moves only a whole payload. *)
FinishIsComplete == at = "finish" => Complete(have)
MoveIsWhole == at = "move" \/ root = "complete" => Pieces \subseteq disk \cup lost

(* Until the process dies, the bytes of a finished torrent are somewhere. *)
FinishedIsBacked ==
  finished => torrent.selected \subseteq disk \cup buffered \cup stray \cup lost

Inv ==
  /\ Shape
  /\ ClaimsAreBacked
  /\ ResumeIsSound
  /\ OffIsEmpty
  /\ SaveIsSound
  /\ FinishIsComplete
  /\ MoveIsWhole
  /\ FinishedIsBacked

USE EngineAssumption DEF files, record, round, counters, bounds

(* The initial states satisfy the inductive invariant: a new torrent has        *)
(* nothing on disk and claims nothing.                                          *)
LEMMA InitInv == EngineInit => Inv
PROOF
<1> SUFFICES ASSUME EngineInit PROVE Inv BY Zenon
<1>1. Shape
  BY Zenon DEF EngineInit, Shape
<1>2. ClaimsAreBacked /\ OffIsEmpty
  BY Zenon DEF EngineInit, ClaimsAreBacked, OffIsEmpty
<1>3. ResumeIsSound /\ SaveIsSound /\ FinishIsComplete
  BY Zenon DEF EngineInit, ResumeIsSound, SaveIsSound, FinishIsComplete
<1>4. MoveIsWhole /\ FinishedIsBacked
  BY Zenon DEF EngineInit, MoveIsWhole, FinishedIsBacked
<1> QED BY Zenon, <1>1, <1>2, <1>3, <1>4 DEF Inv

(* What load_or_recheck returns is on disk, whether it comes from the resume    *)
(* file or from a recheck, unless a background write failed.                    *)
LEMMA LoadIsBacked ==
  ASSUME Inv PROVE LoadOrRecheck \subseteq disk \cup lost /\ LoadOrRecheck \subseteq Pieces
BY Zenon DEF LoadOrRecheck, Inv, ResumeIsSound, Shape

(* Every step of the engine, its sessions and its surroundings keeps the pieces *)
(* in every place within the torrent's.                                         *)
LEMMA ShapeStep == ASSUME Inv, [EngineNext]_engine_vars PROVE Shape'
PROOF
<1>1. CASE BootComplete
  BY Zenon, <1>1 DEF BootComplete, Booted, Inv, Shape
<1>2. CASE BootCompleteV2
  BY Zenon, <1>2 DEF BootCompleteV2, Booted, Inv, Shape
<1>3. CASE BootActive
  BY Zenon, LoadIsBacked, <1>3 DEF BootActive, Booted, Touched, Inv, Shape
<1>4. CASE BootActiveV2
  BY Zenon, LoadIsBacked, <1>4 DEF BootActiveV2, LoadOrRecheckV2, Booted, Touched, Inv, Shape
<1>5. CASE Stamp
  BY Zenon, <1>5 DEF Stamp, Lands, Inv, Shape
<1>6. CASE Save
  BY Zenon, <1>6 DEF Save, Inv, Shape
<1>7. CASE Poll
  BY Zenon, <1>7 DEF Poll, Synced, MaybePersist, Inv, Shape
<1>8. CASE PollStop
  BY Zenon, <1>8 DEF PollStop, Inv, Shape
<1>9. CASE EndWebseed
  BY Zenon, <1>9 DEF EndWebseed, Merge, NewPieces, MaybePersist, Joined, Aborted, NoSessions, Inv,
     Shape
<1>10. CASE EndEndgame
  BY Zenon, <1>10 DEF EndEndgame, Merge, NewPieces, MaybePersist, Joined, NoSessions, Inv, Shape
<1>11. CASE EndParallel
  BY Zenon, <1>11 DEF EndParallel, Merge, NewPieces, MaybePersist, Joined, Aborted, NoSessions,
     Inv, Shape
<1>12. CASE NoFurtherRound
  BY Zenon, <1>12 DEF NoFurtherRound, Inv, Shape
<1>13. CASE SerialDone
  BY Zenon, <1>13 DEF SerialDone, Inv, Shape
<1>14. CASE V2Done
  BY Zenon, <1>14 DEF V2Done, Inv, Shape
<1>15. CASE FinishMove
  BY Zenon, <1>15 DEF FinishMove, Lands, Inv, Shape
<1>16. CASE Moved
  BY Zenon, <1>16 DEF Moved, Inv, Shape
<1>17. CASE FinishSelected
  BY Zenon, <1>17 DEF FinishSelected, Inv, Shape
<1>18. CASE EngineExits
  BY Zenon, <1>18 DEF EngineExits, Drop, Forget, Inv, Shape
<1>19. ASSUME NEW p \in Pieces, WritePiece(p) PROVE Shape'
  BY Zenon, <1>19 DEF WritePiece, Rounds, Inv, Shape
<1>20. ASSUME NEW p \in Pieces, SetBit(p) PROVE Shape'
  BY Zenon, <1>20 DEF SetBit, Inv, Shape
<1>21. ASSUME NEW p \in Pieces, SerialPiece(p) PROVE Shape'
  BY Zenon, <1>21 DEF SerialPiece, OnePiece, MaybePersist, Inv, Shape
<1>22. ASSUME NEW p \in Pieces, V2Piece(p) PROVE Shape'
  BY Zenon, <1>22 DEF V2Piece, OnePiece, MaybePersist, Inv, Shape
<1>23. CASE StartRound("webround", {"webseed"})
  BY Zenon, <1>23 DEF StartRound, Inv, Shape
<1>24. CASE StartEndgame
  BY Zenon, <1>24 DEF StartEndgame, StartRound, Inv, Shape
<1>25. CASE StartRound("parround", {"webseed", "endgame", "parallel"})
  BY Zenon, <1>25 DEF StartRound, Inv, Shape
<1>26. CASE Start
  BY Zenon, <1>26 DEF Start, Inv, Shape
<1>27. CASE AbortEngine
  BY Zenon, <1>27 DEF AbortEngine, Drop, Forget, Inv, Shape
<1>28. CASE Crash
  BY Zenon, <1>28 DEF Crash, Touched, Forget, Inv, Shape
<1>29. CASE SaveFails
  BY Zenon, <1>29 DEF SaveFails, Inv, Shape
<1>30. CASE MoveFails
  BY Zenon, <1>30 DEF MoveFails, Touched, Inv, Shape
<1>31. CASE Tick
  BY Zenon, <1>31 DEF Tick, Inv, Shape
<1>32. ASSUME NEW p \in Pieces, Land(p) PROVE Shape'
  BY Zenon, <1>32 DEF Land, Lands, Touched, Inv, Shape
<1>33. ASSUME NEW p \in Pieces, WriteFails(p) PROVE Shape'
  BY Zenon, <1>33 DEF WriteFails, Inv, Shape
<1>34. ASSUME NEW p \in Pieces, Tamper(p) PROVE Shape'
  BY Zenon, <1>34 DEF Tamper, Touched, Inv, Shape
<1>35. CASE UNCHANGED engine_vars
  BY Zenon, <1>35 DEF engine_vars, Inv, Shape
<1> QED BY SMTT(40), <1>1, <1>2, <1>3, <1>4, <1>5, <1>6, <1>7, <1>8, <1>9, <1>10, <1>11, <1>12,
     <1>13, <1>14, <1>15, <1>16, <1>17, <1>18, <1>19, <1>20, <1>21, <1>22, <1>23, <1>24,
     <1>25, <1>26, <1>27, <1>28, <1>29, <1>30, <1>31, <1>32, <1>33, <1>34, <1>35 DEF EngineNext,
     Engine, Session, Outside

(* Every step keeps the claims backed: a bit is set after the write was         *)
(* accepted, and a flush, a failure or a landing only moves bytes along.        *)
LEMMA ClaimsStep == ASSUME Inv, [EngineNext]_engine_vars PROVE ClaimsAreBacked'
PROOF
<1>1. CASE BootComplete
  BY Zenon, <1>1 DEF BootComplete, Booted, Inv, Shape, ClaimsAreBacked, OffIsEmpty
<1>2. CASE BootCompleteV2
  BY Zenon, <1>2 DEF BootCompleteV2, Booted, Inv, Shape, ClaimsAreBacked, OffIsEmpty
<1>3. CASE BootActive
  BY Zenon, LoadIsBacked, <1>3 DEF BootActive, Booted, Touched, Inv, Shape, ClaimsAreBacked,
     OffIsEmpty
<1>4. CASE BootActiveV2
  BY Zenon, LoadIsBacked, <1>4 DEF BootActiveV2, LoadOrRecheckV2, Booted, Touched, Inv, Shape,
     ClaimsAreBacked, OffIsEmpty
<1>5. CASE Stamp
  BY Zenon, <1>5 DEF Stamp, Lands, Inv, Shape, ClaimsAreBacked, OffIsEmpty
<1>6. CASE Save
  BY Zenon, <1>6 DEF Save, Inv, Shape, ClaimsAreBacked, OffIsEmpty
<1>7. CASE Poll
  BY Zenon, <1>7 DEF Poll, Synced, MaybePersist, Inv, Shape, ClaimsAreBacked, OffIsEmpty
<1>8. CASE PollStop
  BY Zenon, <1>8 DEF PollStop, Inv, Shape, ClaimsAreBacked, OffIsEmpty
<1>9. CASE EndWebseed
  BY ZenonT(40), <1>9 DEF EndWebseed, Merge, NewPieces, MaybePersist, Joined, Aborted, NoSessions, Inv,
     Shape, ClaimsAreBacked, OffIsEmpty
<1>10. CASE EndEndgame
  BY Zenon, <1>10 DEF EndEndgame, Merge, NewPieces, MaybePersist, Joined, NoSessions, Inv, Shape,
     ClaimsAreBacked, OffIsEmpty
<1>11. CASE EndParallel
  BY ZenonT(40), <1>11 DEF EndParallel, Merge, NewPieces, MaybePersist, Joined, Aborted, NoSessions,
     Inv, Shape, ClaimsAreBacked, OffIsEmpty
<1>12. CASE NoFurtherRound
  BY Zenon, <1>12 DEF NoFurtherRound, Inv, Shape, ClaimsAreBacked, OffIsEmpty
<1>13. CASE SerialDone
  BY Zenon, <1>13 DEF SerialDone, Inv, Shape, ClaimsAreBacked, OffIsEmpty
<1>14. CASE V2Done
  BY Zenon, <1>14 DEF V2Done, Inv, Shape, ClaimsAreBacked, OffIsEmpty
<1>15. CASE FinishMove
  BY Zenon, <1>15 DEF FinishMove, Lands, Inv, Shape, ClaimsAreBacked, OffIsEmpty
<1>16. CASE Moved
  BY Zenon, <1>16 DEF Moved, Inv, Shape, ClaimsAreBacked, OffIsEmpty
<1>17. CASE FinishSelected
  BY Zenon, <1>17 DEF FinishSelected, Inv, Shape, ClaimsAreBacked, OffIsEmpty
<1>18. CASE EngineExits
  BY Zenon, <1>18 DEF EngineExits, Drop, Forget, Inv, Shape, ClaimsAreBacked, OffIsEmpty
<1>19. ASSUME NEW p \in Pieces, WritePiece(p) PROVE ClaimsAreBacked'
  BY <1>19 DEF WritePiece, Rounds, Inv, Shape, ClaimsAreBacked, OffIsEmpty
<1>20. ASSUME NEW p \in Pieces, SetBit(p) PROVE ClaimsAreBacked'
  BY <1>20 DEF SetBit, Inv, Shape, ClaimsAreBacked, OffIsEmpty
<1>21. ASSUME NEW p \in Pieces, SerialPiece(p) PROVE ClaimsAreBacked'
  BY Zenon, <1>21 DEF SerialPiece, OnePiece, MaybePersist, Inv, Shape, ClaimsAreBacked, OffIsEmpty
<1>22. ASSUME NEW p \in Pieces, V2Piece(p) PROVE ClaimsAreBacked'
  BY Zenon, <1>22 DEF V2Piece, OnePiece, MaybePersist, Inv, Shape, ClaimsAreBacked, OffIsEmpty
<1>23. CASE StartRound("webround", {"webseed"})
  BY Zenon, <1>23 DEF StartRound, Inv, Shape, ClaimsAreBacked, OffIsEmpty
<1>24. CASE StartEndgame
  BY Zenon, <1>24 DEF StartEndgame, StartRound, Inv, Shape, ClaimsAreBacked, OffIsEmpty
<1>25. CASE StartRound("parround", {"webseed", "endgame", "parallel"})
  BY Zenon, <1>25 DEF StartRound, Inv, Shape, ClaimsAreBacked, OffIsEmpty
<1>26. CASE Start
  BY Zenon, <1>26 DEF Start, Inv, Shape, ClaimsAreBacked, OffIsEmpty
<1>27. CASE AbortEngine
  BY Zenon, <1>27 DEF AbortEngine, Drop, Forget, Inv, Shape, ClaimsAreBacked, OffIsEmpty
<1>28. CASE Crash
  BY Zenon, <1>28 DEF Crash, Touched, Forget, Inv, Shape, ClaimsAreBacked, OffIsEmpty
<1>29. CASE SaveFails
  BY Zenon, <1>29 DEF SaveFails, Inv, Shape, ClaimsAreBacked, OffIsEmpty
<1>30. CASE MoveFails
  BY Zenon, <1>30 DEF MoveFails, Touched, Inv, Shape, ClaimsAreBacked, OffIsEmpty
<1>31. CASE Tick
  BY Zenon, <1>31 DEF Tick, Inv, Shape, ClaimsAreBacked, OffIsEmpty
<1>32. ASSUME NEW p \in Pieces, Land(p) PROVE ClaimsAreBacked'
  BY Zenon, <1>32 DEF Land, Lands, Touched, Inv, Shape, ClaimsAreBacked, OffIsEmpty
<1>33. ASSUME NEW p \in Pieces, WriteFails(p) PROVE ClaimsAreBacked'
  BY Zenon, <1>33 DEF WriteFails, Inv, Shape, ClaimsAreBacked, OffIsEmpty
<1>34. ASSUME NEW p \in Pieces, Tamper(p) PROVE ClaimsAreBacked'
  BY Zenon, <1>34 DEF Tamper, Touched, Inv, Shape, ClaimsAreBacked, OffIsEmpty
<1>35. CASE UNCHANGED engine_vars
  BY ZenonT(40), <1>35 DEF engine_vars, Inv, Shape, ClaimsAreBacked, OffIsEmpty
<1> QED BY ZenonT(40), <1>1, <1>2, <1>3, <1>4, <1>5, <1>6, <1>7, <1>8, <1>9, <1>10, <1>11, <1>12,
     <1>13, <1>14, <1>15, <1>16, <1>17, <1>18, <1>19, <1>20, <1>21, <1>22, <1>23, <1>24,
     <1>25, <1>26, <1>27, <1>28, <1>29, <1>30, <1>31, <1>32, <1>33, <1>34, <1>35 DEF EngineNext,
     Engine, Session, Outside

(* An engine that ends leaves nothing behind but what is in flight. *)
LEMMA OffStep == ASSUME Inv, [EngineNext]_engine_vars PROVE OffIsEmpty'
PROOF
<1>1. CASE BootComplete
  BY Zenon, <1>1 DEF BootComplete, Booted, Inv, OffIsEmpty, Shape
<1>2. CASE BootCompleteV2
  BY Zenon, <1>2 DEF BootCompleteV2, Booted, Inv, OffIsEmpty, Shape
<1>3. CASE BootActive
  BY Zenon, <1>3 DEF BootActive, Booted, Touched, Inv, OffIsEmpty, Shape
<1>4. CASE BootActiveV2
  BY Zenon, <1>4 DEF BootActiveV2, LoadOrRecheckV2, Booted, Touched, Inv, OffIsEmpty, Shape
<1>5. CASE Stamp
  BY Zenon, <1>5 DEF Stamp, Lands, Inv, OffIsEmpty, Shape
<1>6. CASE Save
  BY Zenon, <1>6 DEF Save, Inv, OffIsEmpty, Shape
<1>7. CASE Poll
  BY Zenon, <1>7 DEF Poll, Synced, MaybePersist, Inv, OffIsEmpty, Shape
<1>8. CASE PollStop
  BY Zenon, <1>8 DEF PollStop, Inv, OffIsEmpty, Shape
<1>9. CASE EndWebseed
  BY Zenon, <1>9 DEF EndWebseed, Merge, NewPieces, MaybePersist, Joined, Aborted, NoSessions, Inv,
     OffIsEmpty, Shape
<1>10. CASE EndEndgame
  BY Zenon, <1>10 DEF EndEndgame, Merge, NewPieces, MaybePersist, Joined, NoSessions, Inv,
     OffIsEmpty, Shape
<1>11. CASE EndParallel
  BY Zenon, <1>11 DEF EndParallel, Merge, NewPieces, MaybePersist, Joined, Aborted, NoSessions,
     Inv, OffIsEmpty, Shape
<1>12. CASE NoFurtherRound
  BY Zenon, <1>12 DEF NoFurtherRound, Inv, OffIsEmpty, Shape
<1>13. CASE SerialDone
  BY Zenon, <1>13 DEF SerialDone, Inv, OffIsEmpty, Shape
<1>14. CASE V2Done
  BY Zenon, <1>14 DEF V2Done, Inv, OffIsEmpty, Shape
<1>15. CASE FinishMove
  BY Zenon, <1>15 DEF FinishMove, Lands, Inv, OffIsEmpty, Shape
<1>16. CASE Moved
  BY Zenon, <1>16 DEF Moved, Inv, OffIsEmpty, Shape
<1>17. CASE FinishSelected
  BY Zenon, <1>17 DEF FinishSelected, Inv, OffIsEmpty, Shape
<1>18. CASE EngineExits
  BY Zenon, <1>18 DEF EngineExits, Drop, Forget, Inv, OffIsEmpty, Shape
<1>19. ASSUME NEW p \in Pieces, WritePiece(p) PROVE OffIsEmpty'
  BY Zenon, <1>19 DEF WritePiece, Rounds, Inv, OffIsEmpty, Shape
<1>20. ASSUME NEW p \in Pieces, SetBit(p) PROVE OffIsEmpty'
  BY Zenon, <1>20 DEF SetBit, Inv, OffIsEmpty, Shape
<1>21. ASSUME NEW p \in Pieces, SerialPiece(p) PROVE OffIsEmpty'
  BY Zenon, <1>21 DEF SerialPiece, OnePiece, MaybePersist, Inv, OffIsEmpty, Shape
<1>22. ASSUME NEW p \in Pieces, V2Piece(p) PROVE OffIsEmpty'
  BY Zenon, <1>22 DEF V2Piece, OnePiece, MaybePersist, Inv, OffIsEmpty, Shape
<1>23. CASE StartRound("webround", {"webseed"})
  BY Zenon, <1>23 DEF StartRound, Inv, OffIsEmpty, Shape
<1>24. CASE StartEndgame
  BY Zenon, <1>24 DEF StartEndgame, StartRound, Inv, OffIsEmpty, Shape
<1>25. CASE StartRound("parround", {"webseed", "endgame", "parallel"})
  BY Zenon, <1>25 DEF StartRound, Inv, OffIsEmpty, Shape
<1>26. CASE Start
  BY Zenon, <1>26 DEF Start, Inv, OffIsEmpty, Shape
<1>27. CASE AbortEngine
  BY Zenon, <1>27 DEF AbortEngine, Drop, Forget, Inv, OffIsEmpty, Shape
<1>28. CASE Crash
  BY Zenon, <1>28 DEF Crash, Touched, Forget, Inv, OffIsEmpty, Shape
<1>29. CASE SaveFails
  BY Zenon, <1>29 DEF SaveFails, Inv, OffIsEmpty, Shape
<1>30. CASE MoveFails
  BY Zenon, <1>30 DEF MoveFails, Touched, Inv, OffIsEmpty, Shape
<1>31. CASE Tick
  BY Zenon, <1>31 DEF Tick, Inv, OffIsEmpty, Shape
<1>32. ASSUME NEW p \in Pieces, Land(p) PROVE OffIsEmpty'
  BY Zenon, <1>32 DEF Land, Lands, Touched, Inv, OffIsEmpty, Shape
<1>33. ASSUME NEW p \in Pieces, WriteFails(p) PROVE OffIsEmpty'
  BY Zenon, <1>33 DEF WriteFails, Inv, OffIsEmpty, Shape
<1>34. ASSUME NEW p \in Pieces, Tamper(p) PROVE OffIsEmpty'
  BY Zenon, <1>34 DEF Tamper, Touched, Inv, OffIsEmpty, Shape
<1>35. CASE UNCHANGED engine_vars
  BY ZenonT(40), <1>35 DEF engine_vars, Inv, OffIsEmpty, Shape
<1> QED BY Zenon, <1>1, <1>2, <1>3, <1>4, <1>5, <1>6, <1>7, <1>8, <1>9, <1>10, <1>11, <1>12,
     <1>13, <1>14, <1>15, <1>16, <1>17, <1>18, <1>19, <1>20, <1>21, <1>22, <1>23, <1>24,
     <1>25, <1>26, <1>27, <1>28, <1>29, <1>30, <1>31, <1>32, <1>33, <1>34, <1>35 DEF EngineNext,
     Engine, Session, Outside

(* The resume file stays sound: a checkpoint records flushed pieces, and every  *)
(* write or change after its stamps were read makes them differ.                *)
LEMMA ResumeStep == ASSUME Inv, [EngineNext]_engine_vars PROVE ResumeIsSound'
PROOF
<1>1. CASE BootComplete
  BY Zenon, <1>1 DEF BootComplete, Booted, Inv, Shape, ResumeIsSound, SaveIsSound
<1>2. CASE BootCompleteV2
  BY Zenon, <1>2 DEF BootCompleteV2, Booted, Inv, Shape, ResumeIsSound, SaveIsSound
<1>3. CASE BootActive
  BY Zenon, <1>3 DEF BootActive, Booted, Touched, Inv, Shape, ResumeIsSound, SaveIsSound
<1>4. CASE BootActiveV2
  BY Zenon, <1>4 DEF BootActiveV2, LoadOrRecheckV2, Booted, Touched, Inv, Shape, ResumeIsSound,
     SaveIsSound
<1>5. CASE Stamp
  BY Zenon, <1>5 DEF Stamp, Lands, Inv, Shape, ResumeIsSound, SaveIsSound
<1>6. CASE Save
  BY Zenon, <1>6 DEF Save, Inv, Shape, ResumeIsSound, SaveIsSound
<1>7. CASE Poll
  BY Zenon, <1>7 DEF Poll, Synced, MaybePersist, Inv, Shape, ResumeIsSound, SaveIsSound
<1>8. CASE PollStop
  BY Zenon, <1>8 DEF PollStop, Inv, Shape, ResumeIsSound, SaveIsSound
<1>9. CASE EndWebseed
  BY Zenon, <1>9 DEF EndWebseed, Merge, NewPieces, MaybePersist, Joined, Aborted, NoSessions, Inv,
     Shape, ResumeIsSound, SaveIsSound
<1>10. CASE EndEndgame
  BY Zenon, <1>10 DEF EndEndgame, Merge, NewPieces, MaybePersist, Joined, NoSessions, Inv, Shape,
     ResumeIsSound, SaveIsSound
<1>11. CASE EndParallel
  BY Zenon, <1>11 DEF EndParallel, Merge, NewPieces, MaybePersist, Joined, Aborted, NoSessions,
     Inv, Shape, ResumeIsSound, SaveIsSound
<1>12. CASE NoFurtherRound
  BY Zenon, <1>12 DEF NoFurtherRound, Inv, Shape, ResumeIsSound, SaveIsSound
<1>13. CASE SerialDone
  BY Zenon, <1>13 DEF SerialDone, Inv, Shape, ResumeIsSound, SaveIsSound
<1>14. CASE V2Done
  BY Zenon, <1>14 DEF V2Done, Inv, Shape, ResumeIsSound, SaveIsSound
<1>15. CASE FinishMove
  BY Zenon, <1>15 DEF FinishMove, Lands, Inv, Shape, ResumeIsSound, SaveIsSound
<1>16. CASE Moved
  BY Zenon, <1>16 DEF Moved, Inv, Shape, ResumeIsSound, SaveIsSound
<1>17. CASE FinishSelected
  BY Zenon, <1>17 DEF FinishSelected, Inv, Shape, ResumeIsSound, SaveIsSound
<1>18. CASE EngineExits
  BY Zenon, <1>18 DEF EngineExits, Drop, Forget, Inv, Shape, ResumeIsSound, SaveIsSound
<1>19. ASSUME NEW p \in Pieces, WritePiece(p) PROVE ResumeIsSound'
  BY Zenon, <1>19 DEF WritePiece, Rounds, Inv, Shape, ResumeIsSound, SaveIsSound
<1>20. ASSUME NEW p \in Pieces, SetBit(p) PROVE ResumeIsSound'
  BY Zenon, <1>20 DEF SetBit, Inv, Shape, ResumeIsSound, SaveIsSound
<1>21. ASSUME NEW p \in Pieces, SerialPiece(p) PROVE ResumeIsSound'
  BY Zenon, <1>21 DEF SerialPiece, OnePiece, MaybePersist, Inv, Shape, ResumeIsSound, SaveIsSound
<1>22. ASSUME NEW p \in Pieces, V2Piece(p) PROVE ResumeIsSound'
  BY Zenon, <1>22 DEF V2Piece, OnePiece, MaybePersist, Inv, Shape, ResumeIsSound, SaveIsSound
<1>23. CASE StartRound("webround", {"webseed"})
  BY Zenon, <1>23 DEF StartRound, Inv, Shape, ResumeIsSound, SaveIsSound
<1>24. CASE StartEndgame
  BY Zenon, <1>24 DEF StartEndgame, StartRound, Inv, Shape, ResumeIsSound, SaveIsSound
<1>25. CASE StartRound("parround", {"webseed", "endgame", "parallel"})
  BY Zenon, <1>25 DEF StartRound, Inv, Shape, ResumeIsSound, SaveIsSound
<1>26. CASE Start
  BY Zenon, <1>26 DEF Start, Inv, Shape, ResumeIsSound, SaveIsSound
<1>27. CASE AbortEngine
  BY Zenon, <1>27 DEF AbortEngine, Drop, Forget, Inv, Shape, ResumeIsSound, SaveIsSound
<1>28. CASE Crash
  BY Zenon, <1>28 DEF Crash, Touched, Forget, Inv, Shape, ResumeIsSound, SaveIsSound
<1>29. CASE SaveFails
  BY Zenon, <1>29 DEF SaveFails, Inv, Shape, ResumeIsSound, SaveIsSound
<1>30. CASE MoveFails
  BY Zenon, <1>30 DEF MoveFails, Touched, Inv, Shape, ResumeIsSound, SaveIsSound
<1>31. CASE Tick
  BY Zenon, <1>31 DEF Tick, Inv, Shape, ResumeIsSound, SaveIsSound
<1>32. ASSUME NEW p \in Pieces, Land(p) PROVE ResumeIsSound'
  BY Zenon, <1>32 DEF Land, Lands, Touched, Inv, Shape, ResumeIsSound, SaveIsSound
<1>33. ASSUME NEW p \in Pieces, WriteFails(p) PROVE ResumeIsSound'
  BY Zenon, <1>33 DEF WriteFails, Inv, Shape, ResumeIsSound, SaveIsSound
<1>34. ASSUME NEW p \in Pieces, Tamper(p) PROVE ResumeIsSound'
  BY Zenon, <1>34 DEF Tamper, Touched, Inv, Shape, ResumeIsSound, SaveIsSound
<1>35. CASE UNCHANGED engine_vars
  BY SMTT(40), <1>35 DEF engine_vars, Inv, Shape, ResumeIsSound, SaveIsSound
<1> QED BY Zenon, <1>1, <1>2, <1>3, <1>4, <1>5, <1>6, <1>7, <1>8, <1>9, <1>10, <1>11, <1>12,
     <1>13, <1>14, <1>15, <1>16, <1>17, <1>18, <1>19, <1>20, <1>21, <1>22, <1>23, <1>24,
     <1>25, <1>26, <1>27, <1>28, <1>29, <1>30, <1>31, <1>32, <1>33, <1>34, <1>35 DEF EngineNext,
     Engine, Session, Outside

(* Between the flush and the save of a checkpoint nothing un-writes a piece. *)
LEMMA SaveStep == ASSUME Inv, [EngineNext]_engine_vars PROVE SaveIsSound'
PROOF
<1>1. CASE BootComplete
  BY Zenon, <1>1 DEF BootComplete, Booted, Inv, Shape, SaveIsSound, ClaimsAreBacked
<1>2. CASE BootCompleteV2
  BY Zenon, <1>2 DEF BootCompleteV2, Booted, Inv, Shape, SaveIsSound, ClaimsAreBacked
<1>3. CASE BootActive
  BY Zenon, <1>3 DEF BootActive, Booted, Touched, Inv, Shape, SaveIsSound, ClaimsAreBacked
<1>4. CASE BootActiveV2
  BY Zenon, <1>4 DEF BootActiveV2, LoadOrRecheckV2, Booted, Touched, Inv, Shape, SaveIsSound,
     ClaimsAreBacked
<1>5. CASE Stamp
  BY Zenon, <1>5 DEF Stamp, Lands, Inv, Shape, SaveIsSound, ClaimsAreBacked
<1>6. CASE Save
  BY Zenon, <1>6 DEF Save, Inv, Shape, SaveIsSound, ClaimsAreBacked
<1>7. CASE Poll
  BY Zenon, <1>7 DEF Poll, Synced, MaybePersist, Inv, Shape, SaveIsSound, ClaimsAreBacked
<1>8. CASE PollStop
  BY Zenon, <1>8 DEF PollStop, Inv, Shape, SaveIsSound, ClaimsAreBacked
<1>9. CASE EndWebseed
  BY Zenon, <1>9 DEF EndWebseed, Merge, NewPieces, MaybePersist, Joined, Aborted, NoSessions, Inv,
     Shape, SaveIsSound, ClaimsAreBacked
<1>10. CASE EndEndgame
  BY Zenon, <1>10 DEF EndEndgame, Merge, NewPieces, MaybePersist, Joined, NoSessions, Inv, Shape,
     SaveIsSound, ClaimsAreBacked
<1>11. CASE EndParallel
  BY Zenon, <1>11 DEF EndParallel, Merge, NewPieces, MaybePersist, Joined, Aborted, NoSessions,
     Inv, Shape, SaveIsSound, ClaimsAreBacked
<1>12. CASE NoFurtherRound
  BY Zenon, <1>12 DEF NoFurtherRound, Inv, Shape, SaveIsSound, ClaimsAreBacked
<1>13. CASE SerialDone
  BY Zenon, <1>13 DEF SerialDone, Inv, Shape, SaveIsSound, ClaimsAreBacked
<1>14. CASE V2Done
  BY Zenon, <1>14 DEF V2Done, Inv, Shape, SaveIsSound, ClaimsAreBacked
<1>15. CASE FinishMove
  BY Zenon, <1>15 DEF FinishMove, Lands, Inv, Shape, SaveIsSound, ClaimsAreBacked
<1>16. CASE Moved
  BY Zenon, <1>16 DEF Moved, Inv, Shape, SaveIsSound, ClaimsAreBacked
<1>17. CASE FinishSelected
  BY Zenon, <1>17 DEF FinishSelected, Inv, Shape, SaveIsSound, ClaimsAreBacked
<1>18. CASE EngineExits
  BY Zenon, <1>18 DEF EngineExits, Drop, Forget, Inv, Shape, SaveIsSound, ClaimsAreBacked
<1>19. ASSUME NEW p \in Pieces, WritePiece(p) PROVE SaveIsSound'
  BY Zenon, <1>19 DEF WritePiece, Rounds, Inv, Shape, SaveIsSound, ClaimsAreBacked
<1>20. ASSUME NEW p \in Pieces, SetBit(p) PROVE SaveIsSound'
  BY Zenon, <1>20 DEF SetBit, Inv, Shape, SaveIsSound, ClaimsAreBacked
<1>21. ASSUME NEW p \in Pieces, SerialPiece(p) PROVE SaveIsSound'
  BY Zenon, <1>21 DEF SerialPiece, OnePiece, MaybePersist, Inv, Shape, SaveIsSound, ClaimsAreBacked
<1>22. ASSUME NEW p \in Pieces, V2Piece(p) PROVE SaveIsSound'
  BY Zenon, <1>22 DEF V2Piece, OnePiece, MaybePersist, Inv, Shape, SaveIsSound, ClaimsAreBacked
<1>23. CASE StartRound("webround", {"webseed"})
  BY Zenon, <1>23 DEF StartRound, Inv, Shape, SaveIsSound, ClaimsAreBacked
<1>24. CASE StartEndgame
  BY Zenon, <1>24 DEF StartEndgame, StartRound, Inv, Shape, SaveIsSound, ClaimsAreBacked
<1>25. CASE StartRound("parround", {"webseed", "endgame", "parallel"})
  BY Zenon, <1>25 DEF StartRound, Inv, Shape, SaveIsSound, ClaimsAreBacked
<1>26. CASE Start
  BY Zenon, <1>26 DEF Start, Inv, Shape, SaveIsSound, ClaimsAreBacked
<1>27. CASE AbortEngine
  BY Zenon, <1>27 DEF AbortEngine, Drop, Forget, Inv, Shape, SaveIsSound, ClaimsAreBacked
<1>28. CASE Crash
  BY Zenon, <1>28 DEF Crash, Touched, Forget, Inv, Shape, SaveIsSound, ClaimsAreBacked
<1>29. CASE SaveFails
  BY Zenon, <1>29 DEF SaveFails, Inv, Shape, SaveIsSound, ClaimsAreBacked
<1>30. CASE MoveFails
  BY Zenon, <1>30 DEF MoveFails, Touched, Inv, Shape, SaveIsSound, ClaimsAreBacked
<1>31. CASE Tick
  BY Zenon, <1>31 DEF Tick, Inv, Shape, SaveIsSound, ClaimsAreBacked
<1>32. ASSUME NEW p \in Pieces, Land(p) PROVE SaveIsSound'
  BY Zenon, <1>32 DEF Land, Lands, Touched, Inv, Shape, SaveIsSound, ClaimsAreBacked
<1>33. ASSUME NEW p \in Pieces, WriteFails(p) PROVE SaveIsSound'
  BY Zenon, <1>33 DEF WriteFails, Inv, Shape, SaveIsSound, ClaimsAreBacked
<1>34. ASSUME NEW p \in Pieces, Tamper(p) PROVE SaveIsSound'
  BY Zenon, <1>34 DEF Tamper, Touched, Inv, Shape, SaveIsSound, ClaimsAreBacked
<1>35. CASE UNCHANGED engine_vars
  BY Zenon, <1>35 DEF engine_vars, Inv, Shape, SaveIsSound, ClaimsAreBacked
<1> QED BY Zenon, <1>1, <1>2, <1>3, <1>4, <1>5, <1>6, <1>7, <1>8, <1>9, <1>10, <1>11, <1>12,
     <1>13, <1>14, <1>15, <1>16, <1>17, <1>18, <1>19, <1>20, <1>21, <1>22, <1>23, <1>24,
     <1>25, <1>26, <1>27, <1>28, <1>29, <1>30, <1>31, <1>32, <1>33, <1>34, <1>35 DEF EngineNext,
     Engine, Session, Outside

(* The engine finishes only a complete selection and moves only a flushed,      *)
(* whole payload.                                                               *)
LEMMA FinishStep == ASSUME Inv, [EngineNext]_engine_vars PROVE (FinishIsComplete /\ MoveIsWhole)'
PROOF
<1>1. CASE BootComplete
  BY Zenon, <1>1 DEF BootComplete, Booted, Inv, Shape, FinishIsComplete, MoveIsWhole, Complete,
     ClaimsAreBacked
<1>2. CASE BootCompleteV2
  BY Zenon, <1>2 DEF BootCompleteV2, Booted, Inv, Shape, FinishIsComplete, MoveIsWhole, Complete,
     ClaimsAreBacked
<1>3. CASE BootActive
  BY Zenon, <1>3 DEF BootActive, Booted, Touched, Inv, Shape, FinishIsComplete, MoveIsWhole,
     Complete, ClaimsAreBacked
<1>4. CASE BootActiveV2
  BY Zenon, <1>4 DEF BootActiveV2, LoadOrRecheckV2, Booted, Touched, Inv, Shape, FinishIsComplete,
     MoveIsWhole, Complete, ClaimsAreBacked
<1>5. CASE Stamp
  BY Zenon, <1>5 DEF Stamp, Lands, Inv, Shape, FinishIsComplete, MoveIsWhole, Complete,
     ClaimsAreBacked
<1>6. CASE Save
  BY Zenon, <1>6 DEF Save, Inv, Shape, FinishIsComplete, MoveIsWhole, Complete, ClaimsAreBacked
<1>7. CASE Poll
  BY Zenon, <1>7 DEF Poll, Synced, MaybePersist, Inv, Shape, FinishIsComplete, MoveIsWhole,
     Complete, ClaimsAreBacked
<1>8. CASE PollStop
  BY Zenon, <1>8 DEF PollStop, Inv, Shape, FinishIsComplete, MoveIsWhole, Complete, ClaimsAreBacked
<1>9. CASE EndWebseed
  BY Zenon, <1>9 DEF EndWebseed, Merge, NewPieces, MaybePersist, Joined, Aborted, NoSessions, Inv,
     Shape, FinishIsComplete, MoveIsWhole, Complete, ClaimsAreBacked
<1>10. CASE EndEndgame
  BY Zenon, <1>10 DEF EndEndgame, Merge, NewPieces, MaybePersist, Joined, NoSessions, Inv, Shape,
     FinishIsComplete, MoveIsWhole, Complete, ClaimsAreBacked
<1>11. CASE EndParallel
  BY Zenon, <1>11 DEF EndParallel, Merge, NewPieces, MaybePersist, Joined, Aborted, NoSessions,
     Inv, Shape, FinishIsComplete, MoveIsWhole, Complete, ClaimsAreBacked
<1>12. CASE NoFurtherRound
  BY Zenon, <1>12 DEF NoFurtherRound, Inv, Shape, FinishIsComplete, MoveIsWhole, Complete,
     ClaimsAreBacked
<1>13. CASE SerialDone
  BY Zenon, <1>13 DEF SerialDone, Inv, Shape, FinishIsComplete, MoveIsWhole, Complete,
     ClaimsAreBacked
<1>14. CASE V2Done
  BY Zenon, <1>14 DEF V2Done, Inv, Shape, FinishIsComplete, MoveIsWhole, Complete, ClaimsAreBacked
<1>15. CASE FinishMove
  BY Zenon, <1>15 DEF FinishMove, Lands, Inv, Shape, FinishIsComplete, MoveIsWhole, Complete,
     ClaimsAreBacked
<1>16. CASE Moved
  BY Zenon, <1>16 DEF Moved, Inv, Shape, FinishIsComplete, MoveIsWhole, Complete, ClaimsAreBacked
<1>17. CASE FinishSelected
  BY Zenon, <1>17 DEF FinishSelected, Inv, Shape, FinishIsComplete, MoveIsWhole, Complete,
     ClaimsAreBacked
<1>18. CASE EngineExits
  BY Zenon, <1>18 DEF EngineExits, Drop, Forget, Inv, Shape, FinishIsComplete, MoveIsWhole, Complete,
     ClaimsAreBacked
<1>19. ASSUME NEW p \in Pieces, WritePiece(p) PROVE (FinishIsComplete /\ MoveIsWhole)'
  BY Zenon, <1>19 DEF WritePiece, Rounds, Inv, Shape, FinishIsComplete, MoveIsWhole, Complete,
     ClaimsAreBacked
<1>20. ASSUME NEW p \in Pieces, SetBit(p) PROVE (FinishIsComplete /\ MoveIsWhole)'
  BY Zenon, <1>20 DEF SetBit, Inv, Shape, FinishIsComplete, MoveIsWhole, Complete, ClaimsAreBacked
<1>21. ASSUME NEW p \in Pieces, SerialPiece(p) PROVE (FinishIsComplete /\ MoveIsWhole)'
  BY Zenon, <1>21 DEF SerialPiece, OnePiece, MaybePersist, Inv, Shape, FinishIsComplete,
     MoveIsWhole, Complete, ClaimsAreBacked
<1>22. ASSUME NEW p \in Pieces, V2Piece(p) PROVE (FinishIsComplete /\ MoveIsWhole)'
  BY Zenon, <1>22 DEF V2Piece, OnePiece, MaybePersist, Inv, Shape, FinishIsComplete, MoveIsWhole,
     Complete, ClaimsAreBacked
<1>23. CASE StartRound("webround", {"webseed"})
  BY Zenon, <1>23 DEF StartRound, Inv, Shape, FinishIsComplete, MoveIsWhole, Complete,
     ClaimsAreBacked
<1>24. CASE StartEndgame
  BY Zenon, <1>24 DEF StartEndgame, StartRound, Inv, Shape, FinishIsComplete, MoveIsWhole,
     Complete, ClaimsAreBacked
<1>25. CASE StartRound("parround", {"webseed", "endgame", "parallel"})
  BY Zenon, <1>25 DEF StartRound, Inv, Shape, FinishIsComplete, MoveIsWhole, Complete,
     ClaimsAreBacked
<1>26. CASE Start
  BY Zenon, <1>26 DEF Start, Inv, Shape, FinishIsComplete, MoveIsWhole, Complete, ClaimsAreBacked
<1>27. CASE AbortEngine
  BY Zenon, <1>27 DEF AbortEngine, Drop, Forget, Inv, Shape, FinishIsComplete, MoveIsWhole, Complete,
     ClaimsAreBacked
<1>28. CASE Crash
  BY Zenon, <1>28 DEF Crash, Touched, Forget, Inv, Shape, FinishIsComplete, MoveIsWhole, Complete,
     ClaimsAreBacked
<1>29. CASE SaveFails
  BY Zenon, <1>29 DEF SaveFails, Inv, Shape, FinishIsComplete, MoveIsWhole, Complete,
     ClaimsAreBacked
<1>30. CASE MoveFails
  BY Zenon, <1>30 DEF MoveFails, Touched, Inv, Shape, FinishIsComplete, MoveIsWhole, Complete,
     ClaimsAreBacked
<1>31. CASE Tick
  BY Zenon, <1>31 DEF Tick, Inv, Shape, FinishIsComplete, MoveIsWhole, Complete, ClaimsAreBacked
<1>32. ASSUME NEW p \in Pieces, Land(p) PROVE (FinishIsComplete /\ MoveIsWhole)'
  BY Zenon, <1>32 DEF Land, Lands, Touched, Inv, Shape, FinishIsComplete, MoveIsWhole, Complete,
     ClaimsAreBacked
<1>33. ASSUME NEW p \in Pieces, WriteFails(p) PROVE (FinishIsComplete /\ MoveIsWhole)'
  BY Zenon, <1>33 DEF WriteFails, Inv, Shape, FinishIsComplete, MoveIsWhole, Complete,
     ClaimsAreBacked
<1>34. ASSUME NEW p \in Pieces, Tamper(p) PROVE (FinishIsComplete /\ MoveIsWhole)'
  BY Zenon, <1>34 DEF Tamper, Touched, Inv, Shape, FinishIsComplete, MoveIsWhole, Complete,
     ClaimsAreBacked
<1>35. CASE UNCHANGED engine_vars
  BY SMTT(40), <1>35 DEF engine_vars, Inv, Shape, FinishIsComplete, MoveIsWhole, Complete,
     ClaimsAreBacked
<1> QED BY ZenonT(40), <1>1, <1>2, <1>3, <1>4, <1>5, <1>6, <1>7, <1>8, <1>9, <1>10, <1>11, <1>12,
     <1>13, <1>14, <1>15, <1>16, <1>17, <1>18, <1>19, <1>20, <1>21, <1>22, <1>23, <1>24,
     <1>25, <1>26, <1>27, <1>28, <1>29, <1>30, <1>31, <1>32, <1>33, <1>34, <1>35 DEF EngineNext,
     Engine, Session, Outside

(* A torrent is marked finished with its selection backed, and stays backed. *)
LEMMA FinishedStep == ASSUME Inv, [EngineNext]_engine_vars PROVE FinishedIsBacked'
PROOF
<1>1. CASE BootComplete
  BY Zenon, <1>1 DEF BootComplete, Booted, Inv, Shape, FinishedIsBacked, FinishIsComplete,
     MoveIsWhole, Complete, ClaimsAreBacked
<1>2. CASE BootCompleteV2
  BY Zenon, <1>2 DEF BootCompleteV2, Booted, Inv, Shape, FinishedIsBacked, FinishIsComplete,
     MoveIsWhole, Complete, ClaimsAreBacked
<1>3. CASE BootActive
  BY Zenon, <1>3 DEF BootActive, Booted, Touched, Inv, Shape, FinishedIsBacked, FinishIsComplete,
     MoveIsWhole, Complete, ClaimsAreBacked
<1>4. CASE BootActiveV2
  BY Zenon, <1>4 DEF BootActiveV2, LoadOrRecheckV2, Booted, Touched, Inv, Shape, FinishedIsBacked,
     FinishIsComplete, MoveIsWhole, Complete, ClaimsAreBacked
<1>5. CASE Stamp
  BY Zenon, <1>5 DEF Stamp, Lands, Inv, Shape, FinishedIsBacked, FinishIsComplete, MoveIsWhole,
     Complete, ClaimsAreBacked
<1>6. CASE Save
  BY Zenon, <1>6 DEF Save, Inv, Shape, FinishedIsBacked, FinishIsComplete, MoveIsWhole, Complete,
     ClaimsAreBacked
<1>7. CASE Poll
  BY Zenon, <1>7 DEF Poll, Synced, MaybePersist, Inv, Shape, FinishedIsBacked, FinishIsComplete,
     MoveIsWhole, Complete, ClaimsAreBacked
<1>8. CASE PollStop
  BY Zenon, <1>8 DEF PollStop, Inv, Shape, FinishedIsBacked, FinishIsComplete, MoveIsWhole,
     Complete, ClaimsAreBacked
<1>9. CASE EndWebseed
  BY Zenon, <1>9 DEF EndWebseed, Merge, NewPieces, MaybePersist, Joined, Aborted, NoSessions, Inv,
     Shape, FinishedIsBacked, FinishIsComplete, MoveIsWhole, Complete, ClaimsAreBacked
<1>10. CASE EndEndgame
  BY Zenon, <1>10 DEF EndEndgame, Merge, NewPieces, MaybePersist, Joined, NoSessions, Inv, Shape,
     FinishedIsBacked, FinishIsComplete, MoveIsWhole, Complete, ClaimsAreBacked
<1>11. CASE EndParallel
  BY Zenon, <1>11 DEF EndParallel, Merge, NewPieces, MaybePersist, Joined, Aborted, NoSessions,
     Inv, Shape, FinishedIsBacked, FinishIsComplete, MoveIsWhole, Complete, ClaimsAreBacked
<1>12. CASE NoFurtherRound
  BY Zenon, <1>12 DEF NoFurtherRound, Inv, Shape, FinishedIsBacked, FinishIsComplete, MoveIsWhole,
     Complete, ClaimsAreBacked
<1>13. CASE SerialDone
  BY Zenon, <1>13 DEF SerialDone, Inv, Shape, FinishedIsBacked, FinishIsComplete, MoveIsWhole,
     Complete, ClaimsAreBacked
<1>14. CASE V2Done
  BY Zenon, <1>14 DEF V2Done, Inv, Shape, FinishedIsBacked, FinishIsComplete, MoveIsWhole,
     Complete, ClaimsAreBacked
<1>15. CASE FinishMove
  BY Zenon, <1>15 DEF FinishMove, Lands, Inv, Shape, FinishedIsBacked, FinishIsComplete,
     MoveIsWhole, Complete, ClaimsAreBacked
<1>16. CASE Moved
  BY Zenon, <1>16 DEF Moved, Inv, Shape, FinishedIsBacked, FinishIsComplete, MoveIsWhole, Complete,
     ClaimsAreBacked
<1>17. CASE FinishSelected
  BY Zenon, <1>17 DEF FinishSelected, Inv, Shape, FinishedIsBacked, FinishIsComplete, MoveIsWhole,
     Complete, ClaimsAreBacked
<1>18. CASE EngineExits
  BY Zenon, <1>18 DEF EngineExits, Drop, Forget, Inv, Shape, FinishedIsBacked, FinishIsComplete,
     MoveIsWhole, Complete, ClaimsAreBacked
<1>19. ASSUME NEW p \in Pieces, WritePiece(p) PROVE FinishedIsBacked'
  BY Zenon, <1>19 DEF WritePiece, Rounds, Inv, Shape, FinishedIsBacked, FinishIsComplete,
     MoveIsWhole, Complete, ClaimsAreBacked
<1>20. ASSUME NEW p \in Pieces, SetBit(p) PROVE FinishedIsBacked'
  BY Zenon, <1>20 DEF SetBit, Inv, Shape, FinishedIsBacked, FinishIsComplete, MoveIsWhole,
     Complete, ClaimsAreBacked
<1>21. ASSUME NEW p \in Pieces, SerialPiece(p) PROVE FinishedIsBacked'
  BY Zenon, <1>21 DEF SerialPiece, OnePiece, MaybePersist, Inv, Shape, FinishedIsBacked,
     FinishIsComplete, MoveIsWhole, Complete, ClaimsAreBacked
<1>22. ASSUME NEW p \in Pieces, V2Piece(p) PROVE FinishedIsBacked'
  BY Zenon, <1>22 DEF V2Piece, OnePiece, MaybePersist, Inv, Shape, FinishedIsBacked,
     FinishIsComplete, MoveIsWhole, Complete, ClaimsAreBacked
<1>23. CASE StartRound("webround", {"webseed"})
  BY Zenon, <1>23 DEF StartRound, Inv, Shape, FinishedIsBacked, FinishIsComplete, MoveIsWhole,
     Complete, ClaimsAreBacked
<1>24. CASE StartEndgame
  BY Zenon, <1>24 DEF StartEndgame, StartRound, Inv, Shape, FinishedIsBacked, FinishIsComplete,
     MoveIsWhole, Complete, ClaimsAreBacked
<1>25. CASE StartRound("parround", {"webseed", "endgame", "parallel"})
  BY Zenon, <1>25 DEF StartRound, Inv, Shape, FinishedIsBacked, FinishIsComplete, MoveIsWhole,
     Complete, ClaimsAreBacked
<1>26. CASE Start
  BY Zenon, <1>26 DEF Start, Inv, Shape, FinishedIsBacked, FinishIsComplete, MoveIsWhole, Complete,
     ClaimsAreBacked
<1>27. CASE AbortEngine
  BY Zenon, <1>27 DEF AbortEngine, Drop, Forget, Inv, Shape, FinishedIsBacked, FinishIsComplete,
     MoveIsWhole, Complete, ClaimsAreBacked
<1>28. CASE Crash
  BY Zenon, <1>28 DEF Crash, Touched, Forget, Inv, Shape, FinishedIsBacked, FinishIsComplete,
     MoveIsWhole, Complete, ClaimsAreBacked
<1>29. CASE SaveFails
  BY Zenon, <1>29 DEF SaveFails, Inv, Shape, FinishedIsBacked, FinishIsComplete, MoveIsWhole,
     Complete, ClaimsAreBacked
<1>30. CASE MoveFails
  BY Zenon, <1>30 DEF MoveFails, Touched, Inv, Shape, FinishedIsBacked, FinishIsComplete,
     MoveIsWhole, Complete, ClaimsAreBacked
<1>31. CASE Tick
  BY Zenon, <1>31 DEF Tick, Inv, Shape, FinishedIsBacked, FinishIsComplete, MoveIsWhole, Complete,
     ClaimsAreBacked
<1>32. ASSUME NEW p \in Pieces, Land(p) PROVE FinishedIsBacked'
  BY Zenon, <1>32 DEF Land, Lands, Touched, Inv, Shape, FinishedIsBacked, FinishIsComplete,
     MoveIsWhole, Complete, ClaimsAreBacked
<1>33. ASSUME NEW p \in Pieces, WriteFails(p) PROVE FinishedIsBacked'
  BY Zenon, <1>33 DEF WriteFails, Inv, Shape, FinishedIsBacked, FinishIsComplete, MoveIsWhole,
     Complete, ClaimsAreBacked
<1>34. ASSUME NEW p \in Pieces, Tamper(p) PROVE FinishedIsBacked'
  BY Zenon, <1>34 DEF Tamper, Touched, Inv, Shape, FinishedIsBacked, FinishIsComplete, MoveIsWhole,
     Complete, ClaimsAreBacked
<1>35. CASE UNCHANGED engine_vars
  BY Zenon, <1>35 DEF engine_vars, Inv, Shape, FinishedIsBacked, FinishIsComplete, MoveIsWhole, Complete,
     ClaimsAreBacked
<1> QED BY Zenon, <1>1, <1>2, <1>3, <1>4, <1>5, <1>6, <1>7, <1>8, <1>9, <1>10, <1>11, <1>12,
     <1>13, <1>14, <1>15, <1>16, <1>17, <1>18, <1>19, <1>20, <1>21, <1>22, <1>23, <1>24,
     <1>25, <1>26, <1>27, <1>28, <1>29, <1>30, <1>31, <1>32, <1>33, <1>34, <1>35 DEF EngineNext,
     Engine, Session, Outside

(* The inductive invariant holds in every state: the three promises below and   *)
(* what carries them.                                                           *)
THEOREM Invariance == EngineSpec => []Inv
PROOF
<1>1. Inv /\ [EngineNext]_engine_vars => Inv'
  BY Zenon, ShapeStep, ClaimsStep, OffStep, ResumeStep, SaveStep, FinishStep, FinishedStep DEF Inv
<1> QED BY InitInv, <1>1, PTL DEF EngineSpec

(* A resume file that load_or_recheck will believe records only pieces that are *)
(* on disk, unless a background write failed.                                   *)
THEOREM ResumeSoundness == EngineSpec => []ResumeIsSound
PROOF
<1>1. Inv => ResumeIsSound
  BY Zenon DEF Inv
<1> QED BY Invariance, <1>1, PTL

(* The engine, its sessions and its public state claim only pieces that are on  *)
(* disk or in flight to it, unless a background write failed.                   *)
THEOREM ClaimsBacked == EngineSpec => []ClaimsAreBacked
PROOF
<1>1. Inv => ClaimsAreBacked
  BY Zenon DEF Inv
<1> QED BY Invariance, <1>1, PTL

(* A finished torrent has its selected pieces on disk, and the payload in the   *)
(* complete directory is whole, unless a background write failed.               *)
THEOREM FinishedWhole == EngineSpec => []FinishedIsWhole
PROOF
<1>1. Inv => FinishedIsWhole
  BY Zenon DEF Inv, Shape, OffIsEmpty, MoveIsWhole, FinishedIsBacked, FinishedIsWhole
<1> QED BY Invariance, <1>1, PTL

-----------------------------------------------------------------------------
\* Admission.

Steps == Waits \cup {"off", "idle", "start", "fetching", "commit", "running", "ending"}

\* Every step of an engine leaves the rechecks alone and the other way round.
LEMMA EngineFrame ==
  ASSUME NEW t \in Torrents, EngineStep(t)
  PROVE  UNCHANGED <<config, rechecks>>
  BY Zenon DEF EngineStep, ResolveStep, StartRead, StartReserve, Resolve, ResolveRead,
         ResolveSubscribe, ResolveReserve, ResolveSleeps, ResolveWakes, ResolveCommits,
         ResolveFails, ResolveCancelled, Exit, Cancel, Abort

\* A reservation that is made or replaced is its engine's own.
LEMMA Reserving ==
  ASSUME TypeOK, NEW t \in Torrents, NEW bytes \in Nat,
         reservations' = Inserted(t, bytes)
  PROVE  /\ DOMAIN reservations' \subseteq Torrents
         /\ \A u \in DOMAIN reservations' : reservations'[u] \in Nat
         /\ Holds(t)' /\ reservations'[t] = bytes
         /\ \A u \in Torrents \ {t} : /\ Holds(u)' <=> Holds(u)
                                      /\ Holds(u) => reservations'[u] = reservations[u]
  BY Zenon DEF TypeOK, Inserted, Holds

\* So is one that is given back.
LEMMA Releasing ==
  ASSUME TypeOK, NEW t \in Torrents, Release(t)
  PROVE  /\ DOMAIN reservations' \subseteq Torrents
         /\ \A u \in DOMAIN reservations' : reservations'[u] \in Nat
         /\ notified' \subseteq Torrents
         /\ ~Holds(t)'
         /\ \A u \in Torrents \ {t} : /\ Holds(u)' <=> Holds(u)
                                      /\ Holds(u) => reservations'[u] = reservations[u]
  BY Zenon DEF TypeOK, Release, Others, Notified, Holds

\* The type invariant is inductive for the engines.
LEMMA EngineTypes ==
  ASSUME TypeOK, NEW t \in Torrents, EngineStep(t)
  PROVE  TypeOK'
<1> USE DEF Goto
<1>f. UNCHANGED <<config, active, rpc, rseen, rnotified>>
  BY Zenon, EngineFrame DEF rechecks
<1>s. Size[t] \in Nat /\ 0 \in Nat /\ Placeholder \in Nat
  BY Zenon, AdmissionAssumption
<1> SUFFICES /\ DOMAIN reservations' \subseteq Torrents
             /\ \A u \in DOMAIN reservations' : reservations'[u] \in Nat
             /\ pc' \in [Torrents -> Steps]
             /\ seen' \in [Torrents -> Controls]
             /\ cancelled' \cup notified' \subseteq Torrents
  BY Zenon, <1>f DEF TypeOK, Steps
<1>1. CASE StartRead(t)
  BY Zenon, <1>1 DEF StartRead, TypeOK, Steps, Waits
<1>2. CASE StartReserve(t)
  <2> DEFINE bytes == IF t \in Magnets THEN 0 ELSE Size[t]
  <2>1. bytes \in Nat
    BY Zenon, <1>s
  <2>2. \/ reservations' = Inserted(t, bytes) \/ UNCHANGED reservations
    BY Zenon, <1>2 DEF StartReserve
  <2>3. /\ DOMAIN reservations' \subseteq Torrents
        /\ \A u \in DOMAIN reservations' : reservations'[u] \in Nat
    <3>1. CASE reservations' = Inserted(t, bytes)
      BY Zenon, <2>1, <3>1, Reserving
    <3>2. CASE UNCHANGED reservations
      BY Zenon, <3>2 DEF TypeOK
    <3> QED BY Zenon, <2>2, <3>1, <3>2
  <2>4. pc' \in [Torrents -> Steps]
    BY Zenon, <1>2 DEF StartReserve, TypeOK, Steps, Waits
  <2> QED BY Zenon, <1>2, <2>3, <2>4 DEF StartReserve, TypeOK
<1>3. CASE Resolve(t)
  BY Zenon, <1>3 DEF Resolve, TypeOK, Steps, Waits
<1>4. CASE ResolveRead(t)
  BY Zenon, <1>4 DEF ResolveRead, TypeOK, Steps, Waits
<1>5. CASE ResolveSubscribe(t)
  BY Zenon, <1>5 DEF ResolveSubscribe, TypeOK, Steps, Waits
<1>6. CASE ResolveReserve(t)
  <2>1. \/ reservations' = Inserted(t, Size[t]) \/ UNCHANGED reservations
    BY Zenon, <1>6 DEF ResolveReserve
  <2>2. /\ DOMAIN reservations' \subseteq Torrents
        /\ \A u \in DOMAIN reservations' : reservations'[u] \in Nat
    <3>1. CASE reservations' = Inserted(t, Size[t])
      BY Zenon, <1>s, <3>1, Reserving
    <3>2. CASE UNCHANGED reservations
      BY Zenon, <3>2 DEF TypeOK
    <3> QED BY Zenon, <2>1, <3>1, <3>2
  <2>3. pc' \in [Torrents -> Steps]
    BY Zenon, <1>6 DEF ResolveReserve, TypeOK, Steps, Waits
  <2> QED BY Zenon, <1>6, <2>2, <2>3 DEF ResolveReserve, TypeOK
<1>7. CASE ResolveSleeps(t)
  BY Zenon, <1>7 DEF ResolveSleeps, TypeOK, Steps, Waits
<1>8. CASE ResolveWakes(t)
  BY Zenon, <1>8 DEF ResolveWakes, TypeOK, Steps, Waits
<1>9. CASE ResolveCommits(t)
  BY Zenon, <1>9 DEF ResolveCommits, TypeOK, Steps, Waits
<1>10. CASE ResolveFails(t)
  <2>1. \/ reservations' = Inserted(t, Placeholder) \/ UNCHANGED reservations
    BY Zenon, <1>10 DEF ResolveFails
  <2>2. /\ DOMAIN reservations' \subseteq Torrents
        /\ \A u \in DOMAIN reservations' : reservations'[u] \in Nat
    <3>1. CASE reservations' = Inserted(t, Placeholder)
      BY Zenon, <1>s, <3>1, Reserving
    <3>2. CASE UNCHANGED reservations
      BY Zenon, <3>2 DEF TypeOK
    <3> QED BY Zenon, <2>1, <3>1, <3>2
  <2>3. pc' \in [Torrents -> Steps]
    BY Zenon, <1>10 DEF ResolveFails, TypeOK, Steps, Waits
  <2> QED BY Zenon, <1>10, <2>2, <2>3 DEF ResolveFails, TypeOK
<1>11. CASE ResolveCancelled(t)
  BY Zenon, <1>11, Releasing DEF ResolveCancelled, TypeOK, Steps, Waits
<1>12. CASE Exit(t)
  BY Zenon, <1>12, Releasing DEF Exit, TypeOK, Steps, Waits
<1>13. CASE Cancel(t)
  BY Zenon, <1>13 DEF Cancel, TypeOK, Steps, Waits
<1>14. CASE Abort(t)
  BY Zenon, <1>14, Releasing DEF Abort, TypeOK, Steps, Waits
<1> QED BY Zenon, <1>1, <1>2, <1>3, <1>4, <1>5, <1>6, <1>7, <1>8, <1>9, <1>10, <1>11, <1>12,
           <1>13, <1>14 DEF EngineStep, ResolveStep

\* What ReservedRight says of one engine.
RightFor(t) ==
  /\ pc[t] \in {"off", "idle", "start"} => ~Holds(t)
  /\ pc[t] \in Waits \cup {"fetching", "commit", "running"} => Holds(t)
  /\ pc[t] \in {"commit", "running"} => reservations[t] = Size[t]

\* It is enough to look at the engine that moved.
LEMMA OnlyOwn ==
  ASSUME TypeOK, ReservedRight, NEW t \in Torrents, NEW s,
         pc' = [pc EXCEPT ![t] = s],
         \A u \in Torrents \ {t} : /\ Holds(u)' <=> Holds(u)
                                   /\ Holds(u) => reservations'[u] = reservations[u],
         RightFor(t)'
  PROVE  ReservedRight'
<1> SUFFICES ASSUME NEW u \in Torrents PROVE RightFor(u)'
  BY Zenon DEF ReservedRight, RightFor
<1>1. CASE u = t
  BY Zenon, <1>1
<1>2. CASE u # t
  <2>1. pc'[u] = pc[u]
    BY Zenon, <1>2 DEF TypeOK
  <2>2. RightFor(u)
    BY Zenon DEF ReservedRight, RightFor
  <2> QED BY Zenon, <1>2, <2>1, <2>2 DEF RightFor, Waits
<1> QED BY Zenon, <1>1, <1>2

\* Where the torrent that moves is after its step.
LEMMA OwnStep ==
  ASSUME TypeOK, NEW t \in Torrents, NEW s, pc' = [pc EXCEPT ![t] = s]
  PROVE  pc'[t] = s
  BY Zenon DEF TypeOK

\* Reservations stay right through every step of an engine.
LEMMA EngineReserves ==
  ASSUME TypeOK, ReservedRight, NEW t \in Torrents, EngineStep(t)
  PROVE  ReservedRight'
<1> USE DEF Goto
<1>0. RightFor(t)
  BY Zenon DEF ReservedRight, RightFor
<1>s. Size[t] \in Nat /\ 0 \in Nat /\ Placeholder \in Nat
  BY Zenon, AdmissionAssumption
<1>q. ASSUME NEW s, pc' = [pc EXCEPT ![t] = s], UNCHANGED reservations,
             Holds(t) => s \notin {"off", "idle", "start"},
             ~Holds(t) => s \in {"off", "idle", "start", "ending"},
             s \in {"commit", "running"} => pc[t] \in {"commit", "running"}
      PROVE  ReservedRight'
  <2>1. pc'[t] = s
    BY Zenon, <1>q, OwnStep
  <2>2. RightFor(t)'
    BY Zenon, <1>0, <1>q, <2>1 DEF RightFor, Holds, Waits
  <2>3. \A u \in Torrents \ {t} : /\ Holds(u)' <=> Holds(u)
                                  /\ Holds(u) => reservations'[u] = reservations[u]
    BY Zenon, <1>q DEF Holds
  <2> QED BY Zenon, <1>q, <2>2, <2>3, OnlyOwn
<1>r. ASSUME Release(t), NEW s \in {"idle", "ending"}, pc' = [pc EXCEPT ![t] = s]
      PROVE  ReservedRight'
  <2>1. pc'[t] = s
    BY Zenon, <1>r, OwnStep
  <2>2. RightFor(t)'
    BY Zenon, <1>r, <2>1, Releasing DEF RightFor, Waits
  <2> QED BY Zenon, <1>r, <2>2, Releasing, OnlyOwn
<1>i. ASSUME NEW bytes \in Nat, reservations' = Inserted(t, bytes), NEW s,
             pc' = [pc EXCEPT ![t] = s],
             s \notin {"off", "idle", "start"},
             s \in {"commit", "running"} => bytes = Size[t]
      PROVE  ReservedRight'
  <2>1. pc'[t] = s
    BY Zenon, <1>i, OwnStep
  <2>2. Holds(t)' /\ reservations'[t] = bytes
    BY Zenon, <1>i, Reserving
  <2>3. RightFor(t)'
    BY Zenon, <1>i, <2>1, <2>2 DEF RightFor, Waits
  <2>4. \A u \in Torrents \ {t} : /\ Holds(u)' <=> Holds(u)
                                  /\ Holds(u) => reservations'[u] = reservations[u]
    BY Zenon, <1>i, Reserving
  <2> QED BY Zenon, <1>i, <2>3, <2>4, OnlyOwn
<1>1. CASE StartRead(t)
  BY Zenon, <1>0, <1>1, <1>q DEF StartRead, RightFor
<1>2. CASE StartReserve(t)
  <2>1. CASE admit_reservation(t, seen[t], IF t \in Magnets THEN 0 ELSE Size[t])
    <3>1. CASE t \in Magnets
      BY Zenon, <1>2, <1>s, <1>i, <2>1, <3>1 DEF StartReserve
    <3>2. CASE t \notin Magnets
      BY Zenon, <1>2, <1>s, <1>i, <2>1, <3>2 DEF StartReserve
    <3> QED BY Zenon, <3>1, <3>2
  <2>2. CASE ~admit_reservation(t, seen[t], IF t \in Magnets THEN 0 ELSE Size[t])
    BY Zenon, <1>0, <1>2, <1>q, <2>2 DEF StartReserve, RightFor
  <2> QED BY Zenon, <2>1, <2>2
<1>3. CASE Resolve(t)
  BY Zenon, <1>0, <1>3, <1>q DEF Resolve, RightFor
<1>4. CASE ResolveRead(t)
  BY Zenon, <1>0, <1>4, <1>q DEF ResolveRead, RightFor, Waits
<1>5. CASE ResolveSubscribe(t)
  BY Zenon, <1>0, <1>5, <1>q DEF ResolveSubscribe, RightFor, Waits
<1>6. CASE ResolveReserve(t)
  <2>1. CASE admit_reservation(t, seen[t], Size[t])
    BY Zenon, <1>6, <1>s, <1>i, <2>1 DEF ResolveReserve
  <2>2. CASE ~admit_reservation(t, seen[t], Size[t])
    BY Zenon, <1>0, <1>6, <1>q, <2>2 DEF ResolveReserve, RightFor, Waits
  <2> QED BY Zenon, <2>1, <2>2
<1>7. CASE ResolveSleeps(t)
  BY Zenon, <1>0, <1>7, <1>q DEF ResolveSleeps, RightFor, Waits
<1>8. CASE ResolveWakes(t)
  BY Zenon, <1>0, <1>8, <1>q DEF ResolveWakes, RightFor, Waits
<1>9. CASE ResolveCommits(t)
  BY Zenon, <1>0, <1>9, <1>q DEF ResolveCommits, RightFor
<1>10. CASE ResolveFails(t)
  <2>1. CASE admit_reservation(t, seen[t], Placeholder)
    BY Zenon, <1>10, <1>s, <1>i, <2>1 DEF ResolveFails
  <2>2. CASE ~admit_reservation(t, seen[t], Placeholder)
    BY Zenon, <1>0, <1>10, <1>q, <2>2 DEF ResolveFails, RightFor
  <2> QED BY Zenon, <2>1, <2>2
<1>11. CASE ResolveCancelled(t)
  BY Zenon, <1>11, <1>r DEF ResolveCancelled
<1>12. CASE Exit(t)
  BY Zenon, <1>12, <1>r DEF Exit
<1>13. CASE Cancel(t)
  BY Zenon, <1>13 DEF Cancel, ReservedRight, Holds
<1>14. CASE Abort(t)
  BY Zenon, <1>14, <1>r DEF Abort
<1> QED BY Zenon, <1>1, <1>2, <1>3, <1>4, <1>5, <1>6, <1>7, <1>8, <1>9, <1>10, <1>11, <1>12,
           <1>13, <1>14 DEF EngineStep, ResolveStep

-----------------------------------------------------------------------------
\* Rechecks: a permit is taken exactly when work begins and dropped exactly
\* when it ends.
LEMMA RecheckCounts ==
  ASSUME TypeOK, active = Cardinality(AtWork), NEW r \in Rechecks,
         RecheckBegin(r) \/ RecheckStep(r) \/ RecheckEnds(r) \/ RecheckCancelled(r)
  PROVE  TypeOK' /\ active' = Cardinality(AtWork')
<1> USE DEF RGoto
<1>f. IsFiniteSet(AtWork)
  BY Zenon, AdmissionAssumption, FS_Subset DEF AtWork
<1>e. UNCHANGED <<config, reservations, pc, seen, cancelled, notified>>
  BY Zenon DEF RecheckBegin, RecheckStep, RecheckRead, RecheckSubscribe, RecheckTry,
         RecheckSleeps, RecheckWakes, RecheckEnds, RecheckCancelled, engines
<1>q. ASSUME NEW s \in Waits \cup {"idle"}, rpc' = [rpc EXCEPT ![r] = s], rpc[r] # "work",
             UNCHANGED active
      PROVE  active' = Cardinality(AtWork')
  <2>1. AtWork' = AtWork
    BY Zenon, <1>q DEF AtWork, Waits, TypeOK
  <2> QED BY Zenon, <1>q, <2>1
<1>t. ASSUME NEW s \in Waits \cup {"idle", "work"}, rpc' = [rpc EXCEPT ![r] = s],
             active' \in Nat, rseen' \in [Rechecks -> Controls], rnotified' \subseteq Rechecks
      PROVE  TypeOK'
  <2>1. rpc' \in [Rechecks -> Waits \cup {"off", "idle", "work"}]
    BY Zenon, <1>t DEF TypeOK
  <2> QED BY Zenon, <1>e, <1>t, <2>1 DEF TypeOK
<1>1. CASE RecheckBegin(r)
  <2>1. rpc[r] # "work" /\ UNCHANGED active
    BY Zenon, <1>1 DEF RecheckBegin
  <2> QED BY Zenon, <1>1, <1>q, <1>t, <2>1 DEF RecheckBegin, TypeOK, Waits
<1>2. CASE RecheckRead(r)
  <2>1. rpc[r] # "work" /\ UNCHANGED active /\ rpc' = [rpc EXCEPT ![r] = "subscribe"]
    BY Zenon, <1>2 DEF RecheckRead
  <2>2. rseen' \in [Rechecks -> Controls] /\ rnotified' \subseteq Rechecks
    BY Zenon, <1>2 DEF RecheckRead, TypeOK
  <2> QED BY Zenon, <1>q, <1>t, <2>1, <2>2 DEF TypeOK, Waits
<1>3. CASE RecheckSubscribe(r)
  <2>1. rpc[r] # "work" /\ UNCHANGED active /\ rpc' = [rpc EXCEPT ![r] = "reserve"]
    BY Zenon, <1>3 DEF RecheckSubscribe
  <2>2. rseen' \in [Rechecks -> Controls] /\ rnotified' \subseteq Rechecks
    BY Zenon, <1>3 DEF RecheckSubscribe, TypeOK
  <2> QED BY Zenon, <1>q, <1>t, <2>1, <2>2 DEF TypeOK, Waits
<1>4. CASE RecheckTry(r)
  <2>0. rseen' \in [Rechecks -> Controls] /\ rnotified' \subseteq Rechecks /\ rpc[r] = "reserve"
    BY Zenon, <1>4 DEF RecheckTry, TypeOK
  <2>1. CASE rpc' = [rpc EXCEPT ![r] = "refused"] /\ UNCHANGED active
    BY Zenon, <1>q, <1>t, <2>0, <2>1 DEF TypeOK, Waits
  <2>2. CASE rpc' = [rpc EXCEPT ![r] = "work"] /\ active' = active + 1
    <3>1. AtWork' = AtWork \cup {r} /\ r \notin AtWork
      BY Zenon, <2>0, <2>2 DEF AtWork, TypeOK
    <3>2. Cardinality(AtWork') = Cardinality(AtWork) + 1
      BY Zenon, <1>f, <3>1, FS_AddElement
    <3>3. active' \in Nat
      BY <2>2 DEF TypeOK
    <3> QED BY Zenon, <1>t, <2>0, <2>2, <3>2, <3>3
  <2> QED BY Zenon, <1>4, <2>1, <2>2 DEF RecheckTry
<1>5. CASE RecheckSleeps(r)
  <2>1. rpc[r] # "work" /\ UNCHANGED active /\ rpc' = [rpc EXCEPT ![r] = "wait"]
    BY Zenon, <1>5 DEF RecheckSleeps
  <2> QED BY Zenon, <1>5, <1>q, <1>t, <2>1 DEF RecheckSleeps, TypeOK, Waits
<1>6. CASE RecheckWakes(r)
  <2>1. rpc[r] # "work" /\ UNCHANGED active /\ rpc' = [rpc EXCEPT ![r] = "read"]
    BY Zenon, <1>6 DEF RecheckWakes
  <2> QED BY Zenon, <1>6, <1>q, <1>t, <2>1 DEF RecheckWakes, TypeOK, Waits
<1>7. CASE RecheckEnds(r)
  <2>0. /\ rpc[r] = "work" /\ rpc' = [rpc EXCEPT ![r] = "idle"] /\ active' = active - 1
        /\ rseen' \in [Rechecks -> Controls] /\ rnotified' \subseteq Rechecks
    BY Zenon, <1>7 DEF RecheckEnds, RNotified, TypeOK
  <2>1. AtWork' = AtWork \ {r} /\ r \in AtWork
    BY Zenon, <2>0 DEF AtWork, TypeOK
  <2>2. Cardinality(AtWork') = Cardinality(AtWork) - 1
    BY Zenon, <1>f, <2>1, FS_RemoveElement
  <2>3. IsFiniteSet(AtWork') /\ Cardinality(AtWork') \in Nat
    BY Zenon, <1>f, <2>1, FS_RemoveElement, FS_CardinalityType
  <2>4. active' = Cardinality(AtWork')
    BY Zenon, <2>0, <2>2
  <2> QED BY Zenon, <1>t, <2>0, <2>3, <2>4
<1>8. CASE RecheckCancelled(r)
  <2>1. rpc[r] # "work" /\ UNCHANGED active /\ rpc' = [rpc EXCEPT ![r] = "idle"]
    BY Zenon, <1>8 DEF RecheckCancelled, Waits
  <2>2. rseen' \in [Rechecks -> Controls] /\ rnotified' \subseteq Rechecks
    BY Zenon, <1>8 DEF RecheckCancelled, TypeOK
  <2> QED BY Zenon, <1>q, <1>t, <2>1, <2>2 DEF TypeOK
<1> QED BY Zenon, <1>1, <1>2, <1>3, <1>4, <1>5, <1>6, <1>7, <1>8 DEF RecheckStep

-----------------------------------------------------------------------------
\* For every root control, and across replacements of it, reservations and
\* permits belong to work that exists, and payload is written only with its
\* whole size reserved (storage_controls.rs, scheduler.rs, persistence.rs).
THEOREM AdmissionBalanced == Spec => [](TypeOK /\ Balanced)
<1>1. Init => TypeOK /\ Balanced
  <2> SUFFICES ASSUME Init PROVE TypeOK /\ Balanced
    BY Zenon
  <2>1. TypeOK
    BY Zenon DEF Init, TypeOK
  <2>2. ReservedRight
    BY Zenon DEF Init, ReservedRight, Holds, Waits
  <2>3. AtWork = {}
    BY Zenon DEF Init, AtWork
  <2> QED BY Zenon, <2>1, <2>2, <2>3, FS_EmptySet DEF Init, Balanced
<1>2. (TypeOK /\ Balanced) /\ [Next]_vars => (TypeOK /\ Balanced)'
  <2> SUFFICES ASSUME TypeOK, Balanced, [Next]_vars PROVE TypeOK' /\ Balanced'
    BY Zenon
  <2>1. ASSUME NEW t \in Torrents, EngineStep(t) PROVE TypeOK' /\ Balanced'
    BY Zenon, <2>1, EngineFrame, EngineTypes, EngineReserves DEF Balanced, AtWork, rechecks
  <2>2. ASSUME NEW r \in Rechecks,
               RecheckBegin(r) \/ RecheckStep(r) \/ RecheckEnds(r) \/ RecheckCancelled(r)
        PROVE  TypeOK' /\ Balanced'
    <3>1. UNCHANGED <<reservations, pc>>
      BY Zenon, <2>2 DEF RecheckBegin, RecheckStep, RecheckRead, RecheckSubscribe, RecheckTry,
                  RecheckSleeps, RecheckWakes, RecheckEnds, RecheckCancelled, engines
    <3>2. ReservedRight'
      BY Zenon, <3>1 DEF Balanced, ReservedRight, Holds
    <3> QED BY Zenon, <2>2, <3>2, RecheckCounts DEF Balanced
  <2>3. CASE ReplaceConfig
    BY Zenon, <2>3 DEF ReplaceConfig, Notified, RNotified, TypeOK, Balanced, ReservedRight, Holds,
                AtWork
  <2>4. CASE UNCHANGED vars
    BY Zenon, <2>4 DEF vars, TypeOK, Balanced, ReservedRight, Holds, AtWork
  <2> QED BY Zenon, <2>1, <2>2, <2>3, <2>4 DEF Next
<1> QED BY <1>1, <1>2, PTL DEF Spec

-----------------------------------------------------------------------------
(***************************************************************************)
(* Sums.  Total is a fold of the community modules: a recursive function   *)
(* on the subsets, which picks its next element with CHOOSE.  What it      *)
(* computes is shown from the least number principle: a smallest set of    *)
(* which a statement fails.                                                *)
(***************************************************************************)
Pick(S) == CHOOSE x \in S : TRUE

FoldValue(fold, bytes, S) ==
  IF S = {} THEN 0 ELSE bytes[Pick(S)] + fold[S \ {Pick(S)}]

IsFold(fold, bytes, S) == fold = [s \in SUBSET S |-> FoldValue(fold, bytes, s)]

\* Every nonempty set of numbers has a least one.
LEMMA Least ==
  ASSUME NEW T, T \subseteq Nat, T # {}
  PROVE  \E n \in T : \A m \in T : n <= m
<1>1. PICK n \in T : \A m \in T : ~(<<m, n>> \in OpToRel(<, Nat))
  BY NatLessThanWellFounded, WFMin, Zenon
<1>2. \A m \in T : ~(m < n)
  BY Zenon, <1>1 DEF OpToRel
<1> QED BY <1>2

\* What the fold of the library is, with its local function named.
LEMMA TotalIs ==
  ASSUME NEW f, NEW S
  PROVE  Total(f, S) = (CHOOSE g : IsFold(g, f, S))[S]
  BY Zenon DEF Total, MapThenSumSet, MapThenFoldSet, IsFold, FoldValue, Pick

\* Taking the chosen element away leaves a smaller set.
LEMMA Smaller ==
  ASSUME NEW s, IsFiniteSet(s), s # {}
  PROVE  /\ Pick(s) \in s /\ IsFiniteSet(s \ {Pick(s)})
         /\ Cardinality(s) \in Nat /\ Cardinality(s \ {Pick(s)}) \in Nat
         /\ Cardinality(s \ {Pick(s)}) = Cardinality(s) - 1
  BY Zenon, FS_RemoveElement, FS_CardinalityType DEF Pick

\* The recursive function exists on the subsets of a finite set.
LEMMA FoldExists ==
  ASSUME NEW f, NEW S, IsFiniteSet(S)
  PROVE  \E g : IsFold(g, f, S)
<1> DEFINE Upto(n) == {s \in SUBSET S : Cardinality(s) <= n}
           Good(n) == \E g : g = [s \in Upto(n) |-> FoldValue(g, f, s)]
           Bad == {n \in Nat : ~Good(n)}
<1>0. \A s \in SUBSET S : IsFiniteSet(s) /\ Cardinality(s) \in Nat /\ Cardinality(s) <= Cardinality(S)
  BY Zenon, FS_Subset, FS_CardinalityType
<1>1. Bad = {}
  <2> SUFFICES ASSUME Bad # {} PROVE FALSE
    BY Zenon
  <2>1. PICK n \in Bad : \A m \in Bad : n <= m
    <3> HIDE DEF Good
    <3> QED BY Zenon, Least
  <2>2. CASE n = 0
    <3>1. \A s \in Upto(0) : s = {}
      BY <1>0, FS_EmptySet
    <3> DEFINE g == [s \in Upto(0) |-> 0]
    <3>2. g = [s \in Upto(0) |-> FoldValue(g, f, s)]
      BY Zenon, <3>1 DEF FoldValue
    <3> QED BY Zenon, <2>2, <3>2
  <2>3. CASE n # 0
    <3>1. n - 1 \in Nat /\ n - 1 \notin Bad
      <4> HIDE DEF Good
      <4> QED BY <2>1, <2>3
    <3>2. PICK g : g = [s \in Upto(n - 1) |-> FoldValue(g, f, s)]
      BY Zenon, <3>1
    <3> DEFINE h == [s \in Upto(n) |-> FoldValue(g, f, s)]
    <3>3. \A s \in Upto(n - 1) : s \in Upto(n) /\ h[s] = g[s]
      <4> SUFFICES ASSUME NEW s \in Upto(n - 1) PROVE s \in Upto(n) /\ h[s] = g[s]
        BY Zenon
      <4>1. s \in Upto(n)
        BY <1>0, <3>1
      <4>2. g[s] = FoldValue(g, f, s)
        BY Zenon, <3>2
      <4> QED BY Zenon, <4>1, <4>2
    <3>4. \A s \in Upto(n) : FoldValue(h, f, s) = FoldValue(g, f, s)
      <4> SUFFICES ASSUME NEW s \in Upto(n), s # {} PROVE FoldValue(h, f, s) = FoldValue(g, f, s)
        BY Zenon DEF FoldValue
      <4>1. s \ {Pick(s)} \in Upto(n - 1)
        BY <1>0, <3>1, Smaller
      <4> QED BY Zenon, <3>3, <4>1 DEF FoldValue
    <3>5. h = [s \in Upto(n) |-> FoldValue(h, f, s)]
      BY Zenon, <3>4
    <3> QED BY Zenon, <3>5
  <2> QED BY Zenon, <2>2, <2>3
<1>2. Good(Cardinality(S))
  BY Zenon, <1>0, <1>1
<1>3. Upto(Cardinality(S)) = SUBSET S
  BY Zenon, <1>0
<1> QED BY Zenon, <1>2, <1>3 DEF IsFold

\* It depends on nothing but the set and the bytes of its elements.
LEMMA FoldsAgree ==
  ASSUME NEW f, NEW h, NEW S, NEW T, NEW g, NEW k, IsFold(g, f, S), IsFold(k, h, T),
         NEW s, s \subseteq S, s \subseteq T, IsFiniteSet(s), \A x \in s : f[x] = h[x]
  PROVE  g[s] = k[s]
<1> DEFINE Bad == {q \in SUBSET s : g[q] # k[q]}
           Sizes == {Cardinality(q) : q \in Bad}
<1>0. \A q \in SUBSET s : IsFiniteSet(q) /\ Cardinality(q) \in Nat
  BY Zenon, FS_Subset, FS_CardinalityType
<1>1. Bad = {}
  <2> SUFFICES ASSUME Bad # {} PROVE FALSE
    BY Zenon
  <2>1. PICK n \in Sizes : \A m \in Sizes : n <= m
    <3>1. Sizes \subseteq Nat /\ Sizes # {}
      BY Zenon, <1>0
    <3> QED BY Zenon, <3>1, Least
  <2>2. PICK q \in Bad : n = Cardinality(q)
    BY Zenon
  <2>3. g[q] = FoldValue(g, f, q) /\ k[q] = FoldValue(k, h, q)
    BY Zenon DEF IsFold
  <2>4. q # {}
    BY Zenon, <2>3 DEF FoldValue
  <2> DEFINE r == q \ {Pick(q)}
  <2>5. /\ Pick(q) \in s /\ r \in SUBSET s
        /\ Cardinality(r) = n - 1 /\ n \in Nat /\ Cardinality(r) \in Nat
    BY Zenon, <1>0, <2>2, <2>4, Smaller
  <2>6. r \notin Bad
    <3>1. r \in Bad => Cardinality(r) \in Sizes
      BY Zenon
    <3>2. ~(n <= Cardinality(r))
      BY <2>5
    <3> QED BY Zenon, <2>1, <3>1, <3>2
  <2> QED BY Zenon, <2>3, <2>4, <2>5, <2>6 DEF FoldValue
<1> QED BY Zenon, <1>1

\* A total is the bytes of one element and the total of the rest.
LEMMA TotalStep ==
  ASSUME NEW f, NEW S, IsFiniteSet(S)
  PROVE  Total(f, S) = IF S = {} THEN 0 ELSE f[Pick(S)] + Total(f, S \ {Pick(S)})
<1>1. PICK g : IsFold(g, f, S) /\ g = CHOOSE gg : IsFold(gg, f, S)
  BY Zenon, FoldExists
<1>2. Total(f, S) = g[S]
  BY Zenon, <1>1, TotalIs
<1>3. g[S] = FoldValue(g, f, S)
  BY Zenon, <1>1 DEF IsFold
<1>4. CASE S = {}
  BY Zenon, <1>2, <1>3, <1>4 DEF FoldValue
<1>5. CASE S # {}
  <2> DEFINE R == S \ {Pick(S)}
  <2>0. IsFiniteSet(R)
    BY Zenon, <1>5, Smaller
  <2>1. PICK k : IsFold(k, f, R) /\ k = CHOOSE gg : IsFold(gg, f, R)
    BY Zenon, <2>0, FoldExists
  <2>2. Total(f, R) = k[R]
    BY Zenon, <2>1, TotalIs
  <2>3. g[R] = k[R]
    <3> HIDE DEF R
    <3>1. R \subseteq S
      BY Zenon DEF R
    <3> QED BY <1>1, <2>0, <2>1, <3>1, FoldsAgree
  <2> QED BY Zenon, <1>2, <1>3, <1>5, <2>2, <2>3 DEF FoldValue
<1> QED BY Zenon, <1>4, <1>5

\* A total depends on the bytes of the elements only.
LEMMA TotalSame ==
  ASSUME NEW f, NEW h, NEW S, IsFiniteSet(S), \A x \in S : f[x] = h[x]
  PROVE  Total(f, S) = Total(h, S)
<1>1. PICK g : IsFold(g, f, S) /\ g = CHOOSE gg : IsFold(gg, f, S)
  BY Zenon, FoldExists
<1>2. PICK k : IsFold(k, h, S) /\ k = CHOOSE gg : IsFold(gg, h, S)
  BY Zenon, FoldExists
<1>3. g[S] = k[S]
  BY <1>1, <1>2, FoldsAgree
<1> QED BY Zenon, <1>1, <1>2, <1>3, TotalIs

\* A total of numbers is a number.
LEMMA TotalNat ==
  ASSUME NEW f, NEW S, IsFiniteSet(S), \A x \in S : f[x] \in Nat
  PROVE  Total(f, S) \in Nat
<1> DEFINE Bad == {q \in SUBSET S : Total(f, q) \notin Nat}
           Sizes == {Cardinality(q) : q \in Bad}
<1>0. \A q \in SUBSET S : IsFiniteSet(q) /\ Cardinality(q) \in Nat
  BY Zenon, FS_Subset, FS_CardinalityType
<1>1. Bad = {}
  <2> SUFFICES ASSUME Bad # {} PROVE FALSE
    BY Zenon
  <2>1. PICK n \in Sizes : \A m \in Sizes : n <= m
    <3>1. Sizes \subseteq Nat /\ Sizes # {}
      BY Zenon, <1>0
    <3> QED BY Zenon, <3>1, Least
  <2>2. PICK q \in Bad : n = Cardinality(q)
    BY Zenon
  <2>3. Total(f, q) = IF q = {} THEN 0 ELSE f[Pick(q)] + Total(f, q \ {Pick(q)})
    BY Zenon, <1>0, TotalStep
  <2>4. q # {}
    BY <2>3
  <2> DEFINE r == q \ {Pick(q)}
  <2>5. /\ Pick(q) \in S /\ r \in SUBSET S
        /\ Cardinality(r) = n - 1 /\ n \in Nat /\ Cardinality(r) \in Nat
    BY Zenon, <1>0, <2>2, <2>4, Smaller
  <2>6. r \notin Bad
    <3>1. r \in Bad => Cardinality(r) \in Sizes
      BY Zenon
    <3>2. ~(n <= Cardinality(r))
      BY <2>5
    <3> QED BY Zenon, <2>1, <3>1, <3>2
  <2> QED BY <2>3, <2>4, <2>5, <2>6
<1> QED BY Zenon, <1>1

\* Any element can be taken first: the order of the fold does not matter.
LEMMA TotalRemove ==
  ASSUME NEW f, NEW S, IsFiniteSet(S), \A x \in S : f[x] \in Nat, NEW t \in S
  PROVE  Total(f, S) = f[t] + Total(f, S \ {t})
<1> DEFINE Bad == {q \in SUBSET S : \E u \in q : Total(f, q) # f[u] + Total(f, q \ {u})}
           Sizes == {Cardinality(q) : q \in Bad}
<1>0. \A q \in SUBSET S : IsFiniteSet(q) /\ Cardinality(q) \in Nat
  BY Zenon, FS_Subset, FS_CardinalityType
<1>n. \A q \in SUBSET S : Total(f, q) \in Nat
  BY Zenon, <1>0, TotalNat
<1>1. Bad = {}
  <2> SUFFICES ASSUME Bad # {} PROVE FALSE
    BY Zenon
  <2>1. PICK n \in Sizes : \A m \in Sizes : n <= m
    <3>1. Sizes \subseteq Nat /\ Sizes # {}
      BY Zenon, <1>0
    <3> QED BY Zenon, <3>1, Least
  <2>2. PICK q \in Bad : n = Cardinality(q)
    BY Zenon
  <2>3. PICK u \in q : Total(f, q) # f[u] + Total(f, q \ {u})
    BY Zenon
  <2> DEFINE x == Pick(q)
  <2>4. /\ x \in q /\ x \in S /\ u \in S
        /\ q \ {x} \in SUBSET S /\ q \ {u} \in SUBSET S
    BY Zenon DEF Pick
  <2>c. ASSUME NEW y \in q PROVE q \ {y} \notin Bad
    <3>1. Cardinality(q \ {y}) = n - 1 /\ n \in Nat
      BY Zenon, <1>0, <2>2, FS_RemoveElement
    <3>2. q \ {y} \in Bad => Cardinality(q \ {y}) \in Sizes
      BY Zenon
    <3>3. ~(n <= Cardinality(q \ {y}))
      BY <3>1
    <3> QED BY Zenon, <2>1, <3>2, <3>3
  <2>5. Total(f, q) = f[x] + Total(f, q \ {x})
    BY Zenon, <1>0, TotalStep
  <2>6. x # u
    BY Zenon, <2>3, <2>5
  <2>7. q \ {x} \notin Bad /\ q \ {u} \notin Bad
    BY Zenon, <2>4, <2>c
  <2>8. Total(f, q \ {x}) = f[u] + Total(f, (q \ {x}) \ {u})
    BY Zenon, <2>4, <2>6, <2>7
  <2>9. Total(f, q \ {u}) = f[x] + Total(f, (q \ {u}) \ {x})
    BY Zenon, <2>4, <2>6, <2>7
  <2>10. (q \ {x}) \ {u} = (q \ {u}) \ {x} /\ (q \ {x}) \ {u} \in SUBSET S
    BY Zenon
  <2>11. f[x] \in Nat /\ f[u] \in Nat /\ Total(f, (q \ {x}) \ {u}) \in Nat
    BY Zenon, <1>n, <2>4, <2>10
  <2> HIDE DEF x
  <2>12. PICK k \in Nat : k = Total(f, (q \ {x}) \ {u})
    BY Zenon, <2>11
  <2>13. Total(f, q \ {x}) = f[u] + k /\ Total(f, q \ {u}) = f[x] + k
    BY Zenon, <2>8, <2>9, <2>10, <2>12
  <2>14. PICK i \in Nat : i = f[x]
    BY Zenon, <2>11
  <2>15. PICK j \in Nat : j = f[u]
    BY Zenon, <2>11
  <2>16. i + (j + k) = j + (i + k)
    OBVIOUS
  <2> QED BY Zenon, <2>3, <2>5, <2>13, <2>14, <2>15, <2>16
<1> QED BY Zenon, <1>1

-----------------------------------------------------------------------------
(***************************************************************************)
(* The limits.                                                             *)
(***************************************************************************)
Limits == [max_active_downloads : Nat, max_active_bytes : Nat, max_concurrent_rechecks : Nat]

\* Whatever control k admits, c admits: 0 is no limit.
AtMost(k, c) ==
  /\ c.max_active_downloads > 0 =>
       k.max_active_downloads > 0 /\ k.max_active_downloads <= c.max_active_downloads
  /\ c.max_active_bytes > 0 =>
       k.max_active_bytes > 0 /\ k.max_active_bytes <= c.max_active_bytes
  /\ c.max_concurrent_rechecks > 0 =>
       k.max_concurrent_rechecks > 0 /\ k.max_concurrent_rechecks <= c.max_concurrent_rechecks

\* Nobody decides on a control that is looser than c.
ReadAtMost(c) ==
  /\ AtMost(config, c)
  /\ \A t \in Torrents : AtMost(seen[t], c)
  /\ \A r \in Rechecks : AtMost(rseen[r], c)

\* What a step of an engine does to the reservations.
LEMMA EngineReserving ==
  ASSUME TypeOK, NEW t \in Torrents, EngineStep(t)
  PROVE  \/ UNCHANGED reservations
         \/ Release(t)
         \/ \E bytes \in Nat : /\ admit_reservation(t, seen[t], bytes)
                               /\ reservations' = Inserted(t, bytes)
<1>1. 0 \in Nat /\ Size[t] \in Nat /\ Placeholder \in Nat
  BY Zenon, AdmissionAssumption
<1>2. CASE StartReserve(t)
  BY Zenon, <1>1, <1>2 DEF StartReserve
<1>3. CASE ResolveReserve(t)
  BY Zenon, <1>1, <1>3 DEF ResolveReserve
<1>4. CASE ResolveFails(t)
  BY Zenon, <1>1, <1>4 DEF ResolveFails
<1>5. CASE ~(StartReserve(t) \/ ResolveReserve(t) \/ ResolveFails(t))
  BY Zenon, <1>5 DEF EngineStep, ResolveStep, StartRead, Resolve, ResolveRead, ResolveSubscribe,
              ResolveSleeps, ResolveWakes, ResolveCommits, ResolveCancelled, Exit, Cancel, Abort
<1> QED BY Zenon, <1>2, <1>3, <1>4, <1>5

\* The reservations are those of finitely many torrents.
LEMMA FinitelyMany ==
  ASSUME TypeOK
  PROVE  /\ IsFiniteSet(DOMAIN reservations)
         /\ Cardinality(DOMAIN reservations) \in Nat
         /\ Total(reservations, DOMAIN reservations) \in Nat
         /\ \A t : /\ IsFiniteSet(Others(t)) /\ Cardinality(Others(t)) \in Nat
                   /\ Total(reservations, Others(t)) \in Nat
                   /\ t \notin DOMAIN reservations => Others(t) = DOMAIN reservations
                   /\ t \in DOMAIN reservations =>
                        /\ Cardinality(Others(t)) = Cardinality(DOMAIN reservations) - 1
                        /\ Total(reservations, DOMAIN reservations)
                             = reservations[t] + Total(reservations, Others(t))
<1>1. IsFiniteSet(DOMAIN reservations)
  BY Zenon, AdmissionAssumption, FS_Subset DEF TypeOK
<1>2. \A x \in DOMAIN reservations : reservations[x] \in Nat
  BY Zenon DEF TypeOK
<1> SUFFICES ASSUME NEW CONSTANT f, NEW CONSTANT D, f = reservations, D = DOMAIN reservations,
                    NEW t
             PROVE  /\ Cardinality(D) \in Nat /\ Total(f, D) \in Nat
                    /\ IsFiniteSet(D \ {t}) /\ Cardinality(D \ {t}) \in Nat
                    /\ Total(f, D \ {t}) \in Nat
                    /\ t \notin D => D \ {t} = D
                    /\ t \in D => /\ Cardinality(D \ {t}) = Cardinality(D) - 1
                                  /\ Total(f, D) = f[t] + Total(f, D \ {t})
  BY ZenonT(40), <1>1 DEF Others
<1>3. IsFiniteSet(D) /\ IsFiniteSet(D \ {t}) /\ \A x \in D : f[x] \in Nat
  BY Zenon, <1>1, <1>2, FS_Subset
<1>4. Total(f, D) \in Nat /\ Total(f, D \ {t}) \in Nat
  BY Zenon, <1>3, TotalNat
<1>5. CASE t \in D
  BY SMTT(40), <1>3, <1>4, <1>5, TotalRemove, FS_RemoveElement, FS_CardinalityType
<1>6. CASE t \notin D
  BY Zenon, <1>3, <1>4, <1>6, FS_CardinalityType
<1> QED BY Zenon, <1>5, <1>6

\* The number and the total after a reservation is made or replaced.
LEMMA AfterReserving ==
  ASSUME TypeOK, NEW t \in Torrents, NEW bytes \in Nat, reservations' = Inserted(t, bytes)
  PROVE  /\ Cardinality(DOMAIN reservations') = Cardinality(Others(t)) + 1
         /\ Total(reservations', DOMAIN reservations') = bytes + OthersBytes(t)
<1>1. PICK f, g, O : f = reservations /\ g = reservations' /\ O = Others(t)
  BY Zenon
<1>2. IsFiniteSet(O) /\ t \notin O /\ \A x \in O : f[x] \in Nat /\ g[x] = f[x]
  BY Zenon, <1>1, FinitelyMany DEF Inserted, Others, TypeOK
<1>3. DOMAIN g = O \cup {t} /\ g[t] = bytes
  BY Zenon, <1>1 DEF Inserted, Others
<1>4. IsFiniteSet(O \cup {t}) /\ Cardinality(O \cup {t}) = Cardinality(O) + 1
  BY Zenon, <1>2, FS_AddElement
<1>5. (O \cup {t}) \ {t} = O
  BY Zenon, <1>2
<1>6. Total(g, O \cup {t}) = g[t] + Total(g, O)
  <2>1. \A x \in O \cup {t} : g[x] \in Nat
    BY Zenon, <1>2, <1>3
  <2> QED BY SMTT(20), <1>4, <1>5, <2>1, TotalRemove
<1>7. Total(g, O) = Total(f, O)
  BY ZenonT(40), <1>2, TotalSame
<1> QED BY Zenon, <1>1, <1>3, <1>4, <1>6, <1>7 DEF OthersBytes

\* And after one is given back.
LEMMA AfterReleasing ==
  ASSUME TypeOK, NEW t \in Torrents, Release(t)
  PROVE  /\ DOMAIN reservations' = Others(t)
         /\ Total(reservations', DOMAIN reservations') = OthersBytes(t)
<1>1. PICK f, g, O : f = reservations /\ g = reservations' /\ O = Others(t)
  BY Zenon
<1>2. IsFiniteSet(O) /\ DOMAIN g = O /\ \A x \in O : g[x] = f[x]
  BY Zenon, <1>1, FinitelyMany DEF Release, Others
<1>3. Total(g, O) = Total(f, O)
  BY Zenon, <1>2, TotalSame
<1> QED BY Zenon, <1>1, <1>2, <1>3 DEF OthersBytes

\* A step of anybody who decides on a control no looser than c keeps within c.
LEMMA StepWithin ==
  ASSUME TypeOK, [Next]_vars, NEW CONSTANT c \in Limits, ReadAtMost(c), Within(c)
  PROVE  Within(c)'
<1> USE DEF Limits
<1> DEFINE Number == Cardinality(DOMAIN reservations)
           Sum == Total(reservations, DOMAIN reservations)
<1>0. Number \in Nat /\ Sum \in Nat /\ active \in Nat
  BY Zenon, FinitelyMany DEF TypeOK
<1>1. ASSUME NEW t \in Torrents, EngineStep(t) PROVE Within(c)'
  <2>1. UNCHANGED active
    BY Zenon, <1>1, EngineFrame DEF rechecks
  <2>2. CASE UNCHANGED reservations
    BY Zenon, <2>1, <2>2 DEF Within
  <2>3. CASE Release(t)
    <3>1. Cardinality(Others(t)) <= Number /\ OthersBytes(t) <= Sum
      <4>1. CASE t \in DOMAIN reservations
        <5>1. reservations[t] \in Nat
          BY Zenon, <4>1 DEF TypeOK
        <5> QED BY <1>0, <4>1, <5>1, FinitelyMany DEF OthersBytes
      <4>2. CASE t \notin DOMAIN reservations
        BY SMTT(40), <1>0, <4>2, FinitelyMany DEF OthersBytes
      <4> QED BY Zenon, <4>1, <4>2
    <3>2. Cardinality(Others(t)) \in Nat /\ OthersBytes(t) \in Nat
      BY Zenon, FinitelyMany DEF OthersBytes
    <3>3. Number' = Cardinality(Others(t)) /\ Sum' = OthersBytes(t)
      BY Zenon, <2>3, AfterReleasing
    <3> QED BY SMTT(40), <1>0, <2>1, <3>1, <3>2, <3>3 DEF Within
  <2>4. ASSUME NEW bytes \in Nat, admit_reservation(t, seen[t], bytes),
               reservations' = Inserted(t, bytes)
        PROVE  Within(c)'
    <3>1. Number' = Cardinality(Others(t)) + 1 /\ Sum' = bytes + OthersBytes(t)
      BY Zenon, <2>4, AfterReserving
    <3>2. Cardinality(Others(t)) \in Nat /\ OthersBytes(t) \in Nat
      BY Zenon, FinitelyMany DEF OthersBytes
    <3>3. PICK k \in Limits : k = seen[t]
      BY Zenon, AdmissionAssumption DEF TypeOK
    <3>4. AtMost(k, c)
      BY Zenon, <3>3 DEF ReadAtMost
    <3>5. c.max_active_downloads > 0 => Number' <= c.max_active_downloads
      BY SMTT(40), <2>4, <3>1, <3>2, <3>3, <3>4 DEF AtMost, admit_reservation
    <3>6. c.max_active_bytes > 0 => Sum' <= c.max_active_bytes
      BY SMTT(40), <2>4, <3>1, <3>2, <3>3, <3>4 DEF AtMost, admit_reservation
    <3> QED BY Zenon, <2>1, <3>5, <3>6 DEF Within
  <2> QED BY Zenon, <1>1, <2>2, <2>3, <2>4, EngineReserving
<1>2. ASSUME NEW r \in Rechecks,
             RecheckBegin(r) \/ RecheckStep(r) \/ RecheckEnds(r) \/ RecheckCancelled(r)
      PROVE  Within(c)'
  <2>1. UNCHANGED reservations
    BY Zenon, <1>2 DEF RecheckBegin, RecheckStep, RecheckRead, RecheckSubscribe, RecheckTry,
                RecheckSleeps, RecheckWakes, RecheckEnds, RecheckCancelled, engines
  <2>2. PICK k \in Limits : k = rseen[r]
    BY Zenon, AdmissionAssumption DEF TypeOK
  <2>3. AtMost(k, c)
    BY Zenon, <2>2 DEF ReadAtMost
  <2>4. \/ active' = active \/ active' = active - 1
        \/ active' = active + 1 /\ ~(k.max_concurrent_rechecks > 0
                                     /\ active >= k.max_concurrent_rechecks)
    BY Zenon, <1>2, <2>2 DEF RecheckBegin, RecheckStep, RecheckRead, RecheckSubscribe, RecheckTry,
                RecheckSleeps, RecheckWakes, RecheckEnds, RecheckCancelled
  <2>5. c.max_concurrent_rechecks > 0 => active' <= c.max_concurrent_rechecks
    BY SMTT(40), <1>0, <2>3, <2>4 DEF AtMost, Within
  <2> QED BY Zenon, <2>1, <2>5 DEF Within
<1>3. CASE ReplaceConfig
  BY Zenon, <1>3 DEF ReplaceConfig, Within
<1>4. CASE UNCHANGED vars
  BY Zenon, <1>4 DEF vars, Within
<1> QED BY Zenon, <1>1, <1>2, <1>3, <1>4 DEF Next

\* The controls that are read are those of the configuration.
LEMMA StepReads ==
  ASSUME TypeOK, [Next]_vars, NEW CONSTANT c \in Limits, ReadAtMost(c), AtMost(config', c)
  PROVE  ReadAtMost(c)'
<1>1. /\ seen' = seen \/ \E t \in Torrents : seen' = [seen EXCEPT ![t] = config]
      /\ rseen' = rseen \/ \E r \in Rechecks : rseen' = [rseen EXCEPT ![r] = config]
  <2>1. ASSUME NEW t \in Torrents, EngineStep(t) PROVE <1>1!:
    <3>1. rseen' = rseen
      BY Zenon, <2>1, EngineFrame DEF rechecks
    <3>2. seen' = seen \/ seen' = [seen EXCEPT ![t] = config]
      BY Zenon, <2>1 DEF EngineStep, ResolveStep, StartRead, StartReserve, Resolve, ResolveRead,
         ResolveSubscribe, ResolveReserve, ResolveSleeps, ResolveWakes, ResolveCommits,
         ResolveFails, ResolveCancelled, Exit, Cancel, Abort
    <3> QED BY Zenon, <3>1, <3>2
  <2>2. ASSUME NEW r \in Rechecks,
               RecheckBegin(r) \/ RecheckStep(r) \/ RecheckEnds(r) \/ RecheckCancelled(r)
        PROVE  <1>1!:
    BY Zenon, <2>2 DEF RecheckBegin, RecheckStep, RecheckRead, RecheckSubscribe, RecheckTry,
                RecheckSleeps, RecheckWakes, RecheckEnds, RecheckCancelled, engines
  <2>3. CASE ReplaceConfig
    BY Zenon, <2>3 DEF ReplaceConfig
  <2>4. CASE UNCHANGED vars
    BY Zenon, <2>4 DEF vars
  <2> QED BY Zenon, <2>1, <2>2, <2>3, <2>4 DEF Next
<1>2. \A t \in Torrents : seen'[t] = seen[t] \/ seen'[t] = config
  BY Zenon, <1>1 DEF TypeOK
<1>3. \A r \in Rechecks : rseen'[r] = rseen[r] \/ rseen'[r] = config
  BY Zenon, <1>1 DEF TypeOK
<1> QED BY Zenon, <1>2, <1>3 DEF ReadAtMost

\* At the start nothing is reserved.
LEMMA StartWithin ==
  ASSUME Init, NEW CONSTANT c \in Limits, AtMost(config, c)
  PROVE  Within(c) /\ ReadAtMost(c)
<1>1. DOMAIN reservations = {} /\ active = 0
  BY Zenon DEF Init
<1>2. Cardinality({}) = 0 /\ IsFiniteSet({})
  BY Zenon, FS_EmptySet
<1>3. Total(reservations, {}) = 0
  <2>1. PICK f : f = reservations
    BY Zenon
  <2> QED BY Zenon, <1>2, <2>1, TotalStep
<1>4. Within(c)
  BY SMTT(40), <1>1, <1>2, <1>3 DEF Within, Limits
<1> QED BY Zenon, <1>4 DEF Init, ReadAtMost

\* While the root control is not replaced, the number of active downloads, their
\* declared bytes and the concurrent rechecks stay within it, for any torrents,
\* magnets that grow in place included, and any sizes (admit_reservation and
\* try_acquire, storage_controls.rs).
THEOREM ReservationsWithinControl == Spec /\ [][config' = config]_vars => []WithinControl
<1> DEFINE I == WithinControl /\ ReadAtMost(config)
<1>1. Init => I
  <2> SUFFICES ASSUME Init PROVE I
    BY Zenon
  <2>1. PICK c \in Limits : c = config
    BY Zenon, AdmissionAssumption DEF Init, Limits
  <2>2. AtMost(config, c)
    BY <2>1 DEF AtMost, Limits
  <2> QED BY Zenon, <2>1, <2>2, StartWithin DEF WithinControl
<1>2. TypeOK /\ I /\ [Next]_vars /\ [config' = config]_vars => I'
  <2> SUFFICES ASSUME TypeOK, I, [Next]_vars, [config' = config]_vars PROVE I'
    BY Zenon
  <2>1. PICK c \in Limits : c = config
    BY Zenon, AdmissionAssumption DEF TypeOK, Limits
  <2>2. config' = c
    BY Zenon, <2>1 DEF vars
  <2>3. AtMost(config', c)
    BY <2>2 DEF AtMost, Limits
  <2>4. Within(c) /\ ReadAtMost(c)
    BY Zenon, <2>1 DEF WithinControl
  <2>5. Within(c)' /\ ReadAtMost(c)'
    BY Zenon, <2>3, <2>4, StepWithin, StepReads
  <2> QED BY Zenon, <2>2, <2>5 DEF WithinControl
<1> QED BY <1>1, <1>2, AdmissionBalanced, PTL DEF Spec

\* However the root control is replaced, what is reserved never exceeds the
\* loosest control that the configuration may hold.
THEOREM ReservationsWithinLoosest ==
  ASSUME NEW c \in Limits, \A k \in Controls : AtMost(k, c)
  PROVE  Spec => []Within(c)
<1> DEFINE I == Within(c) /\ ReadAtMost(c)
<1>1. Init => I
  BY Zenon, StartWithin DEF Init
<1>2. TypeOK /\ TypeOK' /\ I /\ [Next]_vars => I'
  BY Zenon, StepWithin, StepReads DEF TypeOK
<1> QED BY <1>1, <1>2, AdmissionBalanced, PTL DEF Spec
=============================================================================
