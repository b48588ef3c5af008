-------------------------- MODULE MCStorageFiles --------------------------
(***************************************************************************)
(* The files of the daemon for TLC: write handles, moves of a payload, the *)
(* payload and its resume file, the state file, and the folders torrents   *)
(* are imported from. A behaviour is one of the component `part` names.    *)
(* The write handles and the moves keep their own variables; those of the  *)
(* others are the cells, in the order of the module. What a part leaves    *)
(* unused stays as it was: the handles in ShInit, the move in SmInit with  *)
(* no file, a cell 0.                                                      *)
(***************************************************************************)
EXTENDS StorageHandles, StorageMove, Integers, TLC

CONSTANTS Parts

VARIABLES part, s1, s2, s3, s4, s5, s6, s7, s8, s9, s10, s11, s12, s13

cells == <<s1, s2, s3, s4, s5, s6, s7, s8, s9, s10, s11, s12, s13>>
watch_cells == <<s1, s2, s3, s4, s5, s6, s7, s8, s9, s10>>
-----------------------------------------------------------------------------
CONSTANTS Layouts, Addressing, PieceLength, MaxStoreFaults

PS == INSTANCE PayloadStore WITH
        lengths <- s1, v2 <- s2, wanted <- s3, preallocate <- s4, phase <- s5,
        present <- s6, content <- s7, writing <- s8, stored <- s9,
        resume <- s10, temporary <- s11, store_faults <- s12

\* A file that ends inside a piece, an empty one and a short one; and a single file.
MCLayouts == {<<3, 0, 1>>, <<3>>}
-----------------------------------------------------------------------------
CONSTANTS Roots, AfterImport, AfterFailure, TorrentOf, Malformed, MaxWtFaults

WT == INSTANCE Watch WITH
        configured <- s1, source <- s2, newest <- s3, seen <- s4, scan <- s5,
        library <- s6, stored <- s7, unlinked <- s8, late <- s9,
        wt_faults <- s10

MCAfter == <<"archive", "delete">>
MCFailure == <<"leave", "archive">>
MCTorrents == <<"bad", "t", "u">>
-----------------------------------------------------------------------------
CONSTANTS SsTorrents, SsStarts, HistoryRows, SampleRows, SsFaultKinds,
          MaxSsFaults, MaxSsChanges, MaxMoved

SS == INSTANCE StateStore WITH
        main <- s1, wal <- s2, temp <- s3, unsynced <- s4, up <- s5,
        registry <- s6, call <- s7, snapshot <- s8, acceptable <- s9,
        damaged <- s10, swept <- s11, ss_changes <- s12, ss_faults <- s13
-----------------------------------------------------------------------------
mc_vars == <<part, cells, sh_vars, sm_vars>>

MCInit ==
    /\ part \in Parts
    /\ ShInit /\ SmInit
    /\ part # "move" => owned = {}
    /\ \/ /\ part \in {"handles", "move"}
          /\ s1 = 0 /\ s2 = 0 /\ s3 = 0 /\ s4 = 0 /\ s5 = 0 /\ s6 = 0 /\ s7 = 0
          /\ s8 = 0 /\ s9 = 0 /\ s10 = 0 /\ s11 = 0 /\ s12 = 0 /\ s13 = 0
       \/ /\ part = "payload" /\ PS!StoreInit
          /\ s13 = 0
       \/ /\ part = "watch" /\ WT!WtInit
          /\ s11 = 0 /\ s12 = 0 /\ s13 = 0
       \/ /\ part = "store" /\ SS!SsInit

MCNext ==
    /\ UNCHANGED part
    /\ \/ /\ part = "handles" /\ ShNext
          /\ UNCHANGED <<cells, sm_vars>>
       \/ /\ part = "move" /\ SmNext
          /\ UNCHANGED <<cells, sh_vars>>
       \/ /\ part = "payload" /\ PS!StoreNext
          /\ UNCHANGED <<s13, sh_vars, sm_vars>>
       \/ /\ part = "watch" /\ WT!WtNext
          /\ UNCHANGED <<s11, s12, s13, sh_vars, sm_vars>>
       \/ /\ part = "store" /\ SS!SsNext
          /\ UNCHANGED <<sh_vars, sm_vars>>

\* The fairness of each component, for the behaviours of that component.
MCFairness ==
    /\ \A w \in Writers : /\ WF_sh_vars(part = "handles" /\ Writer(w))
                          /\ WF_sh_vars(part = "handles" /\ ChooseLru(w))
    /\ \A t \in Tasks : WF_sh_vars(part = "handles" /\ (RemoveLru(t) \/ RetireOrRelease(t)))
    /\ WF_watch_cells(part = "watch" /\ WT!Scan)

MCSpec == MCInit /\ [][MCNext]_mc_vars /\ MCFairness
-----------------------------------------------------------------------------
(***************************************************************************)
(* PayloadStore, Watch and StateStore: whatever call fails and wherever    *)
(* the daemon goes down, a piece lands on its own bytes of its files and   *)
(* on no others, and the resume file holds one whole save; a version the   *)
(* importer removed from a watched path was registered, failed to parse or *)
(* is kept, unless it was written after the scan's last look; what a load  *)
(* of the state may return is what was acknowledged, or what a call under  *)
(* way may have written, through a damaged index and the migration of an   *)
(* older file too; and its rows tell the records of the library. All parts *)
(* keep their types.                                                       *)
(***************************************************************************)
StoresAreSound ==
    /\ ShTypeOK /\ SmTypeOK
    /\ part = "payload" => PS!StoreTypeOK /\ PS!PiecesLandInPlace /\ PS!ResumeNeverTorn
    /\ part = "watch" => WT!WtTypeOK /\ WT!RemovedWasRead
    /\ part = "store" => SS!SsTypeOK /\ SS!StateSurvives /\ SS!RowsTellRecords

\* The k-th of them waits: a writer, or a version of the watched file.
Waiting(k) ==
    \/ part = "handles" /\ Blocked(<<"w1", "w2">>[k])
    \/ part = "watch" /\ WT!Overdue(k + 1)

(***************************************************************************)
(* Nothing waits for ever: writers do not wait on a circle of handles      *)
(* (StorageHandles), and a file that stays in a watched folder is imported *)
(* (Watch).                                                                *)
(***************************************************************************)
FilesProceed == \A k \in 1 .. 2 : Waiting(k) ~> ~Waiting(k)
=============================================================================
