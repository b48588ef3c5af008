-------------------------------- MODULE Watch --------------------------------
(***************************************************************************)
(* The watch-folder importer (daemon/watch.rs and core watch.rs): one      *)
(* path seen through one or more configured roots, a writer that puts      *)
(* versions of a file there or takes it away, and the scan that observes,  *)
(* reads, registers and then leaves, deletes or archives the file.  Each   *)
(* await and each file-system call on which another process can interfere  *)
(* is a step.  A version has its own fingerprint (length and mtime); what  *)
(* its bytes parse to is TorrentOf.                                        *)
(***************************************************************************)
EXTENDS Integers, FiniteSets

CONSTANTS Roots,       \* the folders there may be, 1..n in the order of cfg.watch
          AfterImport, \* post_import_action of each root
          AfterFailure,\* post_failure_action of each root
          TorrentOf,   \* what version v parses to; Malformed if it does not
          Malformed,
          MaxWtFaults  \* bound on failing walks, registrations, copies

VARIABLES configured, \* the configured folders are 1..configured
          source,   \* the version at the watched path, 0 when there is none
          newest,   \* the last version written
          seen,     \* watch_observations
          scan,     \* where the scan is, and what it has in hand
          library,  \* torrents registered
          stored,   \* version at each root's archive or failure destination
          unlinked, \* versions the importer removed from the path
          late,     \* versions written after the scan's last look at the path
          wt_faults

wt_vars == <<configured, source, newest, seen, scan, library, stored, unlinked, late,
             wt_faults>>

Versions == DOMAIN TorrentOf
Unseen == [fingerprint |-> 0, stable |-> 0, processed |-> 0]
AtRest == [at |-> "rest", last |-> 0, root |-> 0, file |-> 0,
           outcome |-> "none", incomplete |-> {}, saw |-> {}]
Outcomes == {"imported", "duplicate", "permanent", "transient"}
Stages == {"rest", "walk", "read", "recheck", "register", "act", "copy",
           "unlink", "mark", "prune"}

WtTypeOK ==
    /\ configured \in Roots
    /\ {source, newest} \subseteq Versions \cup {0}
    /\ \A r \in Roots : seen[r].fingerprint \in Versions \cup {0}
    /\ scan.at \in Stages /\ scan.outcome \in Outcomes \cup {"none"}
    /\ library \subseteq {TorrentOf[v] : v \in Versions} \ {Malformed}
    /\ unlinked \subseteq Versions /\ late \subseteq Versions

WtInit ==
    /\ configured \in Roots
    /\ source = 0 /\ newest = 0
    /\ seen = [r \in Roots |-> Unseen]
    /\ scan = AtRest
    /\ library = {} /\ stored = [r \in Roots |-> 0]
    /\ unlinked = {} /\ late = {} /\ wt_faults = 0

FolderVars == <<configured, source, newest, unlinked, late>>
Fault == wt_faults < MaxWtFaults /\ wt_faults' = wt_faults + 1
Fine == wt_faults' = wt_faults
To(stage) == scan' = [scan EXCEPT !.at = stage]
Outcome(result) == scan' = [scan EXCEPT !.at = "act", !.outcome = result]

\* After the last root the observations are pruned.
NextRoot(s) ==
    [s EXCEPT !.at = IF s.root < s.last THEN "walk" ELSE "prune",
              !.root = IF s.root < s.last THEN s.root + 1 ELSE 0,
              !.file = 0, !.outcome = "none"]

\* The guard of the scan is held to the end, so scans do not overlap.  It
\* works from a copy of the configuration and forgets the roots it lost.
Begin ==
    /\ scan.at = "rest"
    /\ scan' = [AtRest EXCEPT !.at = "walk", !.last = configured, !.root = 1]
    /\ seen' = [r \in Roots |-> IF r <= configured THEN seen[r] ELSE Unseen]
    /\ UNCHANGED <<FolderVars, library, stored, wt_faults>>

\* One observation advanced by one sighting.
Observed(o, fingerprint) ==
    IF o.fingerprint = fingerprint /\ o # Unseen
      THEN [o EXCEPT !.stable = IF o.stable < 2 THEN o.stable + 1 ELSE 2]
      ELSE [fingerprint |-> fingerprint, stable |-> 1, processed |-> 0]

Eligible(o) == o.stable >= 2 /\ o.processed # o.fingerprint

Walk ==
    LET r == scan.root
        o == Observed(seen[r], source)
        saw == [scan EXCEPT !.saw = @ \cup {r}]
    IN  /\ scan.at = "walk"
        /\ IF source = 0
             THEN scan' = NextRoot(scan) /\ UNCHANGED seen
             ELSE /\ seen' = [seen EXCEPT ![r] = o]
                  /\ scan' = IF Eligible(o)
                               THEN [saw EXCEPT !.at = "read", !.file = source]
                               ELSE NextRoot(saw)
        /\ UNCHANGED <<FolderVars, library, stored, wt_faults>>

WalkFails ==
    /\ scan.at = "walk" /\ Fault
    /\ scan' = NextRoot([scan EXCEPT !.incomplete = @ \cup {scan.root}])
    /\ UNCHANGED <<FolderVars, seen, library, stored>>

\* What a look at the path makes of it: gone is an I/O error, which is
\* transient; another fingerprint starts the observation over.
Looks(next) ==
    /\ IF source = 0
         THEN Outcome("transient") /\ UNCHANGED seen
         ELSE IF source = scan.file
           THEN next /\ UNCHANGED seen
           ELSE /\ seen' = [seen EXCEPT ![scan.root] =
                              [fingerprint |-> source, stable |-> 1, processed |-> 0]]
                /\ scan' = NextRoot(scan)

ReadFile ==
    /\ scan.at = "read" /\ Looks(To("recheck"))
    /\ UNCHANGED <<FolderVars, library, stored, wt_faults>>

\* Mutant: the bytes just read are used without another look at the path.
RecheckSkipped ==
    /\ scan.at = "recheck"
    /\ IF TorrentOf[scan.file] = Malformed THEN Outcome("permanent") ELSE To("register")
    /\ UNCHANGED <<FolderVars, seen, library, stored, wt_faults>>

\* The second look, then the parse of the bytes that were read.
Recheck ==
    /\ scan.at = "recheck"
    /\ Looks(IF TorrentOf[scan.file] = Malformed
               THEN Outcome("permanent") ELSE To("register"))
    /\ UNCHANGED <<FolderVars, library, stored, wt_faults>>

Register ==
    LET torrent == TorrentOf[scan.file]
    IN  /\ scan.at = "register"
        /\ Outcome(IF torrent \in library THEN "duplicate" ELSE "imported")
        /\ library' = library \cup {torrent}
        /\ UNCHANGED <<FolderVars, seen, stored, wt_faults>>

RegisterFails ==
    /\ scan.at = "register" /\ Fault /\ Outcome("transient")
    /\ UNCHANGED <<FolderVars, seen, library, stored>>

Action ==
    CASE scan.outcome \in {"imported", "duplicate"} -> AfterImport[scan.root]
      [] scan.outcome = "permanent" -> AfterFailure[scan.root]
      [] OTHER -> "leave"

\* Delete names the path, not the file that was read.  An archive copy opens
\* the source first and must create its destination.
Act ==
    /\ scan.at = "act"
    /\ CASE Action = "leave" -> To("mark")
         [] Action = "delete" -> To("unlink")
         [] OTHER -> IF source = 0 \/ stored[scan.root] # 0
                       THEN To("mark") ELSE To("copy")
    /\ stored' = IF Action = "archive" /\ source # 0 /\ stored[scan.root] = 0
                   THEN [stored EXCEPT ![scan.root] = source] ELSE stored
    /\ UNCHANGED <<FolderVars, seen, library, wt_faults>>

CopyFails ==
    /\ scan.at = "copy" /\ Fault /\ To("mark")
    /\ stored' = [stored EXCEPT ![scan.root] = 0]
    /\ UNCHANGED <<FolderVars, seen, library>>

Copied ==
    /\ scan.at = "copy" /\ To("unlink")
    /\ UNCHANGED <<FolderVars, seen, library, stored, wt_faults>>

Unlink ==
    /\ scan.at = "unlink" /\ To("mark")
    /\ unlinked' = unlinked \cup ({source} \ {0})
    /\ source' = 0
    /\ UNCHANGED <<configured, newest, seen, library, stored, late, wt_faults>>

\* Mutant: every outcome is terminal for the fingerprint.
MarkAlways ==
    /\ scan.at = "mark"
    /\ seen' = [seen EXCEPT ![scan.root].processed = scan.file]
    /\ scan' = NextRoot(scan)
    /\ UNCHANGED <<FolderVars, library, stored, wt_faults>>

\* The rest of finish_watch_attempt: only a terminal outcome is remembered.
Mark ==
    LET terminal == scan.outcome # "transient"
    IN  /\ scan.at = "mark"
        /\ seen' = IF terminal /\ seen[scan.root].fingerprint = scan.file
                     THEN [seen EXCEPT ![scan.root].processed = scan.file]
                     ELSE seen
        /\ scan' = NextRoot(scan)
        /\ UNCHANGED <<FolderVars, library, stored, wt_faults>>

\* Observations survive for the roots that were not walked, or not to the end.
PruneSeen ==
    /\ scan.at = "prune"
    /\ seen' = [r \in Roots |->
                  IF r \in scan.incomplete \cup scan.saw \cup (Roots \ 1..scan.last) THEN seen[r] ELSE Unseen]
    /\ scan' = AtRest
    /\ UNCHANGED <<FolderVars, library, stored, wt_faults>>

\* A scan asked for over the API ends with its request, at any await.
Cancelled ==
    /\ scan.at \in {"walk", "read", "recheck", "register", "mark"} /\ Fault
    /\ scan' = AtRest
    /\ UNCHANGED <<FolderVars, seen, library, stored>>

\* A replaced configuration with fewer folders; the first one stays.
Reconfigure ==
    /\ configured > 1 /\ configured' \in 1..(configured - 1)
    /\ UNCHANGED <<source, newest, unlinked, late, seen, scan, library, stored,
                   wt_faults>>

\* Restart: what was observed is forgotten, what was registered is not.
Restart ==
    /\ Fault
    /\ scan' = AtRest /\ seen' = [r \in Roots |-> Unseen]
    /\ UNCHANGED <<FolderVars, library, stored>>

\* A version is late when the scan will not look at the path again before it
\* acts on it.
Drop ==
    /\ newest + 1 \in Versions
    /\ newest' = newest + 1 /\ source' = newest'
    /\ late' = IF scan.at \in {"register", "act", "copy", "unlink"}
                 THEN late \cup {newest'} ELSE late
    /\ UNCHANGED <<configured, unlinked, seen, scan, library, stored, wt_faults>>

TakeAway ==
    /\ source # 0 /\ source' = 0
    /\ UNCHANGED <<configured, newest, unlinked, late, seen, scan, library, stored, wt_faults>>

Scan ==
    \/ Begin \/ Walk \/ ReadFile \/ Recheck \/ Register \/ Act
    \/ Copied \/ Unlink \/ Mark \/ PruneSeen

WtNext ==
    \/ Scan \/ WalkFails \/ RegisterFails \/ CopyFails \/ Cancelled \/ Restart
    \/ Reconfigure \/ Drop \/ TakeAway

\* watch_loop scans every ten seconds for as long as the daemon runs.
WtFairness == WF_wt_vars(Scan)
WtSpec == WtInit /\ [][WtNext]_wt_vars /\ WtFairness

(* Properties *)

\* Nothing is removed unread: a version the importer took from the watched
\* path was registered, or failed to parse, or is kept at a destination; the
\* exception is a version written after the scan's last look at the path
\* (watch.rs 200-214), which the post-import action still names by its path.
RemovedWasRead ==
    \A v \in unlinked \ late :
        \/ TorrentOf[v] \in library
        \/ \E r \in Roots : stored[r] = v

\* The same without the exception: "delete_after_import: Deletes imported
\* watch files" (docs/configuration.md 896).
DeletesImported ==
    \A v \in unlinked :
        \/ TorrentOf[v] \in library
        \/ \E r \in Roots : stored[r] = v

\* A well-formed file that stays in the folder is imported, whatever walks,
\* registrations and copies failed before (observe_watch_file 83-109).
Overdue(v) == source = v /\ TorrentOf[v] \notin library
WellFormed == {v \in Versions : TorrentOf[v] # Malformed}

StableIsImported == \A v \in WellFormed : Overdue(v) ~> ~Overdue(v)

=============================================================================
