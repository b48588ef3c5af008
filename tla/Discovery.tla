----------------------------- MODULE Discovery ------------------------------
(* Peer discovery and candidate selection in the download loop of one engine  *)
(* (swarmotterd/src/engine/download.rs, discovery.rs and the backoff helpers  *)
(* of peer_session.rs): which discovered peers may be tried, when discovery   *)
(* is repeated, and when an engine gives up because its swarm is empty.       *)
(*                                                                            *)
(* Peers the configuration does not allow are dropped where they are found    *)
(* and never enter `discovered`. Time is abstract: a backoff, an interval or  *)
(* the grace period may end at any moment. A lookup in the DHT counts as      *)
(* completed when it ended, answered or not.                                  *)
EXTENDS Naturals, FiniteSets

CONSTANTS
  DsPeers,       \* addresses of the swarm
  DhtOn,         \* dht_enabled()
  Tracked,       \* the torrent has trackers
  Webseeds,      \* the torrent has webseeds
  MaxProgress    \* rounds with progress until the selection is complete

VARIABLES
  loop,          \* where the loop is
  discovered,
  bad,           \* bad_peers: failed, PEER_FAILURE_BACKOFF not over
  idle,          \* peer_backoff: no progress, PEER_IDLE_BACKOFF not over
  crowded,       \* tracker_swarm_populated
  unusable,      \* unusable_since is set
  looked,        \* dht_last_lookup_completed is not before unusable_since
  waiting,       \* empty_since: "no", "begun", or "passed" the grace period
  command,       \* the next engine command
  progress,
  ended,
  evidence       \* a lookup completed while there has been no usable candidate

ds_vars == <<loop, discovered, bad, idle, crowded, unusable, looked, waiting, command, progress,
             ended, evidence>>

DsTypeOK ==
  /\ loop \in {"start", "top", "polled", "round", "empty", "over"}
  /\ discovered \subseteq DsPeers /\ bad \subseteq DsPeers /\ idle \subseteq DsPeers
  /\ crowded \in BOOLEAN /\ unusable \in BOOLEAN /\ looked \in BOOLEAN
  /\ waiting \in {"no", "begun", "passed"}
  /\ command \in {"none", "stop", "reannounce", "relax"}
  /\ progress \in 0 .. MaxProgress /\ ended \in {"no", "stopped", "complete", "empty"}
  /\ evidence \in BOOLEAN

DsInit ==
  /\ loop = "start" /\ discovered = {} /\ bad = {} /\ idle = {} /\ crowded = FALSE
  /\ unusable = FALSE /\ looked = FALSE /\ waiting = "no" /\ command = "none" /\ progress = 0
  /\ ended = "no" /\ evidence = FALSE

\* classify_peer_candidates.
Eligible == discovered \ (bad \cup idle)
\* no_usable_peer_candidates.
NoUsable(found, failed) == found \subseteq failed

Evidence(lookup) == evidence' = (NoUsable(discovered', bad') /\ (evidence \/ lookup))

\* announce: an answer also tells whether the swarm is populated; without one nothing changes.
Announce == crowded' \in IF Tracked THEN BOOLEAN ELSE {crowded}

\* The initial announce and lookup.
Begin ==
  /\ loop = "start" /\ loop' = "top"
  /\ Announce /\ discovered' \in SUBSET DsPeers
  /\ looked' = DhtOn /\ UNCHANGED bad /\ Evidence(DhtOn)
  /\ UNCHANGED <<idle, unusable, waiting, command, progress, ended>>

\* refresh_discovery_peers_after(force, Some or None): what was found, and whether the DHT was asked.
Refresh(force, since, found, lookup) ==
  /\ lookup => DhtOn
  /\ ((force \/ (since /\ ~looked)) /\ DhtOn) => lookup
  /\ found # {} => lookup \/ Tracked
  /\ Announce /\ discovered' = discovered \cup found
  /\ looked' = (looked \/ lookup)

\* poll_commands: a stop ends the loop.
Stop ==
  /\ loop = "top" /\ command = "stop" /\ loop' = "over" /\ ended' = "stopped" /\ command' = "none"
  /\ UNCHANGED <<discovered, bad, idle, crowded, unusable, looked, waiting, progress, evidence>>

\* A requested announce asks every source and keeps the backoffs.
Reannounce ==
  /\ loop = "top" /\ command = "reannounce" /\ command' = "none" /\ loop' = "polled"
  /\ \E found \in SUBSET DsPeers : Refresh(TRUE, FALSE, found, DhtOn)
  /\ UNCHANGED bad /\ Evidence(DhtOn) /\ UNCHANGED <<idle, unusable, waiting, progress, ended>>

\* RelaxPeerBackoff clears the idle backoff only.
Relax ==
  /\ loop = "top" /\ command = "relax" /\ command' = "none" /\ idle' = {} /\ loop' = "polled"
  /\ UNCHANGED <<discovered, bad, crowded, unusable, looked, waiting, progress, ended,
                 evidence>>

\* No command is pending.
Poll ==
  /\ loop = "top" /\ command = "none" /\ loop' = "polled"
  /\ UNCHANGED <<discovered, bad, idle, crowded, unusable, looked, waiting, command, progress,
                 ended, evidence>>

\* The selection is complete: finish_selection and the completed announce.
Complete ==
  /\ loop = "polled" /\ progress = MaxProgress
  /\ loop' = "over" /\ ended' = "complete"
  /\ UNCHANGED <<discovered, bad, idle, crowded, unusable, looked, waiting, command, progress,
                 evidence>>

\* No refresh is due.
Proceed ==
  /\ loop = "polled" /\ progress < MaxProgress /\ loop' = "round"
  /\ UNCHANGED <<discovered, bad, idle, crowded, unusable, looked, waiting, command, progress,
                 ended, evidence>>

\* The periodic refresh: peers it reports again lose their failure backoff.
PeriodicRefresh ==
  /\ loop = "polled" /\ progress < MaxProgress /\ loop' = "round"
  /\ \E found \in SUBSET DsPeers, lookup \in BOOLEAN :
       Refresh(FALSE, FALSE, found, lookup) /\ bad' = bad \ found /\ Evidence(lookup)
  /\ UNCHANGED <<idle, unusable, waiting, command, progress, ended>>

\* Forgetting nothing when candidates come back, and forgetting at every round.
NeverCleared(web) == FALSE
AlwaysCleared(web) == TRUE
\* The loop forgets unusable_since and empty_since when there is someone to try or progress.
Cleared(web) == Eligible # {} \/ web

\* One round: webseeds, then every eligible peer in parallel and, without progress, one by one.
\* A peer tried without progress is idle or has failed; a round may find peers by exchange.
Round ==
  /\ loop = "round"
  /\ \E web \in IF Webseeds THEN BOOLEAN ELSE {FALSE}, made \in BOOLEAN,
        failed \in SUBSET Eligible, slow \in SUBSET Eligible, heard \in SUBSET DsPeers :
       /\ made => (Eligible # {} \/ web)
       /\ ~made => (failed \cup slow = Eligible)
       /\ Eligible = {} => (heard = {} /\ made = web)
       /\ (web /\ progress + 1 = MaxProgress) => (made /\ failed \cup slow \cup heard = {})
       /\ discovered' = discovered \cup heard /\ bad' = bad \cup failed /\ idle' = idle \cup slow
       /\ progress' = IF made \/ web THEN progress + 1 ELSE progress
       /\ IF ~made /\ NoUsable(discovered', bad')
            THEN /\ loop' = "empty" /\ unusable' = TRUE
                 /\ looked' = IF unusable /\ ~Cleared(web) THEN looked
                              ELSE DhtOn /\ discovered' = {}
            ELSE loop' = "top" /\ unusable' = (unusable /\ ~Cleared(web)) /\ UNCHANGED looked
       /\ waiting' = IF Cleared(web) THEN "no" ELSE waiting
  /\ Evidence(FALSE) /\ UNCHANGED <<crowded, command, ended>>

\* No usable candidate: one more discovery, then the verdict.
Confirm ==
  /\ loop = "empty"
  /\ \E found \in SUBSET DsPeers, lookup \in BOOLEAN :
       Refresh(FALSE, TRUE, found, lookup) /\ bad' = bad \ found /\ Evidence(lookup)
  /\ IF NoUsable(discovered', bad')
       THEN /\ UNCHANGED unusable
            /\ IF (DhtOn => looked') /\ ~crowded'
                 THEN IF waiting = "passed"
                        THEN loop' = "over" /\ ended' = "empty" /\ UNCHANGED waiting
                        ELSE loop' = "top" /\ waiting' = "begun" /\ UNCHANGED ended
                 ELSE loop' = "top" /\ waiting' = "no" /\ UNCHANGED ended
       ELSE loop' = "top" /\ unusable' = FALSE /\ waiting' = "no" /\ UNCHANGED ended
  /\ UNCHANGED <<idle, command, progress>>

\* Time: the grace period passes, backoffs end.
Grace ==
  /\ waiting = "begun" /\ waiting' = "passed"
  /\ UNCHANGED <<loop, discovered, bad, idle, crowded, unusable, looked, command, progress, ended,
                 evidence>>
BackoffEnds(p) ==
  /\ loop # "over"
  /\ \/ p \in bad /\ bad' = bad \ {p} /\ UNCHANGED idle
     \/ p \in idle /\ idle' = idle \ {p} /\ UNCHANGED bad
  /\ UNCHANGED discovered /\ Evidence(FALSE)
  /\ UNCHANGED <<loop, crowded, unusable, looked, waiting, command, progress, ended>>

\* The daemon sends a command.
Command(c) ==
  /\ loop # "over" /\ command = "none" /\ command' = c
  /\ UNCHANGED <<loop, discovered, bad, idle, crowded, unusable, looked, waiting, progress, ended,
                 evidence>>

DsEngine ==
  \/ Begin \/ Stop \/ Reannounce \/ Relax \/ Poll \/ Complete \/ Proceed \/ PeriodicRefresh
  \/ Round \/ Confirm

DsNext ==
  \/ Begin \/ Stop \/ Reannounce \/ Relax \/ Poll \/ Complete \/ Proceed \/ PeriodicRefresh
  \/ Round \/ Confirm \/ Grace
  \/ \E p \in DsPeers : BackoffEnds(p)
  \/ \E c \in {"stop", "reannounce", "relax"} : Command(c)

\* The engine's task runs and its timers fire.
DsFairness == WF_ds_vars(DsEngine) /\ WF_ds_vars(Grace)
DsSpec == DsInit /\ [][DsNext]_ds_vars /\ DsFairness

-----------------------------------------------------------------------------
\* An engine gives its swarm up as empty only when no candidate is usable, a DHT lookup has
\* completed since the last usable one and the last answer of a tracker named nobody ("Only
\* completed discovery can establish an empty swarm", download.rs).
EmptyIsEvidenced ==
  ended = "empty" => NoUsable(discovered, bad) /\ (DhtOn => evidence) /\ ~crowded

\* An engine whose swarm stays empty ends instead of holding its slot for ever ("a bounded
\* grace period still lets genuinely empty engines exit").
Deserted == discovered = {} /\ ~crowded
Ended == ended # "no"

EmptyEngineEnds == <>[]Deserted => <>Ended
=============================================================================
