------------------------------ MODULE Trackers ------------------------------
(* Tracker announces and scrapes of one engine: the tiers in order until one  *)
(* answers, the merged outcome, the interval it leaves behind and the scrapes *)
(* that follow (swarmotterd/src/engine/discovery.rs), with the two-step UDP   *)
(* exchange, its retries and its transaction ids                              *)
(* (swarmotter-core/src/udp_tracker.rs) and the single HTTP request           *)
(* (swarmotter-core/src/tracker.rs).                                          *)
(*                                                                            *)
(* A tracker answers "busy" (it knows peers), "empty", "refused" (a failure   *)
(* reason, which carries no interval) or not at all. Ticks of `spent` and     *)
(* `step` are the clock of one request; ticks of `elapsed` the clock between  *)
(* announces, with PEER_REFRESH_INTERVAL and the shortest interval equal to   *)
(* one tick. Requests and replies may be lost, delayed or repeated.           *)
EXTENDS Naturals, Sequences, FiniteSets

CONSTANTS
  Order,          \* the trackers, tier after tier
  Udp,            \* the ones with a udp:// address
  Gap,            \* the interval each tracker asks for
  Retries,        \* of udp_announce
  StepLimit,      \* the deadline of one UDP request (15 s)
  AnnounceLimit,  \* TRACKER_ANNOUNCE_TIMEOUT (8 s)
  MaxGap          \* bound: the clock between announces stops here

All == {Order[i] : i \in 1 .. Len(Order)}
Answers == {"busy", "empty", "refused"}
NoOutcome == [ok |-> FALSE, gap |-> {}, crowd |-> FALSE]

VARIABLES
  phase,       \* where the announce is
  line,        \* the tracker being asked, as an index of Order
  attempt,     \* of the UDP transaction
  txn,         \* the transaction id last drawn
  requests,    \* datagrams on their way to the tracker: [txn, action]
  replies,     \* datagrams on their way back: [txn, action]
  step,        \* time spent on the current UDP request
  spent,       \* time spent on the current tracker
  outcome,     \* TrackerAnnounceOutcome: ok, interval_seconds, populated
  announces,   \* tracker_results of the outcome, kept as tracker_announces
  scrapes,     \* tracker_scrapes
  interval,    \* tracker_interval_seconds
  populated,   \* tracker_swarm_populated
  elapsed,     \* since last_announce
  keeper,      \* the tracker that answered the last successful announce
  forced       \* the announce was asked for, not due

tk_vars == <<phase, line, attempt, txn, requests, replies, step, spent, outcome, announces,
             scrapes, interval, populated, elapsed, keeper, forced>>

TkTypeOK ==
  /\ phase \in {"idle", "http", "connect", "announce", "scrape"}
  /\ line \in 1 .. Len(Order) /\ attempt \in 0 .. Retries /\ txn \in 0 .. 2 * (Retries + 1)
  /\ requests \subseteq [txn : Nat, action : {"connect", "announce"}]
  /\ replies \subseteq [txn : Nat, action : {"connect", "busy", "empty", "refused", "odd"}]
  /\ step \in 0 .. StepLimit /\ spent \in 0 .. AnnounceLimit
  /\ outcome \in [ok : BOOLEAN, gap : SUBSET (1 .. MaxGap), crowd : BOOLEAN]
  /\ announces \in [All -> {"none", "ok", "refused", "error"}]
  /\ scrapes \in [All -> {"none", "updating", "ok", "error", "unsupported"}]
  /\ interval \in 1 .. MaxGap /\ populated \in BOOLEAN /\ elapsed \in 0 .. MaxGap
  /\ keeper \subseteq All /\ forced \in BOOLEAN

TkInit ==
  /\ phase = "idle" /\ line = 1 /\ attempt = 0 /\ txn = 0 /\ requests = {} /\ replies = {}
  /\ step = 0 /\ spent = 0 /\ outcome = NoOutcome
  /\ announces = [tr \in All |-> "none"] /\ scrapes = [tr \in All |-> "none"]
  /\ interval = 1 /\ populated = FALSE /\ elapsed = MaxGap /\ keeper = {} /\ forced = FALSE

MinOf(a, b) == IF a < b THEN a ELSE b
MaxOf(a, b) == IF a < b THEN b ELSE a

\* tracker_announce_due: nothing was announced yet, or the interval is over.
AnnounceDue == elapsed >= MaxOf(interval, 1)

Recorded == <<announces, scrapes, interval, populated, elapsed, keeper>>

\* A transaction starts with a fresh id and its connect request.
Connects(at, left) ==
  /\ phase' = "connect" /\ line' = at /\ attempt' = left /\ step' = 0 /\ txn' = txn + 1
  /\ requests' = requests \cup {[txn |-> txn + 1, action |-> "connect"]} /\ UNCHANGED replies

\* announce_trackers of one address: a new socket, so nothing earlier reaches it.
AskNext(at) ==
  /\ line' = at /\ attempt' = 0 /\ step' = 0 /\ spent' = 0 /\ replies' = {}
  /\ IF Order[at] \in Udp
       THEN /\ phase' = "connect" /\ txn' = 1
            /\ requests' = {[txn |-> 1, action |-> "connect"]}
       ELSE phase' = "http" /\ txn' = 0 /\ requests' = {}

Start(f) ==
  /\ phase = "idle" /\ (f \/ AnnounceDue)
  /\ forced' = f /\ outcome' = NoOutcome /\ AskNext(1) /\ UNCHANGED Recorded

\* The shortest interval of the answers, a refusal counting as the shortest one allowed.
MergedGap(tr, answer) ==
  LET asked == IF answer = "refused" THEN 1 ELSE Gap[tr]
  IN IF answer = "error" THEN outcome.gap
     ELSE IF outcome.gap = {} THEN {asked}
     ELSE {MinOf(g, asked) : g \in outcome.gap}

\* record_tracker_joined_result: what one tracker's answer adds to the outcome.
Joined(tr, answer) ==
  [ok |-> outcome.ok \/ answer \in {"busy", "empty"}, gap |-> MergedGap(tr, answer),
   crowd |-> outcome.crowd \/ answer = "busy"]

\* run_tracker_scrapes shows every tracker as updating before the tasks start.
ScrapesStart == [tr \in All |-> "updating"]

\* record_tracker_announce_outcome, then the scrapes.
Publish(tr, found) ==
  /\ phase' = "scrape" /\ scrapes' = ScrapesStart
  /\ interval' = IF found.gap = {} THEN interval ELSE CHOOSE g \in found.gap : TRUE
  /\ populated' = IF found.ok THEN found.crowd ELSE populated
  /\ keeper' = IF found.ok THEN {tr} ELSE keeper
  /\ elapsed' = 0 /\ line' = 1 /\ attempt' = 0 /\ txn' = 0 /\ step' = 0 /\ spent' = 0
  /\ requests' = {} /\ replies' = {}

\* announce_tracker_tiers: the next tracker of the tiers until one answers.
Result(answer) ==
  LET tr == Order[line]
      found == Joined(tr, answer)
  IN /\ announces' = [announces EXCEPT ![tr] = IF found.ok THEN "ok" ELSE answer]
     /\ outcome' = found /\ UNCHANGED forced
     /\ IF ~found.ok /\ line < Len(Order)
          THEN AskNext(line + 1) /\ UNCHANGED <<scrapes, interval, populated, elapsed, keeper>>
          ELSE Publish(tr, found)

\* http_announce: a parsed response, a failure reason or an error.
HttpAnnounce == phase = "http" /\ \E answer \in Answers \cup {"error"} : Result(answer)

\* The tracker takes a request and answers it; "odd" is a reply of another action.
TrackerReplies(q) ==
  /\ requests' = requests \ {q}
  /\ \E action \in {"refused", "odd"} \cup
                   (IF q.action = "connect" THEN {"connect"} ELSE {"busy", "empty"}) :
       replies' = replies \cup {[txn |-> q.txn, action |-> action]}
  /\ UNCHANGED <<phase, line, attempt, txn, step, spent, outcome, forced>> /\ UNCHANGED Recorded

\* A failed transaction: the next attempt starts over, or the tracker has failed.
Again ==
  IF attempt < Retries
    THEN Connects(line, attempt + 1) /\ UNCHANGED <<spent, outcome, forced>> /\ UNCHANGED Recorded
    ELSE Result("error")

\* send_recv skips a reply to another transaction.
Skip(r) ==
  /\ phase \in {"connect", "announce"} /\ r.txn # txn
  /\ replies' = replies \ {r}
  /\ UNCHANGED <<phase, line, attempt, txn, requests, step, spent, outcome, forced>>
  /\ UNCHANGED Recorded

\* The reply to the connect request: a rejection ends the announce as refused.
Connected(r) ==
  /\ phase = "connect" /\ r.txn = txn
  /\ CASE r.action = "refused" -> Result("refused")
       [] r.action = "connect" ->
            /\ phase' = "announce" /\ txn' = txn + 1 /\ step' = 0 /\ replies' = replies \ {r}
            /\ requests' = requests \cup {[txn |-> txn + 1, action |-> "announce"]}
            /\ UNCHANGED <<line, attempt, spent, outcome, forced>> /\ UNCHANGED Recorded
       [] OTHER -> Again

\* The reply to the announce request.
Announced(r) ==
  /\ phase = "announce" /\ r.txn = txn
  /\ IF r.action \in Answers THEN Result(r.action) ELSE Again

\* Time passes on a request: the limit of the announce comes first, then that of the step.
Tick ==
  /\ phase \in {"connect", "announce"}
  /\ IF spent + 1 >= AnnounceLimit THEN Result("error")
     ELSE IF step + 1 >= StepLimit THEN Again
     ELSE /\ spent' = spent + 1 /\ step' = step + 1
          /\ UNCHANGED <<phase, line, attempt, txn, requests, replies, outcome, forced>>
          /\ UNCHANGED Recorded

\* http_scrape: only an HTTP announce address has a scrape address; the answer is complete for
\* the torrent or an error.
ScrapeOutcomes(tr) == IF tr \in Udp THEN {"unsupported"} ELSE {"ok", "error"}

\* run_tracker_scrapes leaving an unsupported tracker as it was.
ScrapeSupported(tr) ==
  /\ phase = "scrape" /\ scrapes[tr] = "updating" /\ tr \notin Udp
  /\ \E status \in {"ok", "error"} : scrapes' = [scrapes EXCEPT ![tr] = status]
  /\ phase' = IF \E t \in All \ {tr} : scrapes[t] = "updating" THEN "scrape" ELSE "idle"
  /\ UNCHANGED <<line, attempt, txn, requests, replies, step, spent, outcome, forced, announces,
                 interval, populated, elapsed, keeper>>
\* run_tracker_scrapes: the tasks are joined one by one, each leaving its status.
ScrapeEnds(tr) ==
  /\ phase = "scrape" /\ scrapes[tr] = "updating"
  /\ \E status \in ScrapeOutcomes(tr) :
       scrapes' = [scrapes EXCEPT ![tr] = status]
  /\ phase' = IF \E t \in All \ {tr} : scrapes[t] = "updating" THEN "scrape" ELSE "idle"
  /\ UNCHANGED <<line, attempt, txn, requests, replies, step, spent, outcome, forced, announces,
                 interval, populated, elapsed, keeper>>

\* The clock between announces.
Wait ==
  /\ phase = "idle" /\ elapsed < MaxGap /\ elapsed' = elapsed + 1
  /\ UNCHANGED <<phase, line, attempt, txn, requests, replies, step, spent, outcome, forced,
                 announces, scrapes, interval, populated, keeper>>

TkNext ==
  \/ \E f \in BOOLEAN : Start(f)
  \/ HttpAnnounce \/ Tick \/ Wait
  \/ \E q \in requests : TrackerReplies(q)
  \/ \E r \in replies : Skip(r)
  \/ \E r \in replies : Connected(r)
  \/ \E r \in replies : Announced(r)
  \/ \E tr \in All : ScrapeEnds(tr)

\* Timers run, and the HTTP client answers or gives up within its request timeout.
TkFairness ==
  /\ WF_tk_vars(Tick) /\ WF_tk_vars(HttpAnnounce)
  /\ \A tr \in All : WF_tk_vars(ScrapeEnds(tr))

TkSpec == TkInit /\ [][TkNext]_tk_vars /\ TkFairness

-----------------------------------------------------------------------------
Begins == phase = "idle" /\ phase' # "idle"

\* An announce that begins is over in bounded time, whatever the trackers do: no scrape is left
\* updating and the loop goes on ("a silent tracker cannot hang the engine"; the limits of
\* announce_trackers and of the HTTP client).
Announcing == phase # "idle"

AnnounceEnds == Announcing ~> ~Announcing

\* An announce nobody asked for is not made before the interval of the tracker that answered
\* the last successful announce is over ("Tracker intervals remain authoritative"). A refusal
\* before the answer brings the merged interval down to the shortest one, so this fails.
IntervalsAuthoritative ==
  [][Begins /\ ~forced' => \A tr \in keeper : elapsed >= Gap[tr]]_tk_vars

\* A UDP announce is given up for lack of an answer only after every retry re-issued the
\* connect handshake. The announce has a shorter limit than one request, so this fails.
RetriesAreMade ==
  [][(phase \in {"connect", "announce"} /\ announces'[Order[line]] = "error"
       /\ announces # announces') => attempt = Retries]_tk_vars
=============================================================================
