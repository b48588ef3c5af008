------------------------------ MODULE Scheduler ------------------------------
(***************************************************************************)
(* Which torrents download: the queue and the passes that make the running *)
(* engines match it, crates/swarmotterd/src/daemon/scheduler.rs.           *)
(*                                                                         *)
(* A pass (reconcile_queue) clears what is stale, plans the downloads that *)
(* should run, stops the others and starts the missing ones, with a lock   *)
(* taken and given back at each of these steps.  Passes are not            *)
(* serialised: an API call, the health tick and the autopilot each run one *)
(* of their own (a Caller), beside the coalesced background pass (`loop')  *)
(* that schedule_reconcile_queue spawns.                                   *)
(*                                                                         *)
(* DataPlane looks into the start and the stop of one engine; here they    *)
(* are single steps, the path stays up, and there are several torrents.    *)
(* State `Downloading' stands for DownloadingMetadata too: needs_metadata  *)
(* tells the two apart.                                                    *)
(***************************************************************************)
EXTENDS QueueState

CONSTANTS
  Torrents,          \* the torrents, numbered in the order of the registry's keys
  Callers,           \* what runs a pass directly: API calls, tick, autopilot
  Magnets,           \* the torrents that are added without metadata
  AutoStart,         \* those whose profile says StartBehavior::Start
  Priority,          \* the weight of each torrent's queue priority
  Restored,          \* the queue a saved state was restored with
  MaxEvents,         \* bound: what users and engines do
  Outcomes,          \* how an engine may end for good
  max_active_downloads, max_active_metadata_fetches    \* 0: unlimited

ASSUME SchedulerAssumption ==
  /\ Torrents \subseteq Nat /\ IsFiniteSet(Torrents)
  /\ Magnets \subseteq Torrents /\ AutoStart \subseteq Torrents
  /\ Priority \in [Torrents -> Nat]
  /\ max_active_downloads \in Nat /\ max_active_metadata_fetches \in Nat
  /\ Restored \in Seq(Torrents) /\ MaxEvents \in Nat
  /\ Outcomes \subseteq {"Completed", "TrackerError"}
  /\ "loop" \notin Callers

VARIABLES
  state,             \* Torrent::state by torrent, "absent" outside the registry
  needs_metadata,
  queue,
  engine,            \* by torrent: no handle, a running task, a task that is ending
  retry_after,       \* the torrents whose next start is put off
  scheduled, dirty,  \* QueueReconcileState
  pc, desired, current,   \* of each pass: its step and its locals
  snapshot,          \* of a caller that adds a torrent: the queue membership before
  asked,             \* history: a scheduled pass was asked for and none began since
  events             \* how often users and engines disturbed the schedule

vars == <<state, needs_metadata, queue, engine, retry_after, scheduled, dirty,
          pc, desired, current, snapshot, asked, events>>

NoSnapshot == [torrent |-> 0]

registry == <<state, needs_metadata>>
passes == <<pc, desired, current, snapshot>>
coalescer == <<scheduled, dirty, asked>>

Runners == Callers \cup {"loop"}
Registered == {t \in Torrents : state[t] # "absent"}
Runnable == {"Queued", "Downloading"}
Running == {t \in Torrents : engine[t] # "none"}

Init ==
  /\ state = [t \in Torrents |-> IF t \in Range(Restored) THEN "Queued" ELSE "absent"]
  /\ needs_metadata = [t \in Torrents |-> t \in Magnets]
  /\ queue = restored(Restored, <<>>)
  /\ engine = [t \in Torrents |-> "none"]
  /\ retry_after = {}
  /\ scheduled = FALSE /\ dirty = FALSE /\ asked = FALSE
  /\ pc = [r \in Runners |-> "idle"]
  /\ desired = [r \in Runners |-> <<>>]
  /\ current = [r \in Runners |-> <<>>]
  /\ snapshot = [c \in Callers |-> NoSnapshot]
  /\ events = 0

-----------------------------------------------------------------------------
(***************************************************************************)
(* The plan.                                                               *)
(***************************************************************************)

\* The torrents a plan may contain.
Eligible(q) ==
  {t \in Registered \ retry_after :
     /\ state[t] \in Runnable
     /\ t \in AutoStart \/ t \in Range(q.bypass) \/ state[t] = "Downloading"}

Full(limit, n) == limit > 0 /\ n >= limit

Limit(t) == IF needs_metadata[t] THEN max_active_metadata_fetches ELSE max_active_downloads

\* Bypassed torrents first, then the others by weight and by place.
ByWeight(q, a, b) ==
  IF Priority[a] # Priority[b] THEN Priority[a] > Priority[b]
  ELSE q.order_index[a] < q.order_index[b]

Heavier(q) == SortedSeq(q.order_set, LAMBDA a, b : ByWeight(q, a, b))

Ranked(q) == q.bypass \o Heavier(q)

\* One torrent of the scan, with one count for both pools.
Consider_OnePool(eligible, active, t) ==
  IF \/ t \in Range(active) \/ t \notin eligible
     \/ Full(Limit(t), Len(active))
  THEN active ELSE Append(active, t)

\* One torrent of the scan.  The scan ends when both pools are full, which
\* is the same as skipping what is left.
Consider(eligible, active, t) ==
  IF \/ t \in Range(active) \/ t \notin eligible
     \/ Full(Limit(t), Cardinality({i \in DOMAIN active :
                                    needs_metadata[active[i]] = needs_metadata[t]}))
  THEN active ELSE Append(active, t)

desired_download_hashes(q) ==
  LET eligible == Eligible(q)
      ranked == Ranked(q)
      scan[n \in 0 .. Len(ranked)] ==
        IF n = 0 THEN <<>> ELSE Consider(eligible, scan[n - 1], ranked[n])
  IN  scan[Len(ranked)]

\* The queue as the plan leaves it: entries of removed torrents go.
Cleaned(q) == remove_many(q, (Range(q.order) \cup Range(q.bypass)) \ Registered)

\* The plan without the scan: in each pool, an eligible torrent is in the plan
\* when fewer than `limit' eligible ones of its pool are ranked before it.
\* The passes use this form because TLC computes it faster; PlanIsBest says
\* that the two are the same, and SchedulerProofs proves it.
Outranks(q, a, b) ==
  IF a \in q.bypass_set /\ b \in q.bypass_set
  THEN \E i, j \in DOMAIN q.bypass : i < j /\ q.bypass[i] = a /\ q.bypass[j] = b
  ELSE a \in q.bypass_set \/ (b \notin q.bypass_set /\ ByWeight(q, a, b))

InRank(q, S) == SortedSeq(S, LAMBDA a, b : Outranks(q, a, b))

Candidates(q) == Eligible(q) \cap (q.order_set \cup q.bypass_set)

\* Those of the pool of t that come before it.
Before(q, t) ==
  {u \in Candidates(q) : needs_metadata[u] = needs_metadata[t] /\ Outranks(q, u, t)}

Chosen(q) == {t \in Candidates(q) : ~Full(Limit(t), Cardinality(Before(q, t)))}

Best(q) == InRank(q, Chosen(q))

-----------------------------------------------------------------------------
(***************************************************************************)
(* The background pass and its two flags.                                  *)
(***************************************************************************)

\* schedule_reconcile_queue: the flags and, if none exists, the task.
Scheduling(p) ==
  /\ asked' = TRUE
  /\ scheduled' = TRUE
  /\ dirty' = scheduled
  /\ pc' = IF scheduled THEN p ELSE [p EXCEPT !["loop"] = "clear"]

\* The top of the loop of run_scheduled_reconcile_queue.
LoopClear ==
  /\ pc["loop"] = "clear"
  /\ dirty' = FALSE /\ asked' = FALSE
  /\ pc' = [pc EXCEPT !["loop"] = "plan"]
  /\ UNCHANGED <<registry, queue, engine, retry_after, scheduled, desired, current, snapshot>>

\* The bottom of the loop without the second look at `dirty'.
LoopCheck_Forgets ==
  /\ pc["loop"] = "done"
  /\ scheduled' = FALSE /\ dirty' = dirty
  /\ pc' = [pc EXCEPT !["loop"] = "idle"]
  /\ UNCHANGED <<registry, queue, engine, retry_after, asked, desired, current, snapshot>>

\* The bottom of the loop: once more if a request came during the pass.
LoopCheck ==
  /\ pc["loop"] = "done"
  /\ scheduled' = dirty
  /\ dirty' = FALSE
  /\ pc' = [pc EXCEPT !["loop"] = IF dirty THEN "clear" ELSE "idle"]
  /\ UNCHANGED <<registry, queue, engine, retry_after, asked, desired, current, snapshot>>

-----------------------------------------------------------------------------
(***************************************************************************)
(* A pass.                                                                 *)
(***************************************************************************)

\* The two sweeps and the plan.  Handles of torrents that are not active are
\* stopped, active torrents without a handle go back to the end of the queue,
\* and the plan is made of what is left.  (DataPlane has the sweeps step by
\* step.)
Inactive_RegisteredOnly == {t \in Running \cap Registered : state[t] # "Downloading"}

Inactive == {t \in Running : state[t] # "Downloading"}
Stale == {t \in Torrents : state[t] = "Downloading" /\ engine[t] = "none"}

Swept ==
  IF Stale = {} THEN queue
  ELSE move_many_to_bottom(
         clear_bypass_many(add_many(queue, Ascending(Stale)), Stale), Stale)

Plan(r) ==
  /\ pc[r] = "plan"
  /\ engine' = [t \in Torrents |-> IF t \in Inactive THEN "none" ELSE engine[t]]
  /\ retry_after' = retry_after \ Inactive
  /\ state' = [t \in Torrents |-> IF t \in Stale THEN "Queued" ELSE state[t]]
  /\ queue' = Cleaned(Swept)
  /\ UNCHANGED <<needs_metadata, coalescer, current, snapshot>>
  /\ desired' = [desired EXCEPT ![r] = Best(queue)']
  /\ pc' = [pc EXCEPT ![r] = "current"]

\* Where a pass goes when it has d left to start.
AfterStart(r, d) == IF d # <<>> THEN "start" ELSE IF r = "loop" THEN "done" ELSE "idle"

\* Where it goes when it has c left to stop.
AfterStop(r, c) == IF c # <<>> THEN "stop" ELSE AfterStart(r, desired[r])

\* active_download_hashes, in the order of a hash map.  What the plan holds
\* will be kept, so `current' lists what is to be stopped.
Current(r) ==
  /\ pc[r] = "current"
  /\ \E s \in Listings({t \in Running : state[t] = "Downloading"} \ Range(desired[r])) :
       /\ current' = [current EXCEPT ![r] = s]
       /\ pc' = [pc EXCEPT ![r] = AfterStop(r, s)]
  /\ UNCHANGED <<registry, queue, engine, retry_after, coalescer, desired, snapshot>>

\* force_stop_engine on the next torrent to be stopped.
Stop(r) ==
  /\ pc[r] = "stop"
  /\ engine' = [engine EXCEPT ![Head(current[r])] = "none"]
  /\ retry_after' = retry_after \ {Head(current[r])}
  /\ pc' = [pc EXCEPT ![r] = "requeue"]
  /\ UNCHANGED <<registry, queue, coalescer, desired, current, snapshot>>

\* Its state, under a lock of its own.
Requeue(r) ==
  LET t == Head(current[r]) IN
  /\ pc[r] = "requeue"
  /\ state' = IF state[t] \in {"absent", "Paused", "Completed"} THEN state
              ELSE [state EXCEPT ![t] = "Queued"]
  /\ current' = [current EXCEPT ![r] = Tail(@)]
  /\ pc' = [pc EXCEPT ![r] = AfterStop(r, Tail(current[r]))]
  /\ UNCHANGED <<needs_metadata, queue, engine, retry_after, coalescer, desired, snapshot>>

\* start_engine on a path that is up.  A running engine is left alone; one
\* spawned for a torrent that may no longer run is stopped again at once.
StartEngine(t) ==
  IF engine[t] # "none"
  THEN UNCHANGED <<state, engine, retry_after>>
  ELSE /\ retry_after' = retry_after \ {t}
       /\ IF state[t] \in Runnable
          THEN /\ engine' = [engine EXCEPT ![t] = "running"]
               /\ state' = [state EXCEPT ![t] = "Downloading"]
          ELSE UNCHANGED <<state, engine>>

Start(r) ==
  /\ pc[r] = "start"
  /\ StartEngine(Head(desired[r]))
  /\ desired' = [desired EXCEPT ![r] = Tail(@)]
  /\ pc' = [pc EXCEPT ![r] = AfterStart(r, Tail(desired[r]))]
  /\ UNCHANGED <<needs_metadata, queue, coalescer, current, snapshot>>

PassStep(r) == Plan(r) \/ Current(r) \/ Stop(r) \/ Requeue(r) \/ Start(r)

-----------------------------------------------------------------------------
(***************************************************************************)
(* The callers.  Each mutation ends in a pass of the caller's own, except  *)
(* an addition, which asks for the background pass.                        *)
(***************************************************************************)
Begins(c) == pc' = [pc EXCEPT ![c] = "plan"]

\* The health tick on a path that stays up, and the autopilot: a bare pass.
Periodic(c) ==
  /\ pc[c] = "idle"
  /\ Begins(c)
  /\ UNCHANGED <<registry, queue, engine, retry_after, coalescer, desired, current, snapshot>>

pause(c, t) ==
  /\ pc[c] = "idle" /\ t \in Registered
  /\ engine' = [engine EXCEPT ![t] = "none"]
  /\ retry_after' = retry_after \ {t}
  /\ state' = [state EXCEPT ![t] = "Paused"]
  /\ queue' = clear_bypass(queue, t)
  /\ Begins(c)
  /\ UNCHANGED <<needs_metadata, coalescer, desired, current, snapshot>>

resume(c, t) ==
  /\ pc[c] = "idle" /\ t \in Registered
  /\ retry_after' = retry_after \ {t}
  /\ state' = [state EXCEPT ![t] = IF @ = "Completed" THEN @ ELSE "Queued"]
  /\ queue' = bypass_queue(add(queue, t), t)
  /\ Begins(c)
  /\ UNCHANGED <<needs_metadata, engine, coalescer, desired, current, snapshot>>

start_now(c, t) ==
  /\ pc[c] = "idle" /\ t \in Registered
  /\ retry_after' = retry_after \ {t}
  /\ state' = [state EXCEPT ![t] = IF @ = "TrackerError" THEN "Queued" ELSE @]
  /\ queue' = bypass_queue(add(queue, t), t)
  /\ Begins(c)
  /\ UNCHANGED <<needs_metadata, engine, coalescer, desired, current, snapshot>>

queue_move(c, t) ==
  /\ pc[c] = "idle" /\ t \in Registered
  /\ queue' \in Moves(queue, t)
  /\ Begins(c)
  /\ UNCHANGED <<registry, engine, retry_after, coalescer, desired, current, snapshot>>

\* When the full save fails the removal returns without its pass.
remove_torrent(c, t) ==
  /\ pc[c] = "idle" /\ t \in Registered
  /\ engine' = [engine EXCEPT ![t] = "none"]
  /\ retry_after' = retry_after \ {t}
  /\ state' = [state EXCEPT ![t] = "absent"]
  /\ needs_metadata' = [needs_metadata EXCEPT ![t] = t \in Magnets]
  /\ queue' = remove_many(queue, {t})
  /\ Begins(c) \/ UNCHANGED pc
  /\ UNCHANGED <<coalescer, desired, current, snapshot>>

\* An addition is visible to the passes before its save has succeeded.
add_torrent(c, t, s) ==
  /\ pc[c] = "idle" /\ t \notin Registered
  /\ state' = [state EXCEPT ![t] = s]
  /\ snapshot' = [snapshot EXCEPT ![c] =
                    [torrent |-> t, state |-> s, queue |-> membership_snapshot(queue, t)]]
  /\ queue' = add(queue, t)
  /\ pc' = [pc EXCEPT ![c] = "adding"]
  /\ UNCHANGED <<needs_metadata, engine, retry_after, coalescer, desired, current>>

\* The save failed: the torrent and its queue entry go again.
AddFails(c) ==
  LET t == snapshot[c].torrent IN
  /\ pc[c] = "adding"
  /\ state' = [state EXCEPT ![t] = "absent"]
  /\ needs_metadata' = [needs_metadata EXCEPT ![t] = t \in Magnets]
  /\ queue' = restore_membership(queue, t, snapshot[c].queue)
  /\ snapshot' = [snapshot EXCEPT ![c] = NoSnapshot]
  /\ pc' = [pc EXCEPT ![c] = "idle"]
  /\ UNCHANGED <<engine, retry_after, coalescer, desired, current>>

\* The save succeeded: a torrent added to run asks for a pass.
AddCommits(c) ==
  LET p == [pc EXCEPT ![c] = "idle"] IN
  /\ pc[c] = "adding"
  /\ snapshot' = [snapshot EXCEPT ![c] = NoSnapshot]
  /\ IF snapshot[c].state = "Queued"
     THEN Scheduling(p)
     ELSE pc' = p /\ UNCHANGED coalescer
  /\ UNCHANGED <<registry, queue, engine, retry_after, desired, current>>

UserBegins(c) ==
  \E t \in Torrents :
    \/ pause(c, t) \/ resume(c, t) \/ start_now(c, t) \/ queue_move(c, t)
    \/ remove_torrent(c, t) \/ \E s \in {"Queued", "Paused"} : add_torrent(c, t, s)

-----------------------------------------------------------------------------
(***************************************************************************)
(* The engines.  A task reports how it ended, and then takes its handle    *)
(* away; a pass may come between the two.                                  *)
(***************************************************************************)

\* The metadata of a running magnet arrives; the engine goes on to download.
MetadataResolves(t) ==
  /\ engine[t] = "running" /\ t \in Registered /\ needs_metadata[t]
  /\ needs_metadata' = [needs_metadata EXCEPT ![t] = FALSE]
  /\ UNCHANGED <<state, queue, engine, retry_after, coalescer, passes>>

\* Finished, or given up by its trackers.
EngineFinal(t) ==
  /\ engine[t] = "running"
  /\ engine' = [engine EXCEPT ![t] = "ending"]
  /\ IF t \in Registered
     THEN \E s \in Outcomes : state' = [state EXCEPT ![t] = s]
     ELSE UNCHANGED state
  /\ UNCHANGED <<needs_metadata, queue, retry_after, coalescer, passes>>

\* Stopped before completion: queue_torrent_for_retry and the two delayed
\* requests, of which this is the first and RetryElapses the second.
EngineIncomplete(t) ==
  /\ engine[t] = "running"
  /\ engine' = [engine EXCEPT ![t] = "ending"]
  /\ IF state[t] \in Runnable
     THEN /\ state' = [state EXCEPT ![t] = "Queued"]
          /\ queue' = move_to_bottom(clear_bypass(add(queue, t), t), t)
          /\ retry_after' = retry_after \cup {t}
          /\ Scheduling(pc)
     ELSE UNCHANGED <<state, queue, retry_after, coalescer, pc>>
  /\ UNCHANGED <<needs_metadata, desired, current, snapshot>>

EngineCleanup(t) ==
  /\ engine[t] = "ending"
  /\ engine' = [engine EXCEPT ![t] = "none"]
  /\ Scheduling(pc)
  /\ UNCHANGED <<registry, queue, retry_after, desired, current, snapshot>>

RetryElapses(t) ==
  /\ t \in retry_after
  /\ retry_after' = retry_after \ {t}
  /\ Scheduling(pc)
  /\ UNCHANGED <<registry, queue, engine, desired, current, snapshot>>

EngineEvent(t) == MetadataResolves(t) \/ EngineFinal(t) \/ EngineIncomplete(t)

-----------------------------------------------------------------------------
Disturb ==
  /\ events < MaxEvents
  /\ events' = events + 1
  /\ \/ \E c \in Callers : UserBegins(c)
     \/ \E t \in Torrents : EngineEvent(t)

Next ==
  \/ Disturb
  \/ /\ \/ LoopClear \/ LoopCheck
        \/ \E r \in Runners : PassStep(r)
        \/ \E c \in Callers : Periodic(c) \/ AddFails(c) \/ AddCommits(c)
        \/ \E t \in Torrents : EngineCleanup(t) \/ RetryElapses(t)
     /\ UNCHANGED events

Spec == Init /\ [][Next]_vars

InPass(r) == pc[r] \notin {"idle", "clear", "done"}

\* Tasks that can run do run, timers fire, and the tick comes again.  A pass
\* or an addition that has begun ends: each of its steps is enabled whatever
\* the others do, and there are finitely many, so this is the weak fairness
\* of its steps.  What users and engines do is not fair, and bounded: it
\* stops.
Fairness ==
  /\ \A r \in Runners : []<>~InPass(r)
  /\ WF_vars((LoopClear \/ LoopCheck) /\ UNCHANGED events)
  /\ \A c \in Callers : WF_vars(Periodic(c) /\ UNCHANGED events)
  /\ \A t \in Torrents : /\ WF_vars(EngineCleanup(t) /\ UNCHANGED events)
                         /\ WF_vars(RetryElapses(t) /\ UNCHANGED events)

FairSpec == Spec /\ Fairness

-----------------------------------------------------------------------------
\* Every variable has its type; the passes' locals are torrents.
TypeOK ==
  /\ state \in [Torrents -> {"absent", "Queued", "Downloading", "Paused", "Completed",
                             "TrackerError"}]
  /\ needs_metadata \in [Torrents -> BOOLEAN]
  /\ Range(queue.order) \cup Range(queue.bypass) \subseteq Torrents
  /\ engine \in [Torrents -> {"none", "running", "ending"}]
  /\ retry_after \subseteq Torrents
  /\ {scheduled, dirty, asked} \subseteq BOOLEAN
  /\ \A r \in Runners :
       /\ pc[r] \in {"idle", "adding", "clear", "plan", "current", "stop", "requeue",
                     "start", "done"}
       /\ Range(desired[r]) \cup Range(current[r]) \subseteq Torrents
  /\ scheduled <=> pc["loop"] # "idle"

\* Whatever sequence of additions, removals, moves, bypasses, retries and
\* failed saves the queue went through, its unsaved caches are exact.  The
\* methods of QueueState read them without a check (queue.rs).
IndexAgrees == Exact(queue)

\* desired_download_hashes gives each pool exactly its best-ranked eligible
\* torrents: no slot is left empty, none is used twice, a full pool never
\* holds the other one back, and a torrent that bypasses the queue and is in
\* it counts once.
PlanIsBest == desired_download_hashes(Cleaned(queue)) = Best(Cleaned(queue))

\* A request for a background pass is never lost in the coalescing: a pass
\* begins after it, also when it arrives as the previous one is ending.
RequestsServed == asked ~> ~asked

\* The engines are those of the plan.
Settled ==
  LET plan == Range(Best(Cleaned(queue)))
  IN  \A t \in Torrents : /\ engine[t] = IF t \in plan THEN "running" ELSE "none"
                          /\ engine[t] = "running" <=> state[t] = "Downloading"

\* Passes race each other and act on plans that are already old.  Still, once
\* users and engines leave the system alone, the running engines become
\* those of the plan and stay so.
Settles == <>[]Settled

-----------------------------------------------------------------------------
\* The unsaved caches of the queue are exact after every sequence of
\* additions, removals, moves, bypasses, retries and failed saves, and a
\* background pass runs exactly while it is marked as scheduled.
QueueIsExact == TypeOK /\ IndexAgrees

\* A request for a background pass is never lost in the coalescing, and once
\* users and engines leave the system alone the running engines become those
\* of the plan and stay so, though passes race each other and act on plans
\* that are already old.
PassesSettle == RequestsServed /\ Settles

-----------------------------------------------------------------------------
\* The instance for TLC: three torrents, one of them a magnet, for one
\* download slot and one metadata fetch.
MCPriority == [t \in Torrents |-> IF t = 3 THEN 3 ELSE 2]
MCRestored == <<2, 1>>
=============================================================================
