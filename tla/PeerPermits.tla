---------------------------- MODULE PeerPermits ----------------------------
(***************************************************************************)
(* Peer-session permits (swarmotterd/src/peer_permits.rs) at the           *)
(* granularity of a semaphore operation or a counter update, and the live  *)
(* replacement of the pools by a settings change (daemon/settings.rs,      *)
(* daemon/persistence.rs).                                                 *)
(*                                                                         *)
(* A session takes one permit of its torrent's pool and one of the         *)
(* process-wide pool before its transport opens.  An outbound session      *)
(* waits for them, torrent first; an inbound one, accepted already, tries  *)
(* them without waiting, process-wide first.  Both drop them in the        *)
(* reverse order.  A pool is a tokio semaphore and an in_use counter,      *)
(* updated one after the other.  The rejection counter is telemetry and is *)
(* left out, as is the pool closed by an invalid configuration.            *)
(***************************************************************************)
EXTENDS Naturals, FiniteSets

CONSTANTS Sessions,       \* peer sessions, each may be opened again and again
          Outbound,       \* those that dial; the others are accepted
          Torrents,
          TorrentOf,      \* the torrent of each session
          Global,         \* the scope of the process-wide pool
          MaxGeneration,  \* bound on configurations: at most this many
          MaxPeers,       \* bandwidth.max_peers of each configuration
          MaxPeersPerTorrent

Generations == 1..MaxGeneration

ASSUME PermitAssumption ==
  /\ IsFiniteSet(Sessions)
  /\ Outbound \subseteq Sessions
  /\ TorrentOf \in [Sessions -> Torrents]
  /\ Global \notin Torrents
  /\ MaxGeneration \in Nat \ {0}
  /\ MaxPeers \in [Generations -> Nat]
  /\ MaxPeersPerTorrent \in [Generations -> Nat]

\* One set of pools per configuration ever installed.
Pools == Generations \X (Torrents \cup {Global})

DefaultPerTorrentPeerLimit == 64

effective_per_torrent_peer_limit(configured) ==
  IF configured = 0 THEN DefaultPerTorrentPeerLimit ELSE configured

\* PeerPermitPool::new for a configuration.  A limit of zero means no semaphore.
Limit(p) ==
  IF p[2] = Global THEN MaxPeers[p[1]]
  ELSE effective_per_torrent_peer_limit(MaxPeersPerTorrent[p[1]])

Bounded(p) == Limit(p) > 0

VARIABLES
  permits,    \* permits[p]: free permits of the semaphore of p
  in_use,     \* in_use[p]: the observed counter of p
  pc,         \* pc[s]: where session s is in its acquisition or release
  held,       \* held[s]: how many of its two pools s holds
  gen,        \* gen[s]: the configuration whose budget s was given
  ahead,      \* ahead[s]: the waiters queued before s on the same semaphore
  late,       \* ghost: s counted a permit after its owner was stopped
  installed,  \* the configuration whose pools the runtime hands out
  owner,      \* the configuration the running tasks hold, 0 while stopped
  previous,   \* the configuration a replacement started from
  candidate,  \* the newest configuration built
  admin       \* the replacement's next step, "idle" between replacements

poolVars == <<permits, in_use>>
sessionVars == <<pc, held, gen, ahead, late>>
adminVars == <<installed, owner, previous, candidate, admin>>
vars == <<poolVars, sessionVars, adminVars>>

SessionSteps == {"idle", "acquire", "wait", "granted", "count", "open",
                 "uncount", "release"}
AdminSteps == {"idle", "drain_global", "drain_torrents", "install",
               "reconstruct", "verify", "rollback", "restore"}

-----------------------------------------------------------------------------
\* The pool of s that is its i-th to acquire, and its (3 - i)-th to drop.
Pool(s, i) ==
  <<gen[s], IF (s \in Outbound) = (i = 1) THEN TorrentOf[s] ELSE Global>>

\* The pool s is acquiring.
Wanted(s) == Pool(s, held[s] + 1)

\* s owns a semaphore permit of p (an unlimited pool has none to own).
Owns(s, p) ==
  \/ held[s] >= 1 /\ Pool(s, 1) = p
  \/ held[s] = 2 /\ Pool(s, 2) = p
  \/ pc[s] \in {"granted", "count"} /\ Wanted(s) = p

Owners(p) == {s \in Sessions : Owns(s, p)}

\* s is counted in in_use of p: an owner between its two counter updates.
Counts(s, p) ==
  \/ held[s] >= 1 /\ Pool(s, 1) = p /\ ~(held[s] = 1 /\ pc[s] = "release")
  \/ held[s] = 2 /\ Pool(s, 2) = p /\ pc[s] # "release"

Counters(p) == {s \in Sessions : Counts(s, p)}

Waiters(p) == {s \in Sessions : pc[s] = "wait" /\ Wanted(s) = p}

Init ==
  /\ permits = [p \in Pools |-> Limit(p)]
  /\ in_use = [p \in Pools |-> 0]
  /\ pc = [s \in Sessions |-> "idle"]
  /\ held = [s \in Sessions |-> 0]
  /\ gen = [s \in Sessions |-> 1]
  /\ ahead = [s \in Sessions |-> {}]
  /\ late = [s \in Sessions |-> FALSE]
  /\ installed = 1 /\ owner = 1 /\ previous = 1 /\ candidate = 1
  /\ admin = "idle"

-----------------------------------------------------------------------------
(* A session.                                                              *)

\* A worker of a running engine dials, or the listener accepts; both hold the
\* budget their owner was built with.
Begin(s) ==
  /\ pc[s] = "idle"
  /\ owner # 0
  /\ pc' = [pc EXCEPT ![s] = "acquire"]
  /\ gen' = [gen EXCEPT ![s] = owner]
  /\ late' = [late EXCEPT ![s] = FALSE]
  /\ UNCHANGED <<poolVars, held, ahead, adminVars>>

\* A permit is free, or the pool is unlimited.
Available(s) == Bounded(Wanted(s)) => permits[Wanted(s)] > 0

\* (mutant: the semaphore permit is dropped as soon as it is taken)
Acquire_NotHeld(s) ==
  /\ pc[s] = "acquire"
  /\ Available(s)
  /\ pc' = [pc EXCEPT ![s] = "count"]
  /\ UNCHANGED <<poolVars, held, gen, ahead, late, adminVars>>

\* acquire and try_acquire when a permit is free.
Acquire(s) ==
  /\ pc[s] = "acquire"
  /\ Available(s)
  /\ permits' = IF Bounded(Wanted(s))
                THEN [permits EXCEPT ![Wanted(s)] = @ - 1] ELSE permits
  /\ pc' = [pc EXCEPT ![s] = "count"]
  /\ UNCHANGED <<in_use, held, gen, ahead, late, adminVars>>

\* acquire when none is: the session joins the end of the queue.
Enqueue(s) ==
  /\ pc[s] = "acquire"
  /\ s \in Outbound
  /\ ~Available(s)
  /\ pc' = [pc EXCEPT ![s] = "wait"]
  /\ ahead' = [ahead EXCEPT ![s] = Waiters(Wanted(s))]
  /\ UNCHANGED <<poolVars, held, gen, late, adminVars>>

\* Drop what s holds: the newest permit first, or nothing.
Unwind(s) == IF held[s] = 0 THEN "idle" ELSE "uncount"

\* try_acquire when none is: the socket is closed.
Denied(s) ==
  /\ pc[s] = "acquire"
  /\ s \notin Outbound
  /\ ~Available(s)
  /\ pc' = [pc EXCEPT ![s] = Unwind(s)]
  /\ UNCHANGED <<poolVars, held, gen, ahead, late, adminVars>>

\* The woken acquire is polled; a task its owner aborted is not polled again.
Poll(s) ==
  /\ pc[s] = "granted"
  /\ gen[s] = owner
  /\ pc' = [pc EXCEPT ![s] = "count"]
  /\ UNCHANGED <<poolVars, held, gen, ahead, late, adminVars>>

\* in_use.fetch_add: the permit is complete, and the second one opens the
\* session.
Count(s) ==
  /\ pc[s] = "count"
  /\ in_use' = [in_use EXCEPT ![Wanted(s)] = @ + 1]
  /\ held' = [held EXCEPT ![s] = @ + 1]
  /\ late' = [late EXCEPT ![s] = @ \/ gen[s] # owner]
  /\ pc' = [pc EXCEPT ![s] = IF held[s] = 0 THEN "acquire" ELSE "open"]
  /\ UNCHANGED <<permits, gen, ahead, adminVars>>

\* A queued acquire is dropped: it leaves the queue and owns nothing.
CancelWait(s) ==
  /\ pc[s] = "wait"
  /\ pc' = [pc EXCEPT ![s] = Unwind(s)]
  /\ ahead' = [t \in Sessions |-> IF t = s THEN {} ELSE ahead[t] \ {s}]
  /\ UNCHANGED <<poolVars, held, gen, late, adminVars>>

\* An open session ends: success, error, end of stream, its deadline, abort.
End(s) ==
  /\ pc[s] = "open"
  /\ pc' = [pc EXCEPT ![s] = "uncount"]
  /\ UNCHANGED <<poolVars, held, gen, ahead, late, adminVars>>

\* PeerPermit::drop: the counter first; the semaphore permit is a field.
Uncount(s) ==
  /\ pc[s] = "uncount"
  /\ in_use' = [in_use EXCEPT ![Pool(s, held[s])] = @ - 1]
  /\ pc' = [pc EXCEPT ![s] = "release"]
  /\ UNCHANGED <<permits, held, gen, ahead, late, adminVars>>

\* The tokio semaphore: a permit given back goes to the first waiter and is
\* free only when nobody waits.
First(p) == {w \in Waiters(p) : ahead[w] = {}}

\* A semaphore permit of p comes back from s, which goes on to step.
GiveBack(p, s, step) ==
  \/ /\ ~Bounded(p)
     /\ pc' = [pc EXCEPT ![s] = step]
     /\ UNCHANGED <<permits, ahead>>
  \/ /\ Bounded(p)
     /\ Waiters(p) = {}
     /\ permits' = [permits EXCEPT ![p] = @ + 1]
     /\ pc' = [pc EXCEPT ![s] = step]
     /\ UNCHANGED ahead
  \/ /\ Bounded(p)
     /\ \E w \in First(p) :
          /\ pc' = [pc EXCEPT ![s] = step, ![w] = "granted"]
          /\ ahead' = [t \in Sessions |-> ahead[t] \ {w}]
     /\ UNCHANGED permits

\* (mutant: the guard is forgotten, its counter alone is updated)
Release_Forgets(s) ==
  /\ pc[s] = "release"
  /\ held' = [held EXCEPT ![s] = @ - 1]
  /\ pc' = [pc EXCEPT ![s] = IF held[s] = 1 THEN "idle" ELSE "uncount"]
  /\ UNCHANGED <<poolVars, gen, ahead, late, adminVars>>

\* The permit is gone.
Release(s) ==
  /\ pc[s] = "release"
  /\ held' = [held EXCEPT ![s] = @ - 1]
  /\ GiveBack(Pool(s, held[s]), s, IF held[s] = 1 THEN "idle" ELSE "uncount")
  /\ UNCHANGED <<in_use, gen, late, adminVars>>

\* (mutant: a cancelled acquire keeps the permit it was granted)
CancelGranted_Leaks(s) ==
  /\ pc[s] = "granted"
  /\ pc' = [pc EXCEPT ![s] = Unwind(s)]
  /\ UNCHANGED <<poolVars, held, gen, ahead, late, adminVars>>

\* A granted but unpolled acquire is dropped: its permit goes back uncounted.
CancelGranted(s) ==
  /\ pc[s] = "granted"
  /\ GiveBack(Wanted(s), s, Unwind(s))
  /\ UNCHANGED <<in_use, held, gen, late, adminVars>>

SessionStep(s) ==
  \/ Acquire(s) \/ Enqueue(s) \/ Denied(s) \/ Poll(s) \/ Count(s)
  \/ End(s) \/ Uncount(s) \/ Release(s)

\* The owner is stopped, or drops the session while it waits.
Cancel(s) == CancelWait(s) \/ CancelGranted(s)

-----------------------------------------------------------------------------
(* apply_peer_budget_runtime_update: replace the pools of every torrent.   *)

\* build_peer_permit_configuration, then stop_all_torrent_tasks joins every
\* engine and the listener; what they spawned is aborted, not joined.
ReplaceBegin ==
  /\ admin = "idle"
  /\ candidate < MaxGeneration
  /\ candidate' = candidate + 1
  /\ previous' = installed
  /\ owner' = 0
  /\ admin' = "drain_global"
  /\ UNCHANGED <<poolVars, sessionVars, installed>>

\* wait_for_peer_permit_configuration_drain reads the process-wide counter and
\* then the others, round and round.
DrainGlobal ==
  /\ admin = "drain_global"
  /\ in_use[<<previous, Global>>] = 0
  /\ admin' = "drain_torrents"
  /\ UNCHANGED <<poolVars, sessionVars, installed, owner, previous, candidate>>

\* (mutant: only the process-wide pool is drained)
DrainTorrents_GlobalOnly ==
  /\ admin = "drain_torrents"
  /\ admin' = "install"
  /\ UNCHANGED <<poolVars, sessionVars, installed, owner, previous, candidate>>

DrainTorrents ==
  /\ admin = "drain_torrents"
  /\ admin' = IF \A t \in Torrents : in_use[<<previous, t>>] = 0
              THEN "install" ELSE "drain_global"
  /\ UNCHANGED <<poolVars, sessionVars, installed, owner, previous, candidate>>

\* Five seconds have passed.
DrainTimesOut ==
  /\ admin \in {"drain_global", "drain_torrents"}
  /\ admin' = "rollback"
  /\ UNCHANGED <<poolVars, sessionVars, installed, owner, previous, candidate>>

\* install_peer_permit_configuration.
Install ==
  /\ admin = "install"
  /\ installed' = candidate
  /\ admin' = "reconstruct"
  /\ UNCHANGED <<poolVars, sessionVars, owner, previous, candidate>>

\* The engines and the listener restart with the installed budget.
Reconstruct ==
  /\ admin \in {"reconstruct", "restore"}
  /\ owner' = installed
  /\ admin' = IF admin = "restore" THEN "idle" ELSE "verify"
  /\ UNCHANGED <<poolVars, sessionVars, installed, previous, candidate>>

Commit ==
  /\ admin = "verify"
  /\ admin' = "idle"
  /\ UNCHANGED <<poolVars, sessionVars, installed, owner, previous, candidate>>

\* Reconstruction, its verification or the configuration file failed.
ReplaceFails ==
  /\ admin \in {"reconstruct", "verify"}
  /\ admin' = "rollback"
  /\ UNCHANGED <<poolVars, sessionVars, installed, owner, previous, candidate>>

\* restore_peer_reconfiguration_while_transition_locked: stop everything and
\* reinstall the previous pools; the candidate's are not drained.
Rollback ==
  /\ admin = "rollback"
  /\ owner' = 0
  /\ installed' = previous
  /\ admin' = "restore"
  /\ UNCHANGED <<poolVars, sessionVars, previous, candidate>>

AdminStep ==
  \/ DrainGlobal \/ DrainTorrents \/ DrainTimesOut \/ Install
  \/ Reconstruct \/ Commit \/ ReplaceFails \/ Rollback

-----------------------------------------------------------------------------
Next ==
  \/ \E s \in Sessions : Begin(s) \/ SessionStep(s) \/ Cancel(s)
  \/ ReplaceBegin \/ AdminStep

Spec == Init /\ [][Next]_vars

\* Threads run; a session has a deadline; a stopped owner's tasks are dropped.
Fairness ==
  /\ \A s \in Sessions :
       /\ WF_vars(SessionStep(s))
       /\ WF_vars(owner # gen[s] /\ Cancel(s))
  /\ WF_vars(AdminStep)

FairSpec == Spec /\ Fairness

-----------------------------------------------------------------------------
\* How many pools a session can hold at each of its steps.
HeldMatchesStep ==
  \A s \in Sessions :
    /\ pc[s] = "idle" => held[s] = 0
    /\ pc[s] \in {"acquire", "wait", "granted", "count"} => held[s] \in {0, 1}
    /\ pc[s] = "open" => held[s] = 2
    /\ pc[s] \in {"uncount", "release"} => held[s] \in {1, 2}

\* Every variable has its type, no counter underflows, and a session holds as
\* many permits as its step says.
TypeOK ==
  /\ permits \in [Pools -> Nat]
  /\ in_use \in [Pools -> Nat]
  /\ pc \in [Sessions -> SessionSteps]
  /\ held \in [Sessions -> 0..2]
  /\ gen \in [Sessions -> Generations]
  /\ ahead \in [Sessions -> SUBSET Sessions]
  /\ late \in [Sessions -> BOOLEAN]
  /\ {installed, previous, candidate} \subseteq Generations
  /\ owner \in Generations \cup {0}
  /\ admin \in AdminSteps
  /\ HeldMatchesStep

\* No permit is lost or invented by any interleaving of acquisitions, queued
\* cancellations and drops: the free permits and the owned ones make up the
\* limit, and in_use counts the sessions between their two counter updates.
Accounted ==
  \A p \in Pools :
    /\ Bounded(p) => permits[p] + Cardinality(Owners(p)) = Limit(p)
    /\ in_use[p] = Cardinality(Counters(p))

\* "Mixed inbound and outbound sessions across all torrents cannot exceed
\* either applicable nonzero limit" (ADR-0053), for the sessions of one
\* configuration; the observed counter, which lags, never exceeds it either.
WithinLimits ==
  \A p \in Pools : Bounded(p) =>
    /\ Cardinality({s \in Sessions : pc[s] = "open" /\ p \in {Pool(s, 1), Pool(s, 2)}})
         <= Limit(p)
    /\ in_use[p] <= Limit(p)

\* Once the drain check has passed, no session counted before its owner was
\* stopped is left in the replaced pools, though the check reads the counters
\* one after the other.  A session whose counter update was already under way
\* at the stop may still appear there (late).
CandidateAfterDrain ==
  (admin \in {"install", "reconstruct", "verify"} \/ installed # previous) =>
    \A s \in Sessions :
      gen[s] = previous /\ (\E p \in Pools : Counts(s, p)) => late[s]

\* The limits hold, and replacing the pools does not double them.
LimitsHold == WithinLimits /\ CandidateAfterDrain

\* A queued outbound session does not wait for ever, however many inbound
\* sessions are accepted meanwhile and in whichever pool it waits.
QueueServed == \A s \in Sessions : (pc[s] = "wait") ~> (pc[s] # "wait")
=============================================================================
