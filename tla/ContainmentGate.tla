--------------------------- MODULE ContainmentGate ---------------------------
(***************************************************************************)
(* The process-wide containment gate (swarmotterd/src/containment_gate.rs) *)
(* at the granularity of its atomics and mutexes.                          *)
(*                                                                         *)
(* Callers are the threads that run allow, block and stop: the health      *)
(* monitor, a configuration replacement, a binder whose bind failed, the   *)
(* watchdog.  Tasks are data-plane tasks that take the generation when     *)
(* they are born and wait in cancelled_since for it to move.  The status   *)
(* and detail strings that block and allow also store are wording of error *)
(* messages and are left out.                                              *)
(***************************************************************************)
EXTENDS Naturals, FiniteSets

CONSTANTS Callers,       \* threads that may call allow, block or stop
          Tasks,         \* data-plane tasks, each running cancelled_since
          MaxGeneration  \* bound: no call starts at this generation or above

ASSUME GateAssumption ==
  /\ IsFiniteSet(Callers)
  /\ MaxGeneration \in Nat

VARIABLES
  allowed, stopped, generation, \* the three atomics
  pc,          \* pc[c]: the next atomic step of caller c, "idle" between calls
  tpc,         \* tpc[t]: where task t is in cancelled_since
  start,       \* start[t]: the generation task t was born under
  notified,    \* notified[t]: the registered Notified future of t has fired
  stale        \* ghost: a block denied traffic since t's birth

gateVars == <<allowed, stopped, generation>>
taskVars == <<tpc, start, notified, stale>>
vars == <<gateVars, pc, taskVars>>

CallerSteps == {"idle", "allow_swap", "allow_inc", "allow_notify",
                "block_store", "stop_store", "block_inc", "block_notify"}
TaskSteps == {"idle", "register", "check", "await", "parked", "cancelled"}

\* traffic_allowed().
Open == ~stopped /\ allowed

-----------------------------------------------------------------------------
(* ContainmentGate::new(traffic_allowed), for either start-up health.       *)
Init ==
  /\ allowed \in BOOLEAN
  /\ stopped = FALSE
  /\ generation = 0
  /\ pc = [c \in Callers |-> "idle"]
  /\ tpc = [t \in Tasks |-> "idle"]
  /\ start = [t \in Tasks |-> 0]
  /\ notified = [t \in Tasks |-> FALSE]
  /\ stale = [t \in Tasks |-> FALSE]

Goto(c, step) == pc' = [pc EXCEPT ![c] = step]

\* Every registered waiter: notify_waiters fires all of them and keeps no
\* permit for a waiter that registers later.  enable() registers the future
\* before the comparison; without it the first poll would.
Registered_WithoutEnable == {t \in Tasks : tpc[t] = "parked"}
Registered == {t \in Tasks : tpc[t] \in {"check", "await", "parked"}}
notify_waiters ==
  notified' = [t \in Tasks |-> IF t \in Registered THEN TRUE ELSE notified[t]]

-----------------------------------------------------------------------------
(* allow(): return when stopped, else swap, and only on a blocked-to-       *)
(* allowed edge advance the generation and notify.                          *)
AllowBegin(c) ==
  /\ pc[c] = "idle"
  /\ generation < MaxGeneration
  /\ ~stopped
  /\ Goto(c, "allow_swap")
  /\ UNCHANGED <<gateVars, taskVars>>

AllowSwap_AlwaysAnEdge(c) ==
  /\ pc[c] = "allow_swap"
  /\ allowed' = TRUE
  /\ Goto(c, "allow_inc")
  /\ UNCHANGED <<stopped, generation, taskVars>>

AllowSwap(c) ==
  /\ pc[c] = "allow_swap"
  /\ allowed' = TRUE
  /\ Goto(c, IF allowed THEN "idle" ELSE "allow_inc")
  /\ UNCHANGED <<stopped, generation, taskVars>>

AllowInc(c) ==
  /\ pc[c] = "allow_inc"
  /\ generation' = generation + 1
  /\ Goto(c, "allow_notify")
  /\ UNCHANGED <<allowed, stopped, taskVars>>

AllowNotify(c) ==
  /\ pc[c] = "allow_notify"
  /\ notify_waiters
  /\ Goto(c, "idle")
  /\ UNCHANGED <<gateVars, tpc, start, stale>>

(* block(): deny, always advance the generation, notify.                    *)
BlockBegin(c) ==
  /\ pc[c] = "idle"
  /\ generation < MaxGeneration
  /\ Goto(c, "block_store")
  /\ UNCHANGED <<gateVars, taskVars>>

Alive(t) == tpc[t] \notin {"idle", "cancelled"}

BlockStore_EdgeOnlyWhenOpen(c) ==
  /\ pc[c] \in {"block_store", "stop_store"}
  /\ allowed' = FALSE
  /\ stale' = [t \in Tasks |-> stale[t] \/ Alive(t)]
  /\ Goto(c, IF allowed THEN "block_inc" ELSE "block_notify")
  /\ UNCHANGED <<stopped, generation, tpc, start, notified>>

BlockStore(c) ==
  /\ pc[c] \in {"block_store", "stop_store"}
  /\ allowed' = FALSE
  /\ stale' = [t \in Tasks |-> stale[t] \/ Alive(t)]
  /\ Goto(c, "block_inc")
  /\ UNCHANGED <<stopped, generation, tpc, start, notified>>

BlockInc(c) ==
  /\ pc[c] = "block_inc"
  /\ generation' = generation + 1
  /\ Goto(c, "block_notify")
  /\ UNCHANGED <<allowed, stopped, taskVars>>

BlockNotify_Silent(c) ==
  /\ pc[c] = "block_notify"
  /\ Goto(c, "idle")
  /\ UNCHANGED <<gateVars, taskVars>>

BlockNotify(c) ==
  /\ pc[c] = "block_notify"
  /\ notify_waiters
  /\ Goto(c, "idle")
  /\ UNCHANGED <<gateVars, tpc, start, stale>>

(* stop(): set stopped, then block with BlockedFailClosed.                  *)
StopBegin(c) ==
  /\ pc[c] = "idle"
  /\ generation < MaxGeneration
  /\ stopped' = TRUE
  /\ Goto(c, "stop_store")
  /\ UNCHANGED <<allowed, generation, taskVars>>

CallerStep(c) ==
  \/ AllowSwap(c) \/ AllowInc(c) \/ AllowNotify(c)
  \/ BlockStore(c) \/ BlockInc(c) \/ BlockNotify(c)

CallerBegin(c) ==
  \/ AllowBegin(c)
  \/ StopBegin(c)
  \/ BlockBegin(c)

-----------------------------------------------------------------------------
(* A task captures generation() and then runs cancelled_since(start): it    *)
(* enables a Notified future, compares the generation, and awaits.          *)
TaskBirth(t) ==
  /\ tpc[t] \in {"idle", "cancelled"}
  /\ start' = [start EXCEPT ![t] = generation]
  /\ stale' = [stale EXCEPT ![t] = FALSE]
  /\ tpc' = [tpc EXCEPT ![t] = "register"]
  /\ UNCHANGED <<gateVars, pc, notified>>

TaskRegister(t) ==
  /\ tpc[t] = "register"
  /\ notified' = [notified EXCEPT ![t] = FALSE]
  /\ tpc' = [tpc EXCEPT ![t] = "check"]
  /\ UNCHANGED <<gateVars, pc, start, stale>>

TaskCheck(t) ==
  /\ tpc[t] = "check"
  /\ tpc' = [tpc EXCEPT ![t] = IF generation # start[t] THEN "cancelled"
                                                        ELSE "await"]
  /\ UNCHANGED <<gateVars, pc, start, notified, stale>>

TaskAwait(t) ==
  /\ tpc[t] = "await"
  /\ tpc' = [tpc EXCEPT ![t] = "parked"]
  /\ UNCHANGED <<gateVars, pc, start, notified, stale>>

TaskWake(t) ==
  /\ tpc[t] = "parked"
  /\ notified[t]
  /\ tpc' = [tpc EXCEPT ![t] = "register"]
  /\ UNCHANGED <<gateVars, pc, start, notified, stale>>

TaskStep(t) ==
  TaskRegister(t) \/ TaskCheck(t) \/ TaskAwait(t) \/ TaskWake(t)

-----------------------------------------------------------------------------
Next ==
  \/ \E c \in Callers : CallerBegin(c) \/ CallerStep(c)
  \/ \E t \in Tasks : TaskBirth(t) \/ TaskStep(t)

\* A thread inside allow, block or stop keeps running, and the executor polls
\* a task that can make progress.  Nothing says that a call is ever made.
Fairness ==
  /\ \A c \in Callers : WF_vars(CallerStep(c))
  /\ \A t \in Tasks : WF_vars(TaskStep(t))

Spec == Init /\ [][Next]_vars
FairSpec == Spec /\ Fairness

-----------------------------------------------------------------------------
\* Every variable has its type; the generation never falls below zero.
TypeOK ==
  /\ allowed \in BOOLEAN
  /\ stopped \in BOOLEAN
  /\ generation \in Nat
  /\ pc \in [Callers -> CallerSteps]
  /\ tpc \in [Tasks -> TaskSteps]
  /\ start \in [Tasks -> Nat]
  /\ notified \in [Tasks -> BOOLEAN]
  /\ stale \in [Tasks -> BOOLEAN]

\* No lost wake-up in cancelled_since: a task committed to wait on a future that has not
\* fired, under a generation that has moved on, has a caller between its
\* generation step and its notify_waiters.
NotifyPending(c) ==
  pc[c] \in {"allow_notify", "block_notify"}
NoStrandedTask ==
  \A t \in Tasks :
    (tpc[t] \in {"await", "parked"} /\ ~notified[t] /\ generation # start[t])
      => \E c \in Callers : NotifyPending(c)

\* Every block is a cancellation edge for every task alive at it, also when
\* traffic was already denied: the generation has moved past the one the task
\* was born under, for good, or a block is about to move it.
BlockCancels ==
  \A t \in Tasks :
    stale[t] => \/ start[t] < generation
                \/ \E c \in Callers : pc[c] = "block_inc"

\* A task alive at a block leaves cancelled_since: the wait neither misses the
\* block nor is deferred for ever by the calls that follow it.
CancelledEventually ==
  \A t \in Tasks : (Alive(t) /\ stale[t]) ~> (tpc[t] = "cancelled")

\* The gate implements the atomic gate: a call takes effect at its swap or
\* store, and the edges are the generation plus the steps still owed to it.
OwesEdge(c) ==
  pc[c] \in {"allow_inc", "stop_store", "block_inc"}
Edges == generation + Cardinality({c \in Callers : OwesEdge(c)})
Gate == INSTANCE TrafficGate WITH open <- Open, edges <- Edges
ImplementsTrafficGate == Gate!Spec

=============================================================================
