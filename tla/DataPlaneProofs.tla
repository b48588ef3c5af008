--------------------------- MODULE DataPlaneProofs ---------------------------
(***************************************************************************)
(* The transition lock and the recovery intent, for any callers, binders   *)
(* and engine tasks; and the latch of a bind failure, when the operations  *)
(* that write the gate do not overlap.                                     *)
(***************************************************************************)
EXTENDS DataPlane, TLAPS

\* What a caller runs above a step that holds the transition lock.
Leaves == {"fs_take", "join", "rp_keys", "rp_apply"}

Steps == LockedSteps \cup Leaves \cup
         {"idle", "se_take", "se_wait", "st_lock", "blk_lock", "rec_lock", "tick", "tick_latch",
          "tick_eval", "tick_health", "tick_allow", "rq_sweep", "rq_keys", "rq_stale", "rq_plan",
          "rq_current", "rq_requeue", "pa_mark", "rs_queue", "rm_drop", "rc_eval", "rc_lock",
          "rc_clear", "rc_reeval", "rc_apply"}

Locked(calls) == \E i \in DOMAIN calls : calls[i] \in LockedSteps

\* The lock is held at one depth of the calls of a caller: at its own step, or
\* right below one that calls nothing further.
Nested(a) ==
  /\ pc[a] \in LockedSteps => ~Locked(stack[a])
  /\ Locked(stack[a]) => /\ pc[a] \in Leaves
                         /\ stack[a] # <<>> /\ ~Locked(Tail(stack[a]))

Control ==
  /\ lock \in Callers \cup {"free"}
  /\ pc \in [Callers -> Steps] /\ stack \in [Callers -> Seq(Steps)]
  /\ \A a \in Callers : Nested(a) /\ (InLock(a) <=> lock = a)

\* Such a caller is not itself at a step of the lock.
LEMMA Disjoint == Leaves \cap LockedSteps = {}
  BY Zenon DEF Leaves, LockedSteps

\* A call puts one step on the stack.
LEMMA Pushing ==
  ASSUME NEW q \in Seq(Steps), NEW s \in Steps
  PROVE  /\ <<s>> \o q \in Seq(Steps) /\ <<s>> \o q # <<>>
         /\ Tail(<<s>> \o q) = q
         /\ Locked(<<s>> \o q) <=> s \in LockedSteps \/ Locked(q)
<1> DEFINE p == <<s>> \o q
<1>1. p \in Seq(Steps) /\ Len(p) = Len(q) + 1 /\ p[1] = s /\ \A i \in 1 .. Len(q) : p[i + 1] = q[i]
  OBVIOUS
<1>2. Tail(p) = q
  OBVIOUS
<1>d. DOMAIN p = 1 .. Len(p) /\ DOMAIN q = 1 .. Len(q) /\ Len(q) \in Nat
  BY <1>1
<1>e. p # <<>>
  BY <1>1
<1> HIDE DEF p
<1>3. Locked(p) <=> s \in LockedSteps \/ Locked(q)
  <2>1. ASSUME NEW i \in DOMAIN p, p[i] \in LockedSteps PROVE s \in LockedSteps \/ Locked(q)
    <3>1. CASE i = 1
      BY Zenon, <1>1, <2>1, <3>1
    <3>2. CASE i # 1
      <4>1. i - 1 \in DOMAIN q /\ i = (i - 1) + 1
        BY <1>1, <1>d, <3>2
      <4>2. p[i] = q[i - 1]
        BY Zenon, <1>1, <1>d, <4>1
      <4> QED BY Zenon, <2>1, <4>1, <4>2 DEF Locked
    <3> QED BY Zenon, <3>1, <3>2
  <2>2. ASSUME s \in LockedSteps PROVE Locked(p)
    <3>1. 1 \in DOMAIN p /\ p[1] = s
      BY <1>1, <1>d
    <3> QED BY Zenon, <2>2, <3>1 DEF Locked
  <2>3. ASSUME NEW i \in DOMAIN q, q[i] \in LockedSteps PROVE Locked(p)
    <3>1. i + 1 \in DOMAIN p /\ p[i + 1] = q[i]
      BY <1>1, <1>d
    <3> QED BY Zenon, <2>3, <3>1 DEF Locked
  <2> QED BY Zenon, <2>1, <2>2, <2>3 DEF Locked
<1> QED BY Zenon, <1>1, <1>2, <1>3, <1>e DEF p

\* A return takes it off.
LEMMA Popping ==
  ASSUME NEW q \in Seq(Steps), q # <<>>
  PROVE  /\ Head(q) \in Steps /\ Tail(q) \in Seq(Steps)
         /\ Locked(q) <=> Head(q) \in LockedSteps \/ Locked(Tail(q))
<1>1. Head(q) \in Steps /\ Tail(q) \in Seq(Steps)
  OBVIOUS
<1>2. q = <<Head(q)>> \o Tail(q)
  OBVIOUS
<1> QED BY Zenon, <1>1, <1>2, Pushing

\* What a step of one caller leaves of the others.
LEMMA OneCaller ==
  ASSUME Control, NEW a \in Callers,
         pc' \in [Callers -> Steps], stack' \in [Callers -> Seq(Steps)],
         \A b \in Callers \ {a} : pc'[b] = pc[b] /\ stack'[b] = stack[b],
         Nested(a)',
         \/ lock' = lock /\ (InLock(a)' <=> InLock(a))
         \/ lock = "free" /\ lock' = a /\ InLock(a)'
         \/ InLock(a) /\ lock' = "free" /\ ~InLock(a)'
  PROVE  Control'
<1>0. "free" \notin Callers
  BY Zenon, DataPlaneAssumption
<1>1. lock' \in Callers \cup {"free"}
  BY Zenon DEF Control
<1>2. ASSUME NEW b \in Callers PROVE Nested(b)' /\ (InLock(b)' <=> lock' = b)
  <2>1. CASE b = a
    BY Zenon, <1>0, <2>1 DEF Control
  <2>2. CASE b # a
    <3>1. Nested(b)' /\ (InLock(b)' <=> InLock(b))
      BY Zenon, <2>2 DEF Control, Nested, InLock, Locked
    <3>2. InLock(b) <=> lock = b
      BY Zenon DEF Control
    <3>3. InLock(a) <=> lock = a
      BY Zenon DEF Control
    <3> QED BY Zenon, <1>0, <2>2, <3>1, <3>2, <3>3
  <2> QED BY Zenon, <2>1, <2>2
<1> QED BY Zenon, <1>1, <1>2 DEF Control

\* What a jump leaves of the lock discipline.
LEMMA Jumps ==
  ASSUME Control, NEW a \in Callers, NEW s \in Steps, Jump(a, s),
         Locked(stack[a]) => s \in Leaves,
         s \in LockedSteps => ~Locked(stack[a])
  PROVE  /\ pc' \in [Callers -> Steps] /\ stack' \in [Callers -> Seq(Steps)]
         /\ \A b \in Callers \ {a} : pc'[b] = pc[b] /\ stack'[b] = stack[b]
         /\ Nested(a)' /\ (InLock(a)' <=> s \in LockedSteps \/ Locked(stack[a]))
<1>1. pc' \in [Callers -> Steps] /\ pc'[a] = s /\ stack' = stack
  BY Zenon DEF Jump, Control
<1>2. Nested(a)
  BY Zenon DEF Control
<1> QED BY ZenonT(40), <1>1, <1>2 DEF Jump, Control, Nested, InLock, Locked

\* The same for a call.
LEMMA Calls ==
  ASSUME Control, NEW a \in Callers, NEW s \in Steps, NEW back \in Steps, Call(a, s, back),
         ~Locked(stack[a]), s \notin LockedSteps, back \in LockedSteps => s \in Leaves
  PROVE  /\ pc' \in [Callers -> Steps] /\ stack' \in [Callers -> Seq(Steps)]
         /\ \A b \in Callers \ {a} : pc'[b] = pc[b] /\ stack'[b] = stack[b]
         /\ Nested(a)' /\ (InLock(a)' <=> back \in LockedSteps)
<1> DEFINE q == stack[a]
<1>0. q \in Seq(Steps)
  BY Zenon DEF Control
<1>1. pc' \in [Callers -> Steps] /\ pc'[a] = s
  BY Zenon DEF Call, Control
<1>2. stack' = [stack EXCEPT ![a] = <<back>> \o q]
  BY Zenon DEF Call
<1>3. <<back>> \o q \in Seq(Steps)
  BY Zenon, <1>0, Pushing
<1>4. stack' \in [Callers -> Seq(Steps)] /\ stack'[a] = <<back>> \o q
  <2> HIDE DEF q
  <2> QED BY Zenon, <1>2, <1>3 DEF Control
<1>5. Nested(a)' /\ (InLock(a)' <=> back \in LockedSteps)
  <2>1. PICK p : p = <<back>> \o q
    BY Zenon
  <2>2. /\ p # <<>> /\ ~Locked(Tail(p))
        /\ Locked(p) <=> back \in LockedSteps
    BY Zenon, <1>0, <2>1, Pushing
  <2>3. stack'[a] = p
    BY Zenon, <1>4, <2>1
  <2> HIDE DEF q
  <2> QED BY Zenon, <1>1, <2>2, <2>3 DEF Nested, InLock, Locked
<1> QED BY Zenon, <1>1, <1>2, <1>4, <1>5 DEF Call, Control

\* The same for a return.
LEMMA Returns ==
  ASSUME Control, NEW a \in Callers, Return(a)
  PROVE  /\ pc' \in [Callers -> Steps] /\ stack' \in [Callers -> Seq(Steps)]
         /\ \A b \in Callers \ {a} : pc'[b] = pc[b] /\ stack'[b] = stack[b]
         /\ Nested(a)' /\ (InLock(a)' <=> Locked(stack[a]))
<1>0. stack[a] \in Seq(Steps) /\ Nested(a)
  BY Zenon DEF Control
<1>1. CASE stack[a] = <<>>
  <2>1. pc' = [pc EXCEPT ![a] = "idle"] /\ stack' = [stack EXCEPT ![a] = <<>>]
    BY Zenon, <1>1 DEF Return
  <2>2. pc' \in [Callers -> Steps] /\ pc'[a] = "idle"
    <3>1. "idle" \in Steps
      BY Zenon DEF Steps
    <3> QED BY Zenon, <2>1, <3>1 DEF Control
  <2>3. stack' \in [Callers -> Seq(Steps)] /\ stack'[a] = <<>>
    BY Zenon, <1>1, <2>1 DEF Control
  <2>4. ~Locked(<<>>)
    BY DEF Locked
  <2>5. Nested(a)' /\ ~InLock(a)'
    BY Zenon, <2>2, <2>3, <2>4 DEF Nested, InLock, Locked, LockedSteps
  <2> QED BY Zenon, <1>1, <2>1, <2>2, <2>3, <2>4, <2>5 DEF Control
<1>2. CASE stack[a] # <<>>
  <2>1. PICK h, t : h = Head(stack[a]) /\ t = Tail(stack[a])
    BY Zenon
  <2>2. h \in Steps /\ t \in Seq(Steps)
    BY Zenon, <1>0, <1>2, <2>1, Popping
  <2>3. pc' = [pc EXCEPT ![a] = h] /\ stack' = [stack EXCEPT ![a] = t]
    BY Zenon, <1>2, <2>1 DEF Return
  <2>4. pc' \in [Callers -> Steps] /\ pc'[a] = h
    BY Zenon, <2>2, <2>3 DEF Control
  <2>5. stack' \in [Callers -> Seq(Steps)] /\ stack'[a] = t
    BY Zenon, <2>2, <2>3 DEF Control
  <2>6. Locked(stack[a]) <=> h \in LockedSteps \/ Locked(t)
    BY Zenon, <1>0, <1>2, <2>1, Popping
  <2>7. Locked(stack[a]) => ~Locked(t)
    BY Zenon, <1>0, <2>1 DEF Nested
  <2>8. Nested(a)' /\ (InLock(a)' <=> Locked(stack[a]))
    BY Zenon, <2>4, <2>5, <2>6, <2>7 DEF Nested, InLock, Locked
  <2> QED BY Zenon, <2>3, <2>4, <2>5, <2>8 DEF Control
<1> QED BY Zenon, <1>1, <1>2

\* Where the lock is, seen from the caller's own step.
LEMMA Held ==
  ASSUME Control, NEW a \in Callers
  PROVE  /\ pc[a] \in LockedSteps => ~Locked(stack[a]) /\ InLock(a)
         /\ pc[a] \notin LockedSteps => (InLock(a) <=> Locked(stack[a]))
         /\ pc[a] \notin Leaves => ~Locked(stack[a])
  BY Zenon DEF Control, Nested, InLock, Locked

\* The ways in which a step moves control and the lock.
LEMMA JumpMoves ==
  ASSUME Control, NEW a \in Callers, NEW s \in Steps, Jump(a, s),
         \/ /\ lock' = lock
            /\ \/ pc[a] \notin LockedSteps \cup Leaves /\ s \notin LockedSteps
               \/ pc[a] \in LockedSteps /\ s \in LockedSteps
               \/ pc[a] \in Leaves /\ s \in Leaves
         \/ /\ lock = "free" /\ lock' = a
            /\ pc[a] \notin LockedSteps \cup Leaves /\ s \in LockedSteps
         \/ lock' = "free" /\ pc[a] \in LockedSteps /\ s \notin LockedSteps
  PROVE  Control'
<1>1. (Locked(stack[a]) => s \in Leaves) /\ (s \in LockedSteps => ~Locked(stack[a]))
  BY Zenon, Held, Disjoint
<1>2. InLock(a)' <=> s \in LockedSteps \/ Locked(stack[a])
  BY Zenon, <1>1, Jumps
<1>3. \/ lock' = lock /\ (InLock(a)' <=> InLock(a))
      \/ lock = "free" /\ lock' = a /\ InLock(a)'
      \/ InLock(a) /\ lock' = "free" /\ ~InLock(a)'
  BY Zenon, <1>2, Held, Disjoint
<1> QED BY Zenon, <1>1, <1>3, Jumps, OneCaller

\* A return keeps the discipline, with or without giving the lock back.
LEMMA ReturnMoves ==
  ASSUME Control, NEW a \in Callers, Return(a),
         \/ lock' = lock /\ pc[a] \notin LockedSteps
         \/ lock' = "free" /\ pc[a] \in LockedSteps
  PROVE  Control'
<1>1. \/ lock' = lock /\ (InLock(a)' <=> InLock(a))
      \/ InLock(a) /\ lock' = "free" /\ ~InLock(a)'
  BY Zenon, Held, Returns
<1> QED BY Zenon, <1>1, Returns, OneCaller

\* A call keeps it: the lock is not touched.
LEMMA CallMoves ==
  ASSUME Control, NEW a \in Callers, NEW s \in Steps, NEW back \in Steps, Call(a, s, back),
         \/ /\ lock' = lock
            /\ \/ pc[a] \notin LockedSteps \cup Leaves /\ s \notin LockedSteps
                    /\ back \notin LockedSteps
               \/ pc[a] \in LockedSteps /\ s \in Leaves /\ back \in LockedSteps
         \/ /\ lock = "free" /\ lock' = a
            /\ pc[a] \notin LockedSteps \cup Leaves /\ s \in Leaves /\ back \in LockedSteps
  PROVE  Control'
<1>1. ~Locked(stack[a]) /\ s \notin LockedSteps /\ (back \in LockedSteps => s \in Leaves)
  BY Zenon, Held, Disjoint
<1>2. InLock(a)' <=> back \in LockedSteps
  BY Zenon, <1>1, Calls
<1>3. \/ lock' = lock /\ (InLock(a)' <=> InLock(a))
      \/ lock = "free" /\ lock' = a /\ InLock(a)'
  BY Zenon, <1>1, <1>2, Held
<1> QED BY Zenon, <1>1, <1>3, Calls, OneCaller

-----------------------------------------------------------------------------
\* Every step of a caller keeps to the lock discipline.
LEMMA CallerControl ==
  ASSUME Control, NEW a \in Callers,
         CallerStep(a) \/ ScheduledBegin(a) \/ UserBegin(a) \/ ReplaceBegin(a)
  PROVE  Control'
<1> USE DEF At, Steps, LockedSteps, Leaves
<1>j. ASSUME ForceStopTake(a) \/ ProgressKeys(a)
      PROVE  Control'
  BY ZenonT(40), <1>j, JumpMoves DEF ForceStopTake, ProgressKeys
<1>1. ASSUME StopTake(a) \/ StopTimesOut(a) PROVE Control'
  BY Zenon, <1>1, JumpMoves DEF StopTake, StopTimesOut
<1>2. ASSUME Join(a) \/ ProgressApply(a) PROVE Control'
  BY ZenonT(40), <1>2, ReturnMoves DEF Join, ProgressApply
<1>3. ASSUME StartRefused(a) \/ ReconcileRequeue(a) \/ RemoveFails(a) \/ ReplaceInvalid(a)
             \/ TickLatched(a)
      PROVE  Control'
  BY Zenon, <1>3, ReturnMoves DEF StartRefused, ReconcileRequeue, RemoveFails, ReplaceInvalid, TickLatched
<1>4. ASSUME StartLock(a) \/ BlockLock(a) \/ RecoverLock(a) PROVE Control'
  BY Zenon, <1>4, JumpMoves DEF StartLock, BlockLock, RecoverLock
<1>5. ASSUME StartRejected(a) \/ StartDeferred(a) \/ StartUnlock(a) \/ StartGo(a) \/ BlockHealth(a)
      PROVE  Control'
  BY Zenon, <1>5, ReturnMoves DEF StartRejected, StartDeferred, StartUnlock, StartGo, BlockHealth
<1>6. ASSUME StartSpawn(a) \/ BlockIntents(a) \/ BlockTake(a) \/ ReplaceIntents(a) PROVE Control'
  BY Zenon, <1>6, JumpMoves DEF StartSpawn, BlockIntents, BlockTake, ReplaceIntents
<1>7. ASSUME StartCheck(a) PROVE Control'
  BY ZenonT(40), <1>7, JumpMoves, CallMoves DEF StartCheck
<1>8. ASSUME BlockAbort(a) \/ ReplaceBlock(a) PROVE Control'
  BY ZenonT(40), <1>8, CallMoves DEF BlockAbort, ReplaceBlock
<1>9. ASSUME RecoverConsume(a) PROVE Control'
  BY Zenon, <1>9, JumpMoves, ReturnMoves DEF RecoverConsume
<1>10. ASSUME TickDrain(a) \/ TickLatch(a) \/ TickUp(a) \/ TickHealth(a) PROVE Control'
  BY Zenon, <1>10, JumpMoves DEF TickDrain, TickLatch, TickUp, TickHealth
<1>11. ASSUME TickDown(a) PROVE Control'
  BY Zenon, <1>11, JumpMoves, ReturnMoves DEF TickDown
<1>12. ASSUME TickAllow(a) PROVE Control'
  BY ZenonT(40), <1>12, CallMoves DEF TickAllow
<1>13. ASSUME ReconcileInactive(a) PROVE Control'
  BY ZenonT(40), <1>13, JumpMoves, CallMoves DEF ReconcileInactive
<1>14. ASSUME ReconcileKeys(a) \/ ReconcileStale(a) \/ ReconcilePlan(a) PROVE Control'
  BY ZenonT(40), <1>14, JumpMoves DEF ReconcileKeys, ReconcileStale, ReconcilePlan
<1>15. ASSUME ReconcileCurrent(a) PROVE Control'
  BY Zenon, <1>15, CallMoves, ReturnMoves DEF ReconcileCurrent
<1>16. ASSUME PauseMark(a) \/ RestartQueue(a) \/ RemoveDrop(a) PROVE Control'
  BY Zenon, <1>16, JumpMoves, ReturnMoves DEF PauseMark, RestartQueue, RemoveDrop
<1>17. ASSUME ReplaceValid(a) \/ ReplaceClear(a) \/ ReplaceApply(a) PROVE Control'
  BY ZenonT(40), <1>17, JumpMoves DEF ReplaceValid, ReplaceClear, ReplaceApply
<1>18. ASSUME ReplaceMark(a) PROVE Control'
  BY Zenon, <1>18, JumpMoves DEF ReplaceMark
<1>19. ASSUME ReplaceLock(a) PROVE Control'
  BY Zenon, <1>19, CallMoves DEF ReplaceLock
<1>20. ASSUME ReplaceRecover(a) PROVE Control'
  BY ZenonT(40), <1>20, CallMoves DEF ReplaceRecover
<1>21. ASSUME ScheduledBegin(a) \/ resume(a) \/ start_now(a) PROVE Control'
  BY Zenon, <1>21, JumpMoves DEF ScheduledBegin, resume, start_now
<1>22. ASSUME PauseBegin(a) \/ set_wanted(a) \/ RemoveBegin(a) PROVE Control'
  BY ZenonT(40), <1>22, CallMoves DEF PauseBegin, set_wanted, RemoveBegin
<1>23. ASSUME ReplaceBegin(a) PROVE Control'
  BY Zenon, <1>23, JumpMoves, CallMoves DEF ReplaceBegin
<1> QED
  BY Zenon, <1>j, <1>1, <1>2, <1>3, <1>4, <1>5, <1>6, <1>7, <1>8, <1>9, <1>10, <1>11, <1>12, <1>13,
     <1>14, <1>15, <1>16, <1>17, <1>18, <1>19, <1>20, <1>21, <1>22, <1>23
  DEF CallerStep, TickStep, ReconcileStep, UserStep, ReplaceStep, LockStep, UserBegin

-----------------------------------------------------------------------------
\* The types of what the steps store.
Memory == [taken : Engines \cup {NoEngine}, spawned : Engines \cup {NoEngine},
           want : BOOLEAN, running : BOOLEAN, down : BOOLEAN, fix : BOOLEAN]

Flags == /\ path \in BOOLEAN /\ open \in BOOLEAN /\ health \in BOOLEAN
         /\ latch \in BOOLEAN /\ reports \in BOOLEAN /\ intent \in BOOLEAN

Data ==
  /\ Flags
  /\ binder \in [Binders -> {"idle", "binding", "send"}]
  /\ tstate \in TorrentStates
  /\ handle \in Engines \cup {NoEngine}
  /\ engine \in [Engines -> EngineTasks]
  /\ mem \in [Callers -> Memory]

\* What the gate does to the tasks, and an abort or a stop, keeps their type.
LEMMA TaskTypes ==
  ASSUME Data
  PROVE  /\ \A on \in BOOLEAN : Edge(on) \in [Engines -> EngineTasks]
         /\ \A e \in Engines : Live(e) \in BOOLEAN
         /\ NoTask \in EngineTasks
         /\ [NoTask EXCEPT !.step = "gated"] \in EngineTasks
  BY ZenonT(40) DEF Data, Edge, Live, EngineTasks, NoTask

\* The tasks keep their type,
LEMMA StepType ==
  ASSUME Data, NEW e, NEW s \in {"free", "gated", "running", "cancelled", "ending"}, Step(e, s)
  PROVE  engine' \in [Engines -> EngineTasks]
  BY Zenon DEF Data, Step, EngineTasks

\* and so do the locals of the callers,
LEMMA RememberType ==
  ASSUME Data, NEW a \in Callers, NEW v,
         \/ Remember(a, "taken", v) /\ v \in Engines \cup {NoEngine}
         \/ Remember(a, "spawned", v) /\ v \in Engines \cup {NoEngine}
         \/ Remember(a, "want", v) /\ v \in BOOLEAN
         \/ Remember(a, "running", v) /\ v \in BOOLEAN
         \/ Remember(a, "fix", v) /\ v \in BOOLEAN
  PROVE  mem' \in [Callers -> Memory]
  BY DEF Data, Remember, Memory

\* and the gate, when it is opened or closed.
LEMMA GateTypes ==
  ASSUME Data, allow \/ block
  PROVE  open' \in BOOLEAN /\ engine' \in [Engines -> EngineTasks]
<1>1. CASE allow
  <2>1. (~open) \in BOOLEAN
    BY Zenon DEF Data, Flags
  <2> QED BY Zenon, <1>1, <2>1, TaskTypes DEF allow
<1>2. CASE block
  BY ZenonT(40), <1>2, TaskTypes DEF block
<1> QED BY Zenon, <1>1, <1>2

\* Steps that stop, start and join the engine.
LEMMA EngineCallerData ==
  ASSUME Data, NEW a \in Callers,
         \/ ForceStopTake(a) \/ Join(a) \/ StopTake(a) \/ StopTimesOut(a)
         \/ StartRefused(a) \/ StartLock(a) \/ StartRejected(a) \/ StartDeferred(a)
         \/ StartSpawn(a) \/ StartCheck(a) \/ StartUnlock(a) \/ StartGo(a)
  PROVE  Data'
<1> USE DEF netVars, recordVars
<1>1. ASSUME ForceStopTake(a) PROVE Data'
  <2>1. mem' \in [Callers -> Memory]
    BY ZenonT(40), <1>1, RememberType DEF ForceStopTake, Data
  <2>2. engine' \in [Engines -> EngineTasks]
    <3>1. ASSUME NEW e \in Engines
          PROVE  [engine[e] EXCEPT !.aborted = @ \/ (e = handle /\ Live(e)),
                                   !.stopping = @ \/ (e = handle /\ Live(e))] \in EngineTasks
      BY Zenon DEF Data, EngineTasks
    <3> QED BY Zenon, <1>1, <3>1 DEF ForceStopTake
  <2> QED BY ZenonT(40), <1>1, <2>1, <2>2 DEF ForceStopTake, Data, Flags
<1>2. ASSUME Join(a) PROVE Data'
  <2>1. mem' \in [Callers -> Memory]
    BY Zenon, <1>2, RememberType DEF Join, Data
  <2> QED BY Zenon, <1>2, <2>1 DEF Join, Data, Flags
<1>3. ASSUME StopTake(a) PROVE Data'
  <2>1. mem' \in [Callers -> Memory]
    BY Zenon, <1>3, RememberType DEF StopTake, Data
  <2>2. engine' \in [Engines -> EngineTasks]
    <3>1. ASSUME NEW e \in Engines
          PROVE  [engine[e] EXCEPT !.stopping = @ \/ (e = handle /\ Live(e))] \in EngineTasks
      BY Zenon DEF Data, EngineTasks
    <3> QED BY Zenon, <1>3, <3>1 DEF StopTake
  <2> QED BY Zenon, <1>3, <2>1, <2>2 DEF StopTake, Data, Flags
<1>4. ASSUME StopTimesOut(a) PROVE Data'
  <2>1. engine' \in [Engines -> EngineTasks]
    BY Zenon, <1>4 DEF StopTimesOut, Data, EngineTasks
  <2> QED BY Zenon, <1>4, <2>1 DEF StopTimesOut, Data, Flags
<1>5. ASSUME StartRefused(a) \/ StartRejected(a) \/ StartDeferred(a) PROVE Data'
  <2>1. tstate' \in TorrentStates
    BY Zenon, <1>5 DEF StartRefused, StartRejected, StartDeferred, Data, TorrentStates
  <2> QED BY Zenon, <1>5, <2>1 DEF StartRefused, StartRejected, StartDeferred, Data, Flags
<1>6. ASSUME StartLock(a) \/ StartCheck(a) PROVE Data'
  BY Zenon, <1>6 DEF StartLock, StartCheck, Data, Flags
<1>7. ASSUME StartSpawn(a) PROVE Data'
  <2>1. PICK e \in Engines : /\ engine' = [engine EXCEPT ![e] = [NoTask EXCEPT !.step = "gated"]]
                             /\ handle' = e /\ Remember(a, "spawned", e)
    BY Zenon, <1>7 DEF StartSpawn
  <2>2. mem' \in [Callers -> Memory]
    BY Zenon, <2>1, RememberType
  <2>3. engine' \in [Engines -> EngineTasks]
    BY Zenon, <2>1, TaskTypes DEF Data
  <2> QED BY Zenon, <1>7, <2>1, <2>2, <2>3 DEF StartSpawn, Data, Flags
<1>8. ASSUME StartUnlock(a) PROVE Data'
  <2>1. mem' \in [Callers -> Memory]
    BY Zenon, <1>8, RememberType DEF StartUnlock
  <2> QED BY Zenon, <1>8, <2>1 DEF StartUnlock, Data, Flags
<1>9. ASSUME StartGo(a) PROVE Data'
  <2>1. mem' \in [Callers -> Memory]
    BY Zenon, <1>9, RememberType DEF StartGo
  <2>2. tstate' \in TorrentStates /\ intent' \in BOOLEAN
    BY Zenon, <1>9 DEF StartGo, Data, TorrentStates, Flags
  <2>3. engine' \in [Engines -> EngineTasks]
    BY ZenonT(40), <1>9 DEF StartGo, Step, Data, EngineTasks
  <2> QED BY Zenon, <1>9, <2>1, <2>2, <2>3 DEF StartGo, Data, Flags
<1> QED BY Zenon, <1>1, <1>2, <1>3, <1>4, <1>5, <1>6, <1>7, <1>8, <1>9

\* Steps of the containment transitions.
LEMMA TransitionData ==
  ASSUME Data, NEW a \in Callers,
         \/ ProgressKeys(a) \/ ProgressApply(a) \/ BlockLock(a) \/ BlockIntents(a) \/ BlockTake(a)
         \/ BlockAbort(a) \/ BlockHealth(a) \/ RecoverLock(a) \/ RecoverConsume(a)
         \/ TickStep(a)
  PROVE  Data'
<1> USE DEF netVars, recordVars
<1>p. \A on \in BOOLEAN : Progressed(on) \subseteq TorrentStates
  BY Zenon DEF Progressed, Data, TorrentStates
<1>1. ASSUME ProgressKeys(a) PROVE Data'
  <2>1. mem' \in [Callers -> Memory]
    BY Zenon, <1>1, RememberType DEF ProgressKeys
  <2> QED BY Zenon, <1>1, <2>1 DEF ProgressKeys, Data, Flags
<1>2. ASSUME ProgressApply(a) PROVE Data'
  <2>1. mem' \in [Callers -> Memory]
    BY Zenon, <1>2, RememberType DEF ProgressApply
  <2>2. mem[a].running \in BOOLEAN
    BY Zenon DEF Data, Memory
  <2>3. tstate' \in TorrentStates
    BY Zenon, <1>2, <1>p, <2>2 DEF ProgressApply
  <2> QED BY Zenon, <1>2, <2>1, <2>3 DEF ProgressApply, Data, Flags
<1>3. ASSUME BlockLock(a) \/ TickAllow(a) PROVE Data'
  <2>1. open' \in BOOLEAN /\ engine' \in [Engines -> EngineTasks]
    BY Zenon, <1>3, GateTypes DEF BlockLock, TickAllow
  <2> QED BY Zenon, <1>3, <2>1 DEF BlockLock, TickAllow, Data, Flags
<1>4. ASSUME BlockIntents(a) PROVE Data'
  <2>1. live_containment_recovery_intents \in BOOLEAN
    BY Zenon DEF live_containment_recovery_intents
  <2>2. mem' \in [Callers -> Memory]
    BY Zenon, <1>4, <2>1, RememberType DEF BlockIntents
  <2> QED BY Zenon, <1>4, <2>2 DEF BlockIntents, Data, Flags
<1>5. ASSUME BlockTake(a) PROVE Data'
  <2>1. mem' \in [Callers -> Memory]
    BY Zenon, <1>5, RememberType DEF BlockTake, Data
  <2> QED BY Zenon, <1>5, <2>1 DEF BlockTake, Data, Flags
<1>6. ASSUME BlockAbort(a) PROVE Data'
  <2>1. mem' \in [Callers -> Memory]
    BY Zenon, <1>6, RememberType DEF BlockAbort
  <2>2. tstate' \in TorrentStates
    BY Zenon, <1>6, <1>p DEF BlockAbort, TorrentStates
  <2>3. intent' \in BOOLEAN
    BY Zenon, <1>6 DEF BlockAbort
  <2>4. engine' \in [Engines -> EngineTasks]
    <3>1. ASSUME NEW e \in Engines
          PROVE  [engine[e] EXCEPT !.aborted = @ \/ (e = mem[a].taken /\ Live(e))] \in EngineTasks
      BY Zenon DEF Data, EngineTasks
    <3> QED BY Zenon, <1>6, <3>1 DEF BlockAbort
  <2> QED BY Zenon, <1>6, <2>1, <2>2, <2>3, <2>4 DEF BlockAbort, Data, Flags
<1>7. ASSUME BlockHealth(a) PROVE Data'
  BY Zenon, <1>7 DEF BlockHealth, Data, Flags
<1>8. ASSUME RecoverLock(a) PROVE Data'
  <2>1. open' \in BOOLEAN /\ engine' \in [Engines -> EngineTasks]
    BY Zenon, <1>8, GateTypes DEF RecoverLock
  <2> QED BY Zenon, <1>8, <2>1 DEF RecoverLock, Data, Flags
<1>9. ASSUME RecoverConsume(a) PROVE Data'
  <2>1. tstate' \in TorrentStates /\ intent' \in BOOLEAN
    BY Zenon, <1>9 DEF RecoverConsume, Data, TorrentStates, Flags
  <2> QED BY Zenon, <1>9, <2>1 DEF RecoverConsume, Data, Flags
<1>10. ASSUME TickLatched(a) PROVE Data'
  <2>1. open' \in BOOLEAN /\ engine' \in [Engines -> EngineTasks]
    BY Zenon, <1>10, GateTypes DEF TickLatched, Data, Flags
  <2> QED BY Zenon, <1>10, <2>1 DEF TickLatched, Data, Flags
<1>11. ASSUME TickDrain(a) \/ TickLatch(a) \/ TickDown(a) \/ TickUp(a) \/ TickHealth(a) PROVE Data'
  BY Zenon, <1>11 DEF TickDrain, TickLatch, TickDown, TickUp, TickHealth, Data, Flags
<1> QED BY Zenon, <1>1, <1>2, <1>3, <1>4, <1>5, <1>6, <1>7, <1>8, <1>9, <1>10, <1>11 DEF TickStep

\* Steps of the queue pass, of the API operations and of a replacement.
LEMMA OperationData ==
  ASSUME Data, NEW a \in Callers,
         \/ ReconcileStep(a) \/ UserStep(a) \/ UserBegin(a) \/ ReplaceStep(a) \/ ReplaceBegin(a)
         \/ ScheduledBegin(a)
  PROVE  Data'
<1> USE DEF netVars, recordVars
<1>1. ASSUME ReconcileInactive(a) \/ ReconcilePlan(a) \/ ReconcileCurrent(a) \/ PauseBegin(a)
             \/ set_wanted(a) \/ RemoveBegin(a) \/ ReplaceInvalid(a) \/ ReplaceLock(a)
             \/ ReplaceRecover(a) \/ ReplaceApply(a) \/ ReplaceBegin(a) \/ ScheduledBegin(a)
      PROVE  Data'
  BY ZenonT(40), <1>1 DEF ReconcileInactive, ReconcilePlan, ReconcileCurrent, PauseBegin, set_wanted,
              RemoveBegin, ReplaceInvalid, ReplaceLock, ReplaceRecover, ReplaceApply,
              ReplaceBegin, ScheduledBegin, Data, Flags
<1>2. ASSUME ReconcileKeys(a) PROVE Data'
  <2>1. mem' \in [Callers -> Memory]
    BY Zenon, <1>2, RememberType DEF ReconcileKeys
  <2> QED BY Zenon, <1>2, <2>1 DEF ReconcileKeys, Data, Flags
<1>3. ASSUME ReconcileStale(a) PROVE Data'
  <2>1. mem' \in [Callers -> Memory]
    BY Zenon, <1>3, RememberType DEF ReconcileStale
  <2>2. tstate' \in TorrentStates
    BY Zenon, <1>3 DEF ReconcileStale, Data, TorrentStates
  <2> QED BY Zenon, <1>3, <2>1, <2>2 DEF ReconcileStale, Data, Flags
<1>4. ASSUME ReconcileRequeue(a) \/ PauseMark(a) \/ RestartQueue(a) \/ RemoveFails(a) \/ RemoveDrop(a)
             \/ resume(a) \/ start_now(a)
      PROVE  Data'
  <2>1. tstate' \in TorrentStates
    BY Zenon, <1>4 DEF ReconcileRequeue, PauseMark, RestartQueue, RemoveFails, RemoveDrop, resume,
                start_now, Data, TorrentStates
  <2>2. intent' \in BOOLEAN
    BY Zenon, <1>4 DEF ReconcileRequeue, PauseMark, RestartQueue, RemoveFails, RemoveDrop, resume,
                start_now, Data, Flags
  <2> QED BY Zenon, <1>4, <2>1, <2>2
          DEF ReconcileRequeue, PauseMark, RestartQueue, RemoveFails, RemoveDrop, resume,
              start_now, Data, Flags
<1>5. ASSUME ReplaceValid(a) PROVE Data'
  <2>1. PICK down \in BOOLEAN, rebuild \in BOOLEAN :
          mem' = [mem EXCEPT ![a].down = rebuild /\ down, ![a].fix = latch]
    BY Zenon, <1>5 DEF ReplaceValid
  <2>2. mem' \in [Callers -> Memory]
    <3>1. (rebuild /\ down) \in BOOLEAN
      BY Zenon
    <3>2. PICK d \in BOOLEAN, l \in BOOLEAN :
            mem' = [mem EXCEPT ![a] = [mem[a] EXCEPT !.down = d, !.fix = l]]
      <4>1. mem' = [mem EXCEPT ![a] = [mem[a] EXCEPT !.down = rebuild /\ down, !.fix = latch]]
        BY Zenon, <2>1 DEF Data
      <4> QED BY Zenon, <3>1, <4>1 DEF Data, Flags
    <3>3. [mem[a] EXCEPT !.down = d, !.fix = l] \in Memory
      BY Zenon DEF Data, Memory
    <3> QED BY Zenon, <3>2, <3>3 DEF Data
  <2> QED BY Zenon, <1>5, <2>2 DEF ReplaceValid, Data, Flags
<1>6. ASSUME ReplaceIntents(a) PROVE Data'
  <2>1. (mem[a].down /\ live_containment_recovery_intents) \in BOOLEAN
    BY Zenon
  <2>2. mem' \in [Callers -> Memory]
    BY Zenon, <1>6, <2>1, RememberType DEF ReplaceIntents
  <2> QED BY Zenon, <1>6, <2>2 DEF ReplaceIntents, Data, Flags
<1>7. ASSUME ReplaceBlock(a) PROVE Data'
  <2>1. open' \in BOOLEAN /\ engine' \in [Engines -> EngineTasks]
    BY Zenon, <1>7, GateTypes DEF ReplaceBlock, Data, Flags
  <2> QED BY Zenon, <1>7, <2>1 DEF ReplaceBlock, Data, Flags
<1>8. ASSUME ReplaceMark(a) PROVE Data'
  <2>1. mem' \in [Callers -> Memory]
    BY ZenonT(40), <1>8 DEF ReplaceMark, Data, Memory
  <2>2. tstate' \in TorrentStates /\ intent' \in BOOLEAN
    BY Zenon, <1>8 DEF ReplaceMark, Data, TorrentStates, Flags
  <2> QED BY Zenon, <1>8, <2>1, <2>2 DEF ReplaceMark, Data, Flags
<1>9. ASSUME ReplaceClear(a) PROVE Data'
  <2>1. mem' \in [Callers -> Memory]
    BY Zenon, <1>9, RememberType DEF ReplaceClear
  <2>2. latch' \in BOOLEAN
    BY Zenon, <1>9 DEF ReplaceClear
  <2> QED BY Zenon, <1>9, <2>1, <2>2 DEF ReplaceClear, Data, Flags
<1> QED BY Zenon, <1>1, <1>2, <1>3, <1>4, <1>5, <1>6, <1>7, <1>8, <1>9
        DEF ReconcileStep, UserStep, UserBegin, ReplaceStep

\* Steps of the engine tasks.
LEMMA EngineData ==
  ASSUME Data, NEW e \in Engines, EngineStep(e) \/ EngineReturns(e)
  PROVE  Data'
<1> USE DEF netVars, recordVars, callVars
<1>1. ASSUME EngineDies(e) \/ engine_task_finished(e) PROVE Data'
  <2>1. engine' \in [Engines -> EngineTasks]
    BY Zenon, <1>1, TaskTypes DEF EngineDies, engine_task_finished, Data
  <2> QED BY Zenon, <1>1, <2>1 DEF EngineDies, engine_task_finished, Data, Flags
<1>2. ASSUME EngineUnstarted(e) PROVE Data'
  <2>1. engine' \in [Engines -> EngineTasks]
    BY Zenon, <1>2, StepType DEF EngineUnstarted
  <2> QED BY Zenon, <1>2, <2>1 DEF EngineUnstarted, Data, Flags
<1>3. ASSUME record_engine_containment_cancellation(e) PROVE Data'
  <2>1. engine' \in [Engines -> EngineTasks]
    BY Zenon, <1>3, StepType DEF record_engine_containment_cancellation
  <2>2. intent' \in BOOLEAN
    BY Zenon, <1>3 DEF record_engine_containment_cancellation
  <2> QED BY Zenon, <1>3, <2>1, <2>2 DEF record_engine_containment_cancellation, Data, Flags
<1>4. ASSUME EngineReturns(e) PROVE Data'
  <2>1. engine' \in [Engines -> EngineTasks]
    BY Zenon, <1>4, StepType
    DEF EngineReturns, EngineFinished, queue_torrent_for_retry, handle_engine_task_error
  <2>2. tstate' \in TorrentStates
    BY Zenon, <1>4 DEF EngineReturns, EngineFinished, queue_torrent_for_retry, handle_engine_task_error,
                Data, TorrentStates
  <2> QED BY Zenon, <1>4, <2>1, <2>2
          DEF EngineReturns, EngineFinished, queue_torrent_for_retry, handle_engine_task_error,
              Data, Flags
<1> QED BY Zenon, <1>1, <1>2, <1>3, <1>4 DEF EngineStep

\* Steps of the binders and of the path.
LEMMA NetworkData ==
  ASSUME Data, (\E b \in Binders : BindGuard(b) \/ BinderStep(b)) \/ PathChanges
  PROVE  Data'
<1> USE DEF netVars, recordVars, callVars
<1>1. ASSUME NEW b \in Binders, BindGuard(b) \/ BindOk(b) \/ BindSend(b) PROVE Data'
  <2>1. binder' \in [Binders -> {"idle", "binding", "send"}]
    BY Zenon, <1>1 DEF BindGuard, BindOk, BindSend, Data
  <2> QED BY Zenon, <1>1, <2>1 DEF BindGuard, BindOk, BindSend, Data, Flags
<1>2. ASSUME NEW b \in Binders, BindBlock(b) PROVE Data'
  <2>1. binder' \in [Binders -> {"idle", "binding", "send"}]
    BY Zenon, <1>2 DEF BindBlock, Data
  <2>2. open' \in BOOLEAN /\ engine' \in [Engines -> EngineTasks]
    BY Zenon, <1>2, GateTypes DEF BindBlock
  <2> QED BY Zenon, <1>2, <2>1, <2>2 DEF BindBlock, Data, Flags
<1>3. ASSUME PathChanges PROVE Data'
  BY Zenon, <1>3, DataPlaneAssumption DEF PathChanges, Data, Flags
<1> QED BY Zenon, <1>1, <1>2, <1>3 DEF BinderStep

-----------------------------------------------------------------------------
\* No step of a caller gives an intent to a torrent that it leaves paused.
LEMMA PausedByCaller ==
  ASSUME Data, PausedHasNoIntent, NEW a \in Callers,
         CallerStep(a) \/ ScheduledBegin(a) \/ UserBegin(a) \/ ReplaceBegin(a)
  PROVE  PausedHasNoIntent'
<1> USE DEF netVars, recordVars, PausedHasNoIntent
<1>1. ASSUME UNCHANGED <<tstate, intent>> PROVE PausedHasNoIntent'
  BY Zenon, <1>1
<1>2. ASSUME StartRefused(a) \/ StartRejected(a) \/ StartDeferred(a) \/ StartGo(a) PROVE PausedHasNoIntent'
  BY Zenon, <1>2 DEF StartRefused, StartRejected, StartDeferred, StartGo
<1>3. ASSUME ProgressApply(a) PROVE PausedHasNoIntent'
  BY Zenon, <1>3 DEF ProgressApply, Progressed
<1>4. ASSUME BlockAbort(a) PROVE PausedHasNoIntent'
  BY Zenon, <1>4 DEF BlockAbort, Progressed
<1>5. ASSUME RecoverConsume(a) PROVE PausedHasNoIntent'
  BY Zenon, <1>5 DEF RecoverConsume
<1>6. ASSUME ReconcileStale(a) \/ ReconcileRequeue(a) \/ RestartQueue(a) \/ RemoveFails(a)
      PROVE  PausedHasNoIntent'
  BY Zenon, <1>6 DEF ReconcileStale, ReconcileRequeue, RestartQueue, RemoveFails
<1>7. ASSUME PauseMark(a) \/ RemoveDrop(a) \/ resume(a) \/ start_now(a) PROVE PausedHasNoIntent'
  BY Zenon, <1>7 DEF PauseMark, RemoveDrop, resume, start_now, Known
<1>8. ASSUME ReplaceMark(a) PROVE PausedHasNoIntent'
  BY Zenon, <1>8 DEF ReplaceMark
<1>9. \/ UNCHANGED <<tstate, intent>>
      \/ StartRefused(a) \/ StartRejected(a) \/ StartDeferred(a) \/ StartGo(a) \/ ProgressApply(a)
      \/ BlockAbort(a) \/ RecoverConsume(a) \/ ReconcileStale(a) \/ ReconcileRequeue(a)
      \/ RestartQueue(a) \/ RemoveFails(a) \/ PauseMark(a) \/ RemoveDrop(a) \/ resume(a)
      \/ start_now(a) \/ ReplaceMark(a)
  BY Zenon DEF CallerStep, LockStep, TickStep, ReconcileStep, UserStep, UserBegin, ReplaceStep,
         ForceStopTake, Join, StopTake, StopTimesOut, StartLock, StartSpawn, StartCheck,
         StartUnlock, ProgressKeys, BlockLock, BlockIntents, BlockTake, BlockHealth, RecoverLock,
         TickDrain, TickLatch, TickLatched, TickDown, TickUp, TickHealth, TickAllow,
         ReconcileInactive, ReconcileKeys, ReconcilePlan, ReconcileCurrent, PauseBegin, set_wanted,
         RemoveBegin, ReplaceBegin, ReplaceInvalid, ReplaceValid, ReplaceLock, ReplaceIntents,
         ReplaceBlock, ReplaceClear, ReplaceRecover, ReplaceApply, ScheduledBegin
<1> QED BY Zenon, <1>1, <1>2, <1>3, <1>4, <1>5, <1>6, <1>7, <1>8, <1>9

\* Nor does a step of an engine task, of a binder or of the path.
LEMMA PausedElsewhere ==
  ASSUME Data, PausedHasNoIntent,
         \/ \E e \in Engines : EngineStep(e) \/ EngineReturns(e)
         \/ \E b \in Binders : BindGuard(b) \/ BinderStep(b)
         \/ PathChanges
  PROVE  PausedHasNoIntent' /\ UNCHANGED <<lock, pc, stack>>
<1> USE DEF netVars, recordVars, callVars, PausedHasNoIntent
<1>1. ASSUME NEW e \in Engines, EngineStep(e) PROVE PausedHasNoIntent' /\ UNCHANGED <<lock, pc, stack>>
  <2>1. CASE EngineDies(e) \/ EngineUnstarted(e) \/ engine_task_finished(e)
    BY <2>1 DEF EngineDies, EngineUnstarted, engine_task_finished
  <2>2. CASE record_engine_containment_cancellation(e)
    <3>1. UNCHANGED <<tstate, lock, pc, stack>>
      BY Zenon, <2>2 DEF record_engine_containment_cancellation
    <3>2. intent' => intent \/ tstate \in {"Downloading", "Queued"}
      BY Zenon, <2>2 DEF record_engine_containment_cancellation
    <3> QED BY Zenon, <3>1, <3>2
  <2> QED BY Zenon, <1>1, <2>1, <2>2 DEF EngineStep
<1>2. ASSUME NEW e \in Engines, EngineReturns(e) PROVE PausedHasNoIntent' /\ UNCHANGED <<lock, pc, stack>>
  BY <1>2 DEF EngineReturns, EngineFinished, queue_torrent_for_retry, handle_engine_task_error
<1>3. ASSUME NEW b \in Binders, BindGuard(b) \/ BinderStep(b)
      PROVE  PausedHasNoIntent' /\ UNCHANGED <<lock, pc, stack>>
  BY <1>3 DEF BinderStep, BindGuard, BindOk, BindBlock, BindSend
<1>4. ASSUME PathChanges PROVE PausedHasNoIntent' /\ UNCHANGED <<lock, pc, stack>>
  BY Zenon, <1>4 DEF PathChanges
<1> QED BY Zenon, <1>1, <1>2, <1>3, <1>4

-----------------------------------------------------------------------------
\* Strengthens PausedIsQuiet: where the lock may be among the calls of a
\* caller, and the types of the callers' local variables.
DataPlaneInv == Control /\ Data /\ PausedHasNoIntent

\* The invariant holds at first.
LEMMA Starts == Init => DataPlaneInv
<1> SUFFICES ASSUME Init PROVE DataPlaneInv
  BY Zenon
<1>1. Data
  <2>1. Flags
    BY Zenon, DataPlaneAssumption DEF Init, Flags
  <2>2. NoTask \in EngineTasks /\ Fresh \in Memory
    BY Zenon DEF NoTask, EngineTasks, Fresh, Memory
  <2> QED BY Zenon, <2>1, <2>2 DEF Init, Data, TorrentStates
<1>2. Control
  <2>1. \A a \in Callers : pc[a] = "idle" /\ stack[a] = <<>>
    BY Zenon DEF Init
  <2>2. \A a \in Callers : ~InLock(a) /\ Nested(a)
    BY <2>1 DEF InLock, Nested, Locked, LockedSteps
  <2>3. "idle" \in Steps /\ <<>> \in Seq(Steps)
    BY DEF Steps
  <2> QED BY Zenon, <2>2, <2>3, DataPlaneAssumption DEF Init, Control
<1> QED BY Zenon, <1>1, <1>2 DEF DataPlaneInv, PausedHasNoIntent, Init

\* Every step keeps it.
LEMMA Keeps == DataPlaneInv /\ [Next]_vars => DataPlaneInv'
<1> SUFFICES ASSUME DataPlaneInv, [Next]_vars PROVE DataPlaneInv'
  BY Zenon
<1> USE DEF DataPlaneInv
<1>1. ASSUME NEW a \in Callers, CallerStep(a) \/ ScheduledBegin(a) \/ UserBegin(a) \/ ReplaceBegin(a)
      PROVE  DataPlaneInv'
  <2>1. Data'
    BY Zenon, <1>1, EngineCallerData, TransitionData, OperationData DEF CallerStep, LockStep, ReplaceStep
  <2> QED BY Zenon, <1>1, <2>1, CallerControl, PausedByCaller
<1>2. ASSUME \/ \E e \in Engines : EngineStep(e) \/ EngineReturns(e)
             \/ \E b \in Binders : BindGuard(b) \/ BinderStep(b)
             \/ PathChanges
      PROVE  DataPlaneInv'
  <2>1. Data'
    BY Zenon, <1>2, EngineData, NetworkData
  <2>2. PausedHasNoIntent' /\ UNCHANGED <<lock, pc, stack>>
    BY Zenon, <1>2, PausedElsewhere
  <2> QED BY Zenon, <2>1, <2>2 DEF Control, Nested, InLock, Locked
<1>3. ASSUME UNCHANGED vars PROVE DataPlaneInv'
  BY Zenon, <1>3 DEF vars, Control, Nested, InLock, Locked, Data, Flags, Live, PausedHasNoIntent
<1> QED BY Zenon, <1>1, <1>2, <1>3 DEF Next, Callers

\* For any number of callers, engine tasks and binders: a paused torrent has no
\* recovery intent, and the transition lock is held by exactly the caller that
\* is between taking and dropping it (seeding.rs, scheduler.rs, lifecycle.rs).
THEOREM PausedStaysQuiet == Spec => []PausedIsQuiet
<1>1. DataPlaneInv => PausedIsQuiet
  BY Zenon DEF DataPlaneInv, Control, Data, Flags, Memory, PausedIsQuiet, TypeOK
<1> QED BY <1>1, Starts, Keeps, PTL DEF Spec

-----------------------------------------------------------------------------
(***************************************************************************)
(* The latch of a bind failure, with one caller: ticks, transitions and    *)
(* replacements that do not overlap.  Binders and engines are as before.   *)
(***************************************************************************)
\* The steps to which a call returns.
Backs == {"st_unlock", "blk_health", "rq_sweep", "rq_keys", "rq_requeue", "pa_mark", "rs_queue",
          "rm_drop", "rc_intents", "rc_mark", "rc_eval", "rc_apply"}

\* The steps that are on their way to open the gate.
Opening == {"rec_lock", "tick_health", "tick_allow", "rc_reeval"}

\* The steps between the closing of the gate and of the health.
BlockSteps == {"blk_intents", "blk_take", "blk_abort", "blk_health"}
Blocking(a) == pc[a] \in BlockSteps \/ (stack[a] # <<>> /\ Head(stack[a]) = "blk_health")

LatchInv(a) ==
  /\ stack[a] \in Seq(Backs)
  /\ pc[a] \in Opening => ~latch
  /\ Blocking(a) => ~open
  /\ latch => (~open /\ ~health) \/ pc[a] = "blk_lock" \/ Blocking(a)

\* Only a leaf runs on top of a block.
LEMMA BlockingBelow ==
  ASSUME Control, NEW a \in Callers, stack[a] # <<>>, Head(stack[a]) = "blk_health"
  PROVE  pc[a] \in Leaves /\ (Tail(stack[a]) # <<>> => Head(Tail(stack[a])) # "blk_health")
<1>1. PICK q \in Seq(Steps) : q = stack[a] /\ q # <<>> /\ Head(q) = "blk_health"
  BY Zenon DEF Control
<1>2. "blk_health" \in LockedSteps
  BY Zenon DEF LockedSteps
<1>3. Locked(q) /\ Tail(q) \in Seq(Steps)
  BY Zenon, <1>1, <1>2, Popping
<1>4. pc[a] \in Leaves /\ ~Locked(Tail(q))
  BY Zenon, <1>1, <1>3 DEF Control, Nested
<1>5. PICK t \in Seq(Steps) : t = Tail(q)
  BY Zenon, <1>3
<1>6. t # <<>> => Head(t) # "blk_health"
  BY ZenonT(40), <1>2, <1>4, <1>5, Popping
<1> QED BY Zenon, <1>1, <1>4, <1>5, <1>6

\* Steps that move neither the gate nor the latch nor the health.
Still == UNCHANGED <<open, health, latch>>

\* A jump that moves none of the three keeps the invariant of the latch.
LEMMA JumpStill ==
  ASSUME Control, NEW a \in Callers, LatchInv(a), NEW s, Jump(a, s), Still,
         pc[a] \notin BlockSteps \cup {"blk_lock"}, s \notin Opening \cup BlockSteps
  PROVE  LatchInv(a)'
<1>1. pc'[a] = s /\ stack'[a] = stack[a]
  BY Zenon DEF Jump, Control
<1>2. Blocking(a)' <=> Blocking(a)
  BY Zenon, <1>1 DEF Blocking
<1> QED BY Zenon, <1>1, <1>2 DEF LatchInv, Still

\* A call from outside a block: whether it is now a block that waits.
LEMMA CallLatch ==
  ASSUME Control, NEW a \in Callers, LatchInv(a), NEW s, NEW back \in Backs, Call(a, s, back),
         pc[a] \notin Leaves, s \notin BlockSteps
  PROVE  /\ stack'[a] \in Seq(Backs) /\ pc'[a] = s
         /\ Blocking(a)' <=> back = "blk_health"
         /\ Blocking(a) <=> pc[a] \in BlockSteps
<1>1. PICK q \in Seq(Backs) : q = stack[a]
  BY Zenon DEF LatchInv
<1>2. pc'[a] = s /\ stack'[a] = <<back>> \o q
  BY Zenon, <1>1 DEF Call, Control
<1> DEFINE p == <<back>> \o q
<1>3. p \in Seq(Backs)
  OBVIOUS
<1>4. Len(p) = Len(q) + 1 /\ p[1] = back
  OBVIOUS
<1>5. p # <<>> /\ Head(p) = back
  <2>1. Len(q) \in Nat
    OBVIOUS
  <2> HIDE DEF p
  <2> QED BY <1>3, <1>4, <2>1
<1> HIDE DEF p
<1>6. stack'[a] = p
  BY Zenon, <1>2 DEF p
<1> QED BY Zenon, <1>2, <1>3, <1>5, <1>6, BlockingBelow DEF Blocking

\* So a call that moves none of the three keeps the invariant,
LEMMA CallStill ==
  ASSUME Control, NEW a \in Callers, LatchInv(a), NEW s, NEW back \in Backs, Call(a, s, back),
         Still, pc[a] \notin BlockSteps \cup Leaves \cup {"blk_lock"},
         s \notin Opening \cup BlockSteps, back # "blk_health"
  PROVE  LatchInv(a)'
  BY Zenon, CallLatch DEF LatchInv, Still

\* A return from anywhere.
LEMMA ReturnLatch ==
  ASSUME Control, NEW a \in Callers, LatchInv(a), Return(a)
  PROVE  /\ stack'[a] \in Seq(Backs) /\ pc'[a] \in Backs \cup {"idle"}
         /\ pc[a] \notin BlockSteps => (Blocking(a)' <=> Blocking(a))
         /\ pc[a] \in BlockSteps => ~Blocking(a)'
<1>1. PICK q \in Seq(Backs) : q = stack[a]
  BY Zenon DEF LatchInv
<1>2. CASE q = <<>>
  <2>1. pc'[a] = "idle" /\ stack'[a] = <<>>
    BY Zenon, <1>1, <1>2 DEF Return, Control
  <2> QED BY Zenon, <1>1, <1>2, <2>1 DEF Blocking, BlockSteps
<1>3. CASE q # <<>>
  <2>0. Head(q) \in Backs /\ Tail(q) \in Seq(Backs)
    BY <1>3
  <2>1. PICK h \in Backs, t \in Seq(Backs) : h = Head(q) /\ t = Tail(q)
    BY Zenon, <2>0
  <2>2. pc'[a] = h /\ stack'[a] = t
    BY Zenon, <1>1, <1>3, <2>1 DEF Return, Control
  <2>3. h = "blk_health" => pc[a] \in Leaves
    BY Zenon, <1>1, <1>3, <2>1, BlockingBelow
  <2>4. t # <<>> => Head(t) # "blk_health"
    <3>1. PICK r \in Seq(Steps) : r = stack[a]
      BY Zenon DEF Control
    <3>2. Tail(r) \in Seq(Steps) /\ (Locked(r) <=> Head(r) \in LockedSteps \/ Locked(Tail(r)))
      BY Zenon, <1>1, <1>3, <3>1, Popping
    <3>3. ~Locked(Tail(r))
      BY Zenon, <3>1, <3>2 DEF Control, Nested
    <3>4. PICK u \in Seq(Steps) : u = Tail(r)
      BY Zenon, <3>2
    <3>5. u # <<>> => Head(u) \notin LockedSteps
      BY Zenon, <3>3, <3>4, Popping
    <3> QED BY Zenon, <1>1, <2>1, <3>1, <3>4, <3>5 DEF LockedSteps
  <2>5. h \in BlockSteps <=> h = "blk_health"
    BY Zenon DEF Backs, BlockSteps
  <2>6. Blocking(a)' <=> h = "blk_health"
    BY Zenon, <2>2, <2>4, <2>5 DEF Blocking
  <2>7. Leaves \cap BlockSteps = {}
    BY Zenon DEF Leaves, BlockSteps
  <2> QED BY Zenon, <1>1, <1>3, <2>1, <2>2, <2>3, <2>6, <2>7 DEF Blocking
<1> QED BY Zenon, <1>2, <1>3

\* and so does a return.
LEMMA ReturnStill ==
  ASSUME Control, NEW a \in Callers, LatchInv(a), Return(a), Still,
         pc[a] \notin BlockSteps \cup {"blk_lock"}
  PROVE  LatchInv(a)'
<1>1. (Backs \cup {"idle"}) \cap Opening = {}
  BY Zenon DEF Backs, Opening
<1> QED BY Zenon, <1>1, ReturnLatch DEF LatchInv, Still

\* Operations that move neither.
LEMMA StillSteps ==
  ASSUME Control, NEW a \in Callers, LatchInv(a),
         \/ ForceStopTake(a) \/ Join(a) \/ StopTake(a) \/ StopTimesOut(a) \/ StartRefused(a)
         \/ StartLock(a) \/ StartRejected(a) \/ StartDeferred(a) \/ StartSpawn(a) \/ StartCheck(a)
         \/ StartUnlock(a) \/ StartGo(a) \/ ProgressKeys(a) \/ ProgressApply(a)
         \/ RecoverConsume(a) \/ TickDrain(a) \/ TickDown(a) \/ ReconcileStep(a) \/ UserStep(a)
         \/ UserBegin(a) \/ ScheduledBegin(a) \/ ReplaceBegin(a) \/ ReplaceInvalid(a)
         \/ ReplaceValid(a) \/ ReplaceLock(a) \/ ReplaceIntents(a) \/ ReplaceMark(a)
         \/ ReplaceApply(a)
  PROVE  LatchInv(a)'
<1> USE DEF At, netVars, Still, BlockSteps, Opening, Leaves, Backs
<1>1. ASSUME ForceStopTake(a) \/ StopTake(a) \/ StopTimesOut(a) \/ StartLock(a) \/ StartSpawn(a)
             \/ ProgressKeys(a) \/ TickDrain(a)
      PROVE  LatchInv(a)'
  BY ZenonT(40), <1>1, JumpStill
  DEF ForceStopTake, StopTake, StopTimesOut, StartLock, StartSpawn, ProgressKeys, TickDrain
<1>2. ASSUME Join(a) \/ StartRefused(a) \/ StartRejected(a) \/ StartDeferred(a) \/ StartUnlock(a)
             \/ StartGo(a) \/ ProgressApply(a)
      PROVE  LatchInv(a)'
  BY ZenonT(40), <1>2, ReturnStill
  DEF Join, StartRefused, StartRejected, StartDeferred, StartUnlock, StartGo, ProgressApply
<1>3. ASSUME StartCheck(a) PROVE LatchInv(a)'
  BY Zenon, <1>3, JumpStill, CallStill DEF StartCheck
<1>4. ASSUME RecoverConsume(a) \/ TickDown(a) PROVE LatchInv(a)'
  BY Zenon, <1>4, JumpStill, ReturnStill DEF RecoverConsume, TickDown
<1>5. ASSUME ReconcileInactive(a) \/ ReconcileCurrent(a) PROVE LatchInv(a)'
  BY Zenon, <1>5, JumpStill, CallStill, ReturnStill DEF ReconcileInactive, ReconcileCurrent
<1>6. ASSUME ReconcileKeys(a) \/ ReconcileStale(a) \/ ReconcilePlan(a) PROVE LatchInv(a)'
  BY ZenonT(40), <1>6, JumpStill DEF ReconcileKeys, ReconcileStale, ReconcilePlan
<1>7. ASSUME ReconcileRequeue(a) \/ RemoveFails(a) \/ ReplaceInvalid(a) PROVE LatchInv(a)'
  BY Zenon, <1>7, ReturnStill DEF ReconcileRequeue, RemoveFails, ReplaceInvalid
<1>8. ASSUME PauseMark(a) \/ RestartQueue(a) \/ RemoveDrop(a) PROVE LatchInv(a)'
  BY Zenon, <1>8, JumpStill, ReturnStill DEF PauseMark, RestartQueue, RemoveDrop
<1>9. ASSUME PauseBegin(a) \/ set_wanted(a) \/ RemoveBegin(a) PROVE LatchInv(a)'
  BY Zenon, <1>9, CallStill DEF PauseBegin, set_wanted, RemoveBegin
<1>10. ASSUME resume(a) \/ start_now(a) \/ ScheduledBegin(a) PROVE LatchInv(a)'
  BY Zenon, <1>10, JumpStill DEF resume, start_now, ScheduledBegin
<1>11. ASSUME ReplaceBegin(a) \/ ReplaceLock(a) PROVE LatchInv(a)'
  BY Zenon, <1>11, JumpStill, CallStill DEF ReplaceBegin, ReplaceLock
<1>12. ASSUME ReplaceValid(a) \/ ReplaceIntents(a) \/ ReplaceMark(a) \/ ReplaceApply(a)
       PROVE  LatchInv(a)'
  BY ZenonT(40), <1>12, JumpStill DEF ReplaceValid, ReplaceIntents, ReplaceMark, ReplaceApply
<1> QED BY Zenon, <1>1, <1>2, <1>3, <1>4, <1>5, <1>6, <1>7, <1>8, <1>9, <1>10, <1>11, <1>12
        DEF ReconcileStep, UserStep, UserBegin

\* Operations that close the gate, or open it.
LEMMA GateSteps ==
  ASSUME Control, Data, NEW a \in Callers, LatchInv(a),
         \/ BlockLock(a) \/ BlockIntents(a) \/ BlockTake(a) \/ BlockAbort(a) \/ BlockHealth(a)
         \/ RecoverLock(a) \/ TickLatch(a) \/ TickLatched(a) \/ TickUp(a) \/ TickHealth(a)
         \/ TickAllow(a) \/ ReplaceBlock(a) \/ ReplaceClear(a) \/ ReplaceRecover(a)
  PROVE  LatchInv(a)'
<1> USE DEF At, netVars
<1>j. ASSUME NEW s, Jump(a, s) PROVE pc'[a] = s /\ stack'[a] = stack[a]
  BY Zenon, <1>j DEF Jump, Control
<1>l. pc[a] \notin Leaves => (Blocking(a) <=> pc[a] \in BlockSteps)
  BY Zenon, BlockingBelow DEF Blocking
<1>1. ASSUME BlockLock(a) PROVE LatchInv(a)'
  <2>1. pc'[a] = "blk_intents" /\ stack'[a] = stack[a] /\ ~open'
    BY ZenonT(40), <1>1, <1>j DEF BlockLock, block
  <2> QED BY ZenonT(40), <2>1 DEF LatchInv, Blocking, BlockSteps, Opening
<1>2. ASSUME BlockIntents(a) \/ BlockTake(a) PROVE LatchInv(a)'
  <2>1. /\ pc[a] \in BlockSteps /\ pc'[a] \in BlockSteps /\ stack'[a] = stack[a]
        /\ UNCHANGED <<open, latch>>
    BY ZenonT(40), <1>2, <1>j DEF BlockIntents, BlockTake, BlockSteps
  <2> QED BY ZenonT(40), <2>1 DEF LatchInv, Blocking, BlockSteps, Opening
<1>3. ASSUME BlockAbort(a) PROVE LatchInv(a)'
  <2>1. /\ pc[a] = "blk_abort" /\ Call(a, "join", "blk_health") /\ UNCHANGED <<open, latch>>
    BY Zenon, <1>3 DEF BlockAbort
  <2>c. /\ "blk_health" \in Backs /\ "blk_abort" \in BlockSteps
        /\ "blk_abort" \notin Leaves /\ "join" \notin BlockSteps
    BY Zenon DEF Backs, Leaves, BlockSteps
  <2>2. /\ stack'[a] \in Seq(Backs) /\ pc'[a] = "join" /\ Blocking(a)' /\ Blocking(a)
    BY Zenon, <2>1, <2>c, CallLatch
  <2> QED BY Zenon, <2>1, <2>2 DEF LatchInv, Opening
<1>4. ASSUME BlockHealth(a) PROVE LatchInv(a)'
  <2>1. pc[a] \in BlockSteps /\ Return(a) /\ ~health' /\ UNCHANGED <<open, latch>>
    BY Zenon, <1>4 DEF BlockHealth, BlockSteps
  <2>2. ~open
    BY ZenonT(40), <2>1 DEF LatchInv, Blocking
  <2>3. /\ stack'[a] \in Seq(Backs) /\ pc'[a] \in Backs \cup {"idle"} /\ ~Blocking(a)'
    BY ZenonT(40), <2>1, ReturnLatch
  <2> QED BY Zenon, <2>1, <2>2, <2>3 DEF LatchInv, Opening, Backs
<1>5. ASSUME RecoverLock(a) PROVE LatchInv(a)'
  <2>1. /\ pc[a] = "rec_lock" /\ pc'[a] = "rec_consume" /\ stack'[a] = stack[a] /\ UNCHANGED latch
    BY ZenonT(40), <1>5, <1>j DEF RecoverLock
  <2>2. ~latch /\ ~Blocking(a)
    BY ZenonT(40), <1>l, <2>1 DEF LatchInv, Opening, Leaves, BlockSteps
  <2> QED BY ZenonT(40), <2>1, <2>2 DEF LatchInv, Blocking, BlockSteps, Opening
<1>6. ASSUME TickLatch(a) PROVE LatchInv(a)'
  <2>1. /\ pc[a] = "tick_latch" /\ pc'[a] = "blk_lock" /\ stack'[a] = stack[a] /\ UNCHANGED open
    BY ZenonT(40), <1>6, <1>j DEF TickLatch
  <2> QED BY Zenon, <2>1 DEF LatchInv, Blocking, BlockSteps, Opening
<1>7. ASSUME TickLatched(a) PROVE LatchInv(a)'
  <2>1. pc[a] \notin BlockSteps /\ Return(a) /\ ~health' /\ UNCHANGED latch
    BY Zenon, <1>7 DEF TickLatched, BlockSteps
  <2>2. ~open'
    BY ZenonT(40), <1>7 DEF TickLatched, block, Data, Flags
  <2>3. /\ stack'[a] \in Seq(Backs) /\ pc'[a] \in Backs \cup {"idle"}
    BY Zenon, <2>1, ReturnLatch
  <2> QED BY Zenon, <2>1, <2>2, <2>3 DEF LatchInv, Opening, Backs
<1>8. ASSUME TickUp(a) \/ TickHealth(a) PROVE LatchInv(a)'
  <2>u. ASSUME TickUp(a)
        PROVE  /\ pc[a] = "tick_eval" /\ ~latch' /\ UNCHANGED open
               /\ pc'[a] \in {"tick_health", "rec_lock"} /\ stack'[a] = stack[a]
    BY ZenonT(40), <2>u, <1>j DEF TickUp
  <2>h. ASSUME TickHealth(a)
        PROVE  /\ pc[a] = "tick_health" /\ ~latch' /\ UNCHANGED open
               /\ pc'[a] = "tick_allow" /\ stack'[a] = stack[a]
    BY ZenonT(40), <2>h, <1>j DEF TickHealth, LatchInv, Opening
  <2>1. /\ pc[a] \in {"tick_eval", "tick_health"} /\ ~latch' /\ UNCHANGED open
        /\ pc'[a] \in {"tick_health", "rec_lock", "tick_allow"} /\ stack'[a] = stack[a]
    BY Zenon, <1>8, <2>u, <2>h
  <2>2. ~Blocking(a)
    BY ZenonT(40), <1>l, <2>1 DEF Leaves, BlockSteps
  <2> QED BY ZenonT(40), <2>1, <2>2 DEF LatchInv, Blocking, BlockSteps
<1>9. ASSUME TickAllow(a) PROVE LatchInv(a)'
  <2>1. /\ pc[a] = "tick_allow" /\ Call(a, "rp_keys", "rq_sweep") /\ UNCHANGED latch
    BY Zenon, <1>9 DEF TickAllow
  <2>2. ~latch
    BY ZenonT(40), <2>1 DEF LatchInv, Opening
  <2>3. stack'[a] \in Seq(Backs) /\ ~Blocking(a)'
    BY Zenon, <2>1, CallLatch DEF Backs, Leaves, BlockSteps
  <2> QED BY Zenon, <2>1, <2>2, <2>3 DEF LatchInv
<1>10. ASSUME ReplaceBlock(a) PROVE LatchInv(a)'
  <2>1. /\ pc[a] = "rc_block" /\ Call(a, "fs_take", "rc_mark") /\ UNCHANGED <<latch, health>>
        /\ ~open' \/ UNCHANGED open
    BY Zenon, <1>10 DEF ReplaceBlock, block
  <2>2. /\ stack'[a] \in Seq(Backs) /\ pc'[a] = "fs_take" /\ ~Blocking(a)' /\ ~Blocking(a)
    BY ZenonT(40), <2>1, CallLatch DEF Backs, Leaves, BlockSteps
  <2>3. latch => ~open /\ ~health
    BY Zenon, <2>1, <2>2 DEF LatchInv
  <2>4. latch' => ~open' /\ ~health'
    BY Zenon, <2>1, <2>3
  <2>5. pc'[a] \notin Opening
    BY Zenon, <2>2 DEF Opening
  <2> QED BY ZenonT(40), <2>2, <2>4, <2>5 DEF LatchInv
<1>11. ASSUME ReplaceClear(a) PROVE LatchInv(a)'
  <2>1. /\ pc[a] = "rc_clear" /\ UNCHANGED <<open, health>> /\ stack'[a] = stack[a]
        /\ pc'[a] = IF mem[a].fix THEN "rc_reeval" ELSE "rc_apply"
        /\ latch' = (latch /\ ~mem[a].fix)
    BY Zenon, <1>11, <1>j DEF ReplaceClear
  <2>2. ~Blocking(a)
    BY Zenon, <1>l, <2>1 DEF Leaves, BlockSteps
  <2>3. ~Blocking(a)' /\ stack'[a] \in Seq(Backs)
    BY ZenonT(40), <2>1, <2>2 DEF Blocking, BlockSteps, LatchInv
  <2>4. CASE mem[a].fix
    BY ZenonT(40), <2>1, <2>3, <2>4 DEF LatchInv
  <2>5. CASE ~mem[a].fix
    <3>1. pc'[a] = "rc_apply" /\ (latch' => latch)
      BY ZenonT(40), <2>1, <2>5
    <3> QED BY ZenonT(40), <2>1, <2>2, <2>3, <3>1 DEF LatchInv, Opening
  <2> QED BY Zenon, <2>4, <2>5
<1>12. ASSUME ReplaceRecover(a) PROVE LatchInv(a)'
  <2>1. /\ pc[a] = "rc_reeval" /\ UNCHANGED <<open, health, latch>>
        /\ Call(a, IF path THEN "rec_lock" ELSE "blk_lock", "rc_apply")
    BY Zenon, <1>12 DEF ReplaceRecover
  <2>2. PICK s \in {"rec_lock", "blk_lock"} : Call(a, s, "rc_apply")
    BY Zenon, <2>1
  <2>3. ~latch
    BY ZenonT(40), <2>1 DEF LatchInv, Opening
  <2>4. stack'[a] \in Seq(Backs) /\ ~Blocking(a)'
    BY Zenon, <2>1, <2>2, CallLatch DEF Backs, Leaves, BlockSteps
  <2> QED BY Zenon, <2>1, <2>3, <2>4 DEF LatchInv
<1> QED BY Zenon, <1>1, <1>2, <1>3, <1>4, <1>5, <1>6, <1>7, <1>8, <1>9, <1>10, <1>11, <1>12

\* When ticks, transitions and replacements do not overlap, a latched bind
\* failure leaves gate and health closed after each of them, however many sockets
\* fail to bind meanwhile (containment.rs, settings.rs).
THEOREM LatchCloses ==
  ASSUME NEW a, Callers = {a}
  PROVE  Spec => []LatchedIsClosed
<1>1. Init => LatchInv(a)
  <2> SUFFICES ASSUME Init PROVE LatchInv(a)
    BY Zenon
  <2>1. pc[a] = "idle" /\ stack[a] = <<>> /\ ~latch
    BY Zenon DEF Init
  <2> QED BY <2>1 DEF LatchInv, Blocking, BlockSteps, Opening
<1>2. DataPlaneInv /\ LatchInv(a) /\ [Next]_vars => LatchInv(a)'
  <2> SUFFICES ASSUME DataPlaneInv, LatchInv(a), [Next]_vars PROVE LatchInv(a)'
    BY Zenon
  <2>1. Control /\ Data /\ a \in Callers
    BY Zenon DEF DataPlaneInv
  <2>2. ASSUME UNCHANGED <<pc, stack, health, latch>>, UNCHANGED open \/ ~open'
        PROVE  LatchInv(a)'
    <3>1. Blocking(a)' <=> Blocking(a)
      BY <2>2, Zenon DEF Blocking
    <3>2. pc' = pc /\ stack' = stack /\ health' = health /\ latch' = latch /\ (open' => open)
      BY <2>2
    <3> QED
      BY <3>1, <3>2, Zenon DEF LatchInv
  <2>3. ASSUME CallerStep(a) \/ ScheduledBegin(a) \/ UserBegin(a) \/ ReplaceBegin(a)
        PROVE  LatchInv(a)'
    <3>1. CASE LockStep(a)
      BY Zenon, <2>1, <3>1, StillSteps, GateSteps DEF LockStep
    <3>2. CASE TickStep(a)
      BY Zenon, <2>1, <3>2, StillSteps, GateSteps DEF TickStep
    <3>3. CASE ReplaceStep(a)
      BY Zenon, <2>1, <3>3, StillSteps, GateSteps DEF ReplaceStep
    <3>4. CASE ~LockStep(a) /\ ~TickStep(a) /\ ~ReplaceStep(a)
      <4>1. CASE BlockIntents(a) \/ BlockTake(a) \/ BlockAbort(a) \/ BlockHealth(a)
        BY Zenon, <2>1, <4>1, GateSteps
      <4>2. CASE ~(BlockIntents(a) \/ BlockTake(a) \/ BlockAbort(a) \/ BlockHealth(a))
        BY Zenon, <2>1, <2>3, <3>4, <4>2, StillSteps DEF CallerStep
      <4> QED BY Zenon, <4>1, <4>2
    <3> QED BY Zenon, <3>1, <3>2, <3>3, <3>4
  <2>4. ASSUME NEW e \in Engines, EngineStep(e) \/ EngineReturns(e) PROVE LatchInv(a)'
    BY Zenon, <2>2, <2>4 DEF EngineStep, EngineReturns, EngineDies, EngineUnstarted, engine_task_finished,
       record_engine_containment_cancellation, EngineFinished, queue_torrent_for_retry,
       handle_engine_task_error, netVars, callVars
  <2>5. ASSUME NEW b \in Binders, BindGuard(b) \/ BinderStep(b) PROVE LatchInv(a)'
    BY Zenon, <2>2, <2>5 DEF BinderStep, BindGuard, BindOk, BindBlock, BindSend, block, callVars
  <2>6. ASSUME PathChanges PROVE LatchInv(a)'
    BY Zenon, <2>2, <2>6 DEF PathChanges, callVars
  <2>7. ASSUME UNCHANGED vars PROVE LatchInv(a)'
    BY Zenon, <2>2, <2>7 DEF vars
  <2> QED BY Zenon, <2>3, <2>4, <2>5, <2>6, <2>7 DEF Next, Callers
<1>3. DataPlaneInv /\ LatchInv(a) => LatchedIsClosed
  <2> SUFFICES ASSUME DataPlaneInv, LatchInv(a), latch, pc[a] = "idle" PROVE ~open /\ ~health
    BY Zenon DEF LatchedIsClosed, At
  <2>1. ~Blocking(a)
    BY Zenon, BlockingBelow DEF DataPlaneInv, Blocking, BlockSteps, Leaves
  <2> QED BY Zenon, <2>1 DEF LatchInv
<1> QED BY <1>1, <1>2, <1>3, Starts, Keeps, PTL DEF Spec
=============================================================================
