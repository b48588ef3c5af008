------------------------- MODULE GateAndRoundProofs -------------------------
(***************************************************************************)
(* Proofs about the two smallest protocols of the daemon, which share no   *)
(* state: ContainmentGate for any number of callers and tasks and any      *)
(* bound on the generation, then PieceRound for any peers, pieces, blocks  *)
(* and windows.                                                            *)
(***************************************************************************)
EXTENDS ContainmentGate, PieceRound, FiniteSetTheorems, TLAPS

\* Type correctness of the gate, its callers and its tasks.
THEOREM TypeCorrect == Spec => []TypeOK
<1>1. Init => TypeOK
  <2> SUFFICES ASSUME Init PROVE TypeOK
    BY Zenon
  <2> USE DEF Init
  <2>1. allowed \in BOOLEAN /\ stopped \in BOOLEAN /\ generation \in Nat
    BY Zenon
  <2>2. pc \in [Callers -> CallerSteps]
    BY Zenon DEF CallerSteps
  <2>3. tpc \in [Tasks -> TaskSteps]
    BY Zenon DEF TaskSteps
  <2>4. start \in [Tasks -> Nat]
    BY Zenon
  <2>5. /\ notified \in [Tasks -> BOOLEAN]
        /\ stale \in [Tasks -> BOOLEAN]
    BY Zenon
  <2> QED
    BY Zenon, <2>1, <2>2, <2>3, <2>4, <2>5 DEF TypeOK
<1>2. TypeOK /\ [Next]_vars => TypeOK'
  <2> SUFFICES ASSUME TypeOK, [Next]_vars PROVE TypeOK'
    BY Zenon
  <2> USE DEF TypeOK, CallerSteps, TaskSteps, Goto, gateVars, taskVars
  <2>1. ASSUME NEW c \in Callers, AllowBegin(c) PROVE TypeOK'
    BY Zenon, <2>1 DEF AllowBegin
  <2>2. ASSUME NEW c \in Callers, AllowSwap(c) PROVE TypeOK'
    BY Zenon, <2>2 DEF AllowSwap
  <2>3. ASSUME NEW c \in Callers, AllowInc(c) PROVE TypeOK'
    BY <2>3 DEF AllowInc
  <2>4. ASSUME NEW c \in Callers, AllowNotify(c) PROVE TypeOK'
    BY Zenon, <2>4 DEF AllowNotify, notify_waiters
  <2>5. ASSUME NEW c \in Callers, BlockBegin(c) PROVE TypeOK'
    BY Zenon, <2>5 DEF BlockBegin
  <2>6. ASSUME NEW c \in Callers, BlockStore(c) PROVE TypeOK'
    BY Zenon, <2>6 DEF BlockStore, Alive
  <2>7. ASSUME NEW c \in Callers, BlockInc(c) PROVE TypeOK'
    BY <2>7 DEF BlockInc
  <2>8. ASSUME NEW c \in Callers, BlockNotify(c) PROVE TypeOK'
    BY Zenon, <2>8 DEF BlockNotify, notify_waiters
  <2>9. ASSUME NEW c \in Callers, StopBegin(c) PROVE TypeOK'
    BY Zenon, <2>9 DEF StopBegin
  <2>10. ASSUME NEW t \in Tasks, TaskBirth(t) \/ TaskStep(t) PROVE TypeOK'
    BY ZenonT(40), <2>10 DEF TaskBirth, TaskStep, TaskRegister, TaskCheck, TaskAwait,
                 TaskWake
  <2>11. CASE UNCHANGED vars
    BY Zenon, <2>11 DEF vars
  <2> QED
    BY Zenon, <2>1, <2>2, <2>3, <2>4, <2>5, <2>6, <2>7, <2>8, <2>9, <2>10, <2>11
    DEF Next, CallerBegin, CallerStep
<1> QED
  BY <1>1, <1>2, PTL DEF Spec

(***************************************************************************)
(* The wake-up argument.  NoStrandedTask is inductive with TypeOK: a task  *)
(* registers before it compares generations, so a generation step after    *)
(* the comparison is followed by a notify_waiters that finds it.           *)
(***************************************************************************)
\* No wake-up is lost: cancelled_since never waits on a future that no
\* notify_waiters will fire although its generation has moved on.
THEOREM NoWakeUpLost == Spec => []NoStrandedTask
<1>1. Init => NoStrandedTask
  BY Zenon DEF Init, NoStrandedTask
<1>2. TypeOK /\ NoStrandedTask /\ [Next]_vars => NoStrandedTask'
  <2> SUFFICES ASSUME TypeOK, NoStrandedTask, [Next]_vars,
                      NEW t \in Tasks,
                      tpc'[t] \in {"await", "parked"}, ~notified'[t],
                      generation' # start'[t]
               PROVE \E c \in Callers : NotifyPending(c)'
    BY Zenon DEF NoStrandedTask, NotifyPending
  <2> USE DEF TypeOK, Goto, gateVars, taskVars, NotifyPending
  \* A call that leaves generations and tasks alone and does not end a notify.
  <2>0. ASSUME NEW c \in Callers, NEW step \in CallerSteps,
               pc' = [pc EXCEPT ![c] = step], ~NotifyPending(c),
               UNCHANGED <<generation, tpc, start, notified>>
        PROVE \E d \in Callers : NotifyPending(d)'
    <3>1. PICK d \in Callers : NotifyPending(d)
      BY Zenon, <2>0 DEF NoStrandedTask
    <3> QED
      BY Zenon, <2>0, <3>1
  <2>1. ASSUME NEW c \in Callers, AllowBegin(c) \/ BlockBegin(c)
                                  \/ StopBegin(c)
        PROVE \E d \in Callers : NotifyPending(d)'
    BY Zenon, <2>0, <2>1 DEF AllowBegin, BlockBegin, StopBegin, CallerSteps
  <2>2. ASSUME NEW c \in Callers, AllowSwap(c)
        PROVE \E d \in Callers : NotifyPending(d)'
    BY Zenon, <2>0, <2>2 DEF AllowSwap, CallerSteps
  <2>3. ASSUME NEW c \in Callers, AllowInc(c) \/ BlockInc(c)
        PROVE \E d \in Callers : NotifyPending(d)'
    BY Zenon, <2>3 DEF AllowInc, BlockInc
  <2>4. ASSUME NEW c \in Callers, AllowNotify(c) \/ BlockNotify(c)
        PROVE FALSE
    BY Zenon, <2>4 DEF AllowNotify, BlockNotify, notify_waiters, Registered
  <2>5. ASSUME NEW c \in Callers, BlockStore(c)
        PROVE \E d \in Callers : NotifyPending(d)'
    BY Zenon, <2>0, <2>5 DEF BlockStore, CallerSteps
  <2>6. ASSUME NEW u \in Tasks, TaskBirth(u) \/ TaskStep(u)
        PROVE \E d \in Callers : NotifyPending(d)'
    <3>1. ~notified[t] /\ generation # start[t]
          /\ tpc[t] \in {"await", "parked"} /\ pc' = pc
      BY Zenon, <2>6 DEF TaskBirth, TaskStep, TaskRegister, TaskCheck, TaskAwait,
                  TaskWake
    <3> QED
      BY Zenon, <3>1 DEF NoStrandedTask
  <2>7. CASE UNCHANGED <<gateVars, pc, taskVars>>
    BY Zenon, <2>7 DEF NoStrandedTask
  <2> QED
    BY Zenon, <2>1, <2>2, <2>3, <2>4, <2>5, <2>6, <2>7
       DEF Next, CallerBegin, CallerStep, vars
<1> QED
  BY <1>1, <1>2, TypeCorrect, PTL DEF Spec

(***************************************************************************)
(* Every block is a cancellation edge.  The strengthening says that no     *)
(* task was born under a generation still to come, so each generation step *)
(* leaves every living task behind.                                        *)
(***************************************************************************)
BornBefore == \A t \in Tasks : start[t] <= generation
CancelInv == BornBefore /\ BlockCancels

\* Every task alive at a block is cancelled by it, for good, or by the
\* generation step that a block still owes.
THEOREM EveryBlockCancels == Spec => []BlockCancels
<1>1. Init => CancelInv
  BY DEF Init, CancelInv, BornBefore, BlockCancels
<1>2. TypeOK /\ CancelInv /\ [Next]_vars => CancelInv'
  <2> SUFFICES ASSUME TypeOK, CancelInv, [Next]_vars PROVE CancelInv'
    BY Zenon
  <2> USE DEF TypeOK, CancelInv, BornBefore, BlockCancels, Goto, gateVars,
              taskVars
  <2>1. ASSUME NEW c \in Callers, AllowBegin(c) PROVE CancelInv'
    BY Zenon, <2>1 DEF AllowBegin
  <2>2. ASSUME NEW c \in Callers, BlockBegin(c) PROVE CancelInv'
    BY Zenon, <2>2 DEF BlockBegin
  <2>3. ASSUME NEW c \in Callers, StopBegin(c) PROVE CancelInv'
    BY Zenon, <2>3 DEF StopBegin
  <2>4. ASSUME NEW c \in Callers, AllowSwap(c) PROVE CancelInv'
    BY Zenon, <2>4 DEF AllowSwap
  <2>5. ASSUME NEW c \in Callers, AllowInc(c) PROVE CancelInv'
    BY <2>5 DEF AllowInc
  <2>6. ASSUME NEW c \in Callers, AllowNotify(c) PROVE CancelInv'
    BY Zenon, <2>6 DEF AllowNotify
  <2>7. ASSUME NEW c \in Callers, BlockStore(c) PROVE CancelInv'
    BY Zenon, <2>7 DEF BlockStore
  <2>8. ASSUME NEW c \in Callers, BlockInc(c) PROVE CancelInv'
    BY <2>8 DEF BlockInc
  <2>9. ASSUME NEW c \in Callers, BlockNotify(c) PROVE CancelInv'
    BY Zenon, <2>9 DEF BlockNotify
  <2>10. ASSUME NEW t \in Tasks, TaskBirth(t) PROVE CancelInv'
    BY <2>10 DEF TaskBirth
  <2>11. ASSUME NEW t \in Tasks, TaskStep(t) PROVE CancelInv'
    BY Zenon, <2>11 DEF TaskStep, TaskRegister, TaskCheck, TaskAwait, TaskWake
  <2>12. CASE UNCHANGED <<gateVars, pc, taskVars>>
    BY Zenon, <2>12
  <2> QED
    BY Zenon, <2>1, <2>2, <2>3, <2>4, <2>5, <2>6, <2>7, <2>8, <2>9, <2>10, <2>11,
       <2>12 DEF Next, CallerBegin, CallerStep, vars
<1>3. CancelInv => BlockCancels
  BY Zenon DEF CancelInv
<1> QED
  BY <1>1, <1>2, <1>3, TypeCorrect, PTL DEF Spec

(***************************************************************************)
(* Refinement.  A call takes effect at one step; the edge it adds to the   *)
(* abstract gate is owed until its generation step pays it, so the sum     *)
(* Edges counts it exactly once.                                           *)
(***************************************************************************)
Owing == {c \in Callers : OwesEdge(c)}

\* What callers owe is finite, so it can be counted.
LEMMA OwingFinite == IsFiniteSet(Owing) /\ Cardinality(Owing) \in Nat
  BY Zenon, GateAssumption, FS_Subset, FS_CardinalityType DEF Owing, GateAssumption

\* A step that makes one caller owe an edge adds one to what is owed.
LEMMA OwesOneMore ==
  ASSUME TypeOK, NEW c \in Callers, ~OwesEdge(c), OwesEdge(c)',
         \A d \in Callers \ {c} : pc'[d] = pc[d]
  PROVE Cardinality(Owing') = Cardinality(Owing) + 1
<1>1. Owing' = Owing \cup {c}
  BY Zenon DEF Owing, OwesEdge
<1>2. c \notin Owing
  BY Zenon DEF Owing
<1> QED
  BY Zenon, <1>1, <1>2, OwingFinite, FS_AddElement

\* A step that pays one caller's edge takes one from what is owed.
LEMMA PaysOne ==
  ASSUME TypeOK, NEW c \in Callers, OwesEdge(c), ~OwesEdge(c)',
         \A d \in Callers \ {c} : pc'[d] = pc[d]
  PROVE Cardinality(Owing') = Cardinality(Owing) - 1
<1>1. Owing' = Owing \ {c}
  BY Zenon DEF Owing, OwesEdge
<1>2. c \in Owing
  BY Zenon DEF Owing
<1> QED
  BY Zenon, <1>1, <1>2, OwingFinite, FS_RemoveElement

\* A step that changes no caller's debt changes no sum.
LEMMA OwesTheSame ==
  ASSUME \A c \in Callers : OwesEdge(c)' = OwesEdge(c)
  PROVE Owing' = Owing
BY Zenon DEF Owing

\* stop() sets stopped before its block stores, and nothing clears it.
StopInv == \A c \in Callers : pc[c] = "stop_store" => stopped

\* Whoever stores for stop() has set stopped first (ContainmentGate::stop).
LEMMA StopIsSticky == Spec => []StopInv
<1>1. Init => StopInv
  BY Zenon DEF Init, StopInv
<1>2. TypeOK /\ StopInv /\ [Next]_vars => StopInv'
  <2> SUFFICES ASSUME TypeOK, StopInv, [Next]_vars,
                      NEW c \in Callers, pc'[c] = "stop_store"
               PROVE stopped'
    BY Zenon DEF StopInv
  <2> USE DEF TypeOK, StopInv, Goto, gateVars
  <2>1. ASSUME NEW d \in Callers, CallerBegin(d) PROVE stopped'
    BY Zenon, <2>1 DEF CallerBegin, AllowBegin, BlockBegin, StopBegin
  <2>2. ASSUME NEW d \in Callers, CallerStep(d) PROVE stopped'
    BY Zenon, <2>2 DEF CallerStep, AllowSwap, AllowInc, AllowNotify, BlockStore,
                BlockInc, BlockNotify
  <2>3. CASE UNCHANGED <<gateVars, pc>>
    BY Zenon, <2>3
  <2> QED
    BY Zenon, <2>1, <2>2, <2>3
       DEF Next, TaskBirth, TaskStep, TaskRegister, TaskCheck, TaskAwait,
           TaskWake, vars
<1> QED
  BY <1>1, <1>2, TypeCorrect, PTL DEF Spec

\* allow, block and stop implement the atomic gate: traffic opens only by an
\* allow before the stop, closes at a block or a stop, and every such effect is
\* one edge.
THEOREM GateRefines == Spec => ImplementsTrafficGate
<1>1. Init => Gate!Init
  <2> SUFFICES ASSUME Init PROVE Gate!Init
    BY Zenon
  <2>1. Owing = {}
    BY Zenon DEF Init, Owing, OwesEdge
  <2>2. Cardinality(Owing) = 0
    BY Zenon, <2>1, FS_EmptySet
  <2> QED
    BY <2>2 DEF Init, Gate!Init, Open, Edges, Owing
<1>2. TypeOK /\ StopInv /\ [Next]_vars => [Gate!Next]_(Gate!vars)
  <2> SUFFICES ASSUME TypeOK, StopInv, [Next]_vars PROVE [Gate!Next]_(Gate!vars)
    BY Zenon
  <2> USE DEF Gate!Next, Gate!vars, Gate!Allow, Gate!Block, Gate!Stop,
              Gate!LateAllow, Open, Goto
  <2>0. /\ Edges = generation + Cardinality(Owing)
        /\ Edges' = generation' + Cardinality(Owing')
        /\ generation \in Nat
        /\ Cardinality(Owing) \in Nat
    BY Zenon, OwingFinite DEF Edges, Owing, TypeOK
  <2>1. ASSUME NEW c \in Callers, AllowBegin(c) \/ BlockBegin(c)
                                  \/ AllowNotify(c) \/ BlockNotify(c)
        PROVE UNCHANGED Gate!vars
    <3>1. \A d \in Callers : OwesEdge(d)' = OwesEdge(d)
      BY <2>1 DEF AllowBegin, BlockBegin, AllowNotify, BlockNotify, OwesEdge,
                  TypeOK
    <3> QED
      BY <2>0, <2>1, <3>1, OwesTheSame
         DEF AllowBegin, BlockBegin, AllowNotify, BlockNotify, gateVars
  <2>2. ASSUME NEW c \in Callers, AllowSwap(c) PROVE [Gate!Next]_(Gate!vars)
    <3>1. CASE allowed
      <4>1. \A d \in Callers : OwesEdge(d)' = OwesEdge(d)
        BY <2>2, <3>1 DEF AllowSwap, OwesEdge, TypeOK
      <4> QED
        BY Zenon, <2>0, <2>2, <3>1, <4>1, OwesTheSame DEF AllowSwap
    <3>2. CASE ~allowed
      <4>1. Cardinality(Owing') = Cardinality(Owing) + 1
        <5>1. ~OwesEdge(c) /\ OwesEdge(c)'
          BY Zenon, <2>2, <3>2 DEF AllowSwap, OwesEdge, TypeOK
        <5>2. \A d \in Callers \ {c} : pc'[d] = pc[d]
          BY Zenon, <2>2, <3>2 DEF AllowSwap, TypeOK
        <5> QED
          BY Zenon, <5>1, <5>2, OwesOneMore
      <4>2. Edges' = Edges + 1
        BY <2>0, <2>2, <4>1 DEF AllowSwap
      <4> QED
        BY Zenon, <2>2, <3>2, <4>2 DEF AllowSwap
    <3> QED
      BY Zenon, <3>1, <3>2
  <2>3. ASSUME NEW c \in Callers, AllowInc(c) \/ BlockInc(c)
        PROVE UNCHANGED Gate!vars
    <3>1. Cardinality(Owing') = Cardinality(Owing) - 1
      <4>1. OwesEdge(c) /\ ~OwesEdge(c)'
        BY Zenon, <2>3 DEF AllowInc, BlockInc, OwesEdge, TypeOK
      <4>2. \A d \in Callers \ {c} : pc'[d] = pc[d]
        BY Zenon, <2>3 DEF AllowInc, BlockInc, TypeOK
      <4> QED
        BY Zenon, <4>1, <4>2, PaysOne
    <3>2. Edges' = Edges
      BY <2>0, <2>3, <3>1 DEF AllowInc, BlockInc
    <3> QED
      BY <2>3, <3>2 DEF AllowInc, BlockInc
  <2>4. ASSUME NEW c \in Callers, BlockStore(c)
        PROVE [Gate!Next]_(Gate!vars)
    <3>1. CASE pc[c] = "block_store"
      <4>1. Cardinality(Owing') = Cardinality(Owing) + 1
        <5>1. ~OwesEdge(c) /\ OwesEdge(c)'
          BY Zenon, <2>4, <3>1 DEF BlockStore, OwesEdge, TypeOK
        <5>2. \A d \in Callers \ {c} : pc'[d] = pc[d]
          BY Zenon, <2>4 DEF BlockStore, TypeOK
        <5> QED
          BY Zenon, <5>1, <5>2, OwesOneMore
      <4>2. Edges' = Edges + 1
        BY <2>0, <2>4, <4>1 DEF BlockStore
      <4> QED
        BY Zenon, <2>4, <4>2 DEF BlockStore
    <3>2. CASE pc[c] = "stop_store"
      <4>1. \A d \in Callers : OwesEdge(d)' = OwesEdge(d)
        BY <2>4, <3>2 DEF BlockStore, OwesEdge, TypeOK
      <4>2. Edges' = Edges /\ stopped' = stopped
        BY Zenon, <2>0, <2>4, <4>1, OwesTheSame DEF BlockStore
      <4>3. stopped
        BY Zenon, <3>2 DEF StopInv
      <4> QED
        BY Zenon, <2>4, <4>2, <4>3 DEF BlockStore
    <3> QED
      BY Zenon, <2>4, <3>1, <3>2 DEF BlockStore
  <2>5. ASSUME NEW c \in Callers, StopBegin(c) PROVE [Gate!Next]_(Gate!vars)
    <3>1. Cardinality(Owing') = Cardinality(Owing) + 1
      <4>1. ~OwesEdge(c) /\ OwesEdge(c)'
        BY Zenon, <2>5 DEF StopBegin, OwesEdge, TypeOK
      <4>2. \A d \in Callers \ {c} : pc'[d] = pc[d]
        BY Zenon, <2>5 DEF StopBegin, TypeOK
      <4> QED
        BY Zenon, <4>1, <4>2, OwesOneMore
    <3>2. Edges' = Edges + 1
      BY <2>0, <2>5, <3>1 DEF StopBegin
    <3> QED
      BY Zenon, <2>5, <3>2 DEF StopBegin
  <2>6. CASE UNCHANGED <<gateVars, pc>>
    <3>1. \A d \in Callers : OwesEdge(d)' = OwesEdge(d)
      BY Zenon, <2>6 DEF OwesEdge
    <3> QED
      BY Zenon, <2>0, <2>6, <3>1, OwesTheSame DEF gateVars
  <2> QED
    BY Zenon, <2>1, <2>2, <2>3, <2>4, <2>5, <2>6
       DEF Next, CallerBegin, CallerStep, TaskBirth, TaskStep, TaskRegister,
           TaskCheck, TaskAwait, TaskWake, vars
<1> QED
  BY <1>1, <1>2, TypeCorrect, StopIsSticky, PTL
     DEF Spec, Gate!Spec, ImplementsTrafficGate

-----------------------------------------------------------------------------
(***************************************************************************)
(* The piece round.                                                        *)
(*                                                                         *)
(* ReservationsMatch is inductive but for one fact: a session writes a     *)
(* piece only in the step "writing", so that the piece it verifies next    *)
(* does not take the place of another.  AvailabilityMatches needs that a   *)
(* session which has not connected yet has announced nothing.              *)
(***************************************************************************)

RoundInv ==
  /\ PrTypeOK
  /\ ReservationsMatch
  /\ AvailabilityMatches
  /\ OnePlace

-----------------------------------------------------------------------------
(* A session's downloads are a function from some pieces to downloads. *)
LEMMA DownloadsAre ==
  ASSUME NEW f
  PROVE  f \in Downloads <=> \E held \in SUBSET Pieces : f \in [held -> Download]
  BY Zenon DEF Downloads

(* So is what a session holds in a state of the right types. *)
LEMMA HeldAre ==
  ASSUME PrTypeOK, NEW s \in Rounders
  PROVE  Held(s) \in SUBSET Pieces /\ downloads[s] \in [Held(s) -> Download]
  BY DEF PrTypeOK, Held, Downloads

(* What a session asks for is counted by a natural number. *)
LEMMA InFlightIsNat ==
  ASSUME PrTypeOK, NEW s \in Rounders
  PROVE  InFlight(s) \in Nat
<1> DEFINE pairs == {x \in Held(s) \X (1 .. Blocks) : x[2] \in downloads[s][x[1]].flight}
<1>1. Held(s) \subseteq Pieces
  BY Zenon, HeldAre
<1>2. IsFiniteSet(Held(s)) /\ IsFiniteSet(1 .. Blocks)
  BY <1>1, FS_Subset, FS_Interval, RoundAssumption
<1>3. IsFiniteSet(Held(s) \X (1 .. Blocks))
  BY Zenon, <1>2, FS_Product
<1>4. pairs \subseteq Held(s) \X (1 .. Blocks)
  BY Zenon
<1>5. IsFiniteSet(pairs)
  BY Zenon, <1>3, <1>4, FS_Subset
<1> QED
  BY Zenon, <1>5, FS_CardinalityType DEF InFlight

(* send_more keeps a download well formed. *)
LEMMA SentIsDownload ==
  ASSUME NEW d \in Download, NEW room \in Nat
  PROVE  Sent(d, room) \in Download
  BY RoundAssumption DEF Download, Sent

LEMMA NoDownloadsAre == NoDownloads \in Downloads /\ DOMAIN NoDownloads = {}
<1>1. NoDownloads \in [{} -> Download]
  BY Zenon DEF NoDownloads
<1> QED
  BY Zenon, <1>1, DownloadsAre DEF NoDownloads

(* A fill's share is a count. *)
LEMMA ShareIsNat ==
  ASSUME PrTypeOK, NEW s \in Rounders
  PROVE  Least(PieceWindow, Ceiling(Cardinality(Assignable(s)), Cardinality(Rounders))) \in Nat
<1>1. IsFiniteSet(Assignable(s))
  <2>1. Assignable(s) \subseteq Pieces
    BY Zenon DEF Assignable, PrTypeOK
  <2> QED
    BY Zenon, <2>1, FS_Subset, RoundAssumption
<1>2. Cardinality(Assignable(s)) \in Nat /\ Cardinality(Rounders) \in Nat
  BY Zenon, <1>1, FS_CardinalityType, RoundAssumption
<1>3. Cardinality(Rounders) # 0
  BY Zenon, FS_EmptySet, RoundAssumption
<1>4. \A n, d \in Nat : d # 0 => (n + d - 1) \div d \in Nat
  OBVIOUS
<1>5. Ceiling(Cardinality(Assignable(s)), Cardinality(Rounders)) \in Nat
  BY Zenon, <1>2, <1>3, <1>4 DEF Ceiling
<1> QED
  BY Zenon, RoundAssumption, <1>5 DEF Least

-----------------------------------------------------------------------------
(* Type correctness, action by action.                                        *)

(* note_peer_bitfield, given that the counts are those of the peers. *)
LEMMA NoteBitfieldType ==
  ASSUME PrTypeOK, AvailabilityMatches,
         NEW s \in Rounders, NEW bits \in SUBSET Pieces, NoteBitfield(s, bits)
  PROVE  /\ peer_pieces' \in [Rounders -> SUBSET Pieces]
         /\ availability' \in [Pieces -> Nat]
<1>1. ASSUME NEW p \in Pieces, p \in peer_pieces[s] PROVE availability[p] # 0
  <2> DEFINE peers == {t \in Rounders : p \in peer_pieces[t]}
  <2>1. IsFiniteSet(peers) /\ s \in peers
    BY Zenon, <1>1, FS_Subset, RoundAssumption
  <2>2. Cardinality(peers) # 0
    BY Zenon, <2>1, FS_EmptySet
  <2> QED
    BY Zenon, <2>2 DEF AvailabilityMatches
<1> QED
  BY <1>1 DEF NoteBitfield, PrTypeOK

LEMMA TypeStep ==
  ASSUME PrTypeOK, AvailabilityMatches, [PrNext]_pr_vars
  PROVE  PrTypeOK'
<1> USE DEF work, session, pr_vars
<1>1. ASSUME NEW s \in Rounders, Connect(s) PROVE PrTypeOK'
  BY Zenon, <1>1 DEF Connect, PrTypeOK, Places
<1>2. ASSUME NEW s \in Rounders, NEW bits \in Offers, Bitfield(s, bits) PROVE PrTypeOK'
  <2>1. /\ peer_pieces' \in [Rounders -> SUBSET Pieces]
        /\ availability' \in [Pieces -> Nat]
    BY Zenon, RoundAssumption, <1>2, NoteBitfieldType DEF Bitfield
  <2> QED
    BY Zenon, <1>2, <2>1 DEF Bitfield, PrTypeOK
<1>3. ASSUME NEW s \in Rounders, NEW p \in Pieces, PeerHas(s, p) PROVE PrTypeOK'
  <2>0. peer_pieces[s] \cup {p} \in SUBSET Pieces
    BY Zenon DEF PrTypeOK
  <2>1. /\ peer_pieces' \in [Rounders -> SUBSET Pieces]
        /\ availability' \in [Pieces -> Nat]
    BY Zenon, <1>3, <2>0, NoteBitfieldType DEF PeerHas, NoteHave
  <2> QED
    BY Zenon, <1>3, <2>1 DEF PeerHas, PrTypeOK
<1>4. ASSUME NEW s \in Rounders, Unchoke(s) \/ Choke(s) PROVE PrTypeOK'
  BY Zenon, <1>4 DEF Unchoke, Choke, PrTypeOK
<1>r. ASSUME NEW s \in Rounders, RemovePeer(s)
      PROVE  /\ peer_pieces' \in [Rounders -> SUBSET Pieces]
             /\ availability' \in [Pieces -> Nat]
  BY Zenon, <1>r, NoteBitfieldType DEF RemovePeer
<1>5. ASSUME NEW s \in Rounders, EndSession(s) PROVE PrTypeOK'
  <2>1. /\ peer_pieces' \in [Rounders -> SUBSET Pieces]
        /\ availability' \in [Pieces -> Nat]
    BY Zenon, <1>5, <1>r DEF EndSession
  <2> QED
    BY Zenon, <1>5, <2>1 DEF EndSession, PrTypeOK, Places
<1>6. ASSUME NEW s \in Rounders, StartFill(s) PROVE PrTypeOK'
  BY Zenon, <1>6, ShareIsNat DEF StartFill, PrTypeOK, Places
<1>7. ASSUME NEW s \in Rounders, NEW p \in Pieces, Reserve(s, p) PROVE PrTypeOK'
  <2>1. PICK budget \in Budgets :
          /\ InFlight(s) < budget
          /\ downloads' = [downloads EXCEPT ![s] = With(s, p, Begun(s, budget))]
    BY Zenon, <1>7 DEF Reserve
  <2>2. Begun(s, budget) \in Download
    <3>1. budget - InFlight(s) \in Nat
      BY <2>1, InFlightIsNat, RoundAssumption
    <3>2. [next |-> 0, flight |-> {}] \in Download
      <4>1. 0 \in 0 .. Blocks
        BY RoundAssumption
      <4> QED BY Zenon, <4>1 DEF Download
    <3> QED
      BY Zenon, <3>1, <3>2, SentIsDownload DEF Begun
  <2>3. With(s, p, Begun(s, budget)) \in [Held(s) \cup {p} -> Download]
    BY Zenon, <2>2, HeldAre DEF With
  <2>4. With(s, p, Begun(s, budget)) \in Downloads
    BY Zenon, <2>3, HeldAre, DownloadsAre
  <2>5. downloads' \in [Rounders -> Downloads]
    BY Zenon, <2>1, <2>4 DEF PrTypeOK
  <2> QED
    BY Zenon, <1>7, <2>5 DEF Reserve, PrTypeOK
<1>8. ASSUME NEW s \in Rounders, Leave(s) PROVE PrTypeOK'
  <2>1. /\ peer_pieces' \in [Rounders -> SUBSET Pieces]
        /\ availability' \in [Pieces -> Nat]
    BY Zenon, <1>8, <1>r DEF Leave
  <2>2. downloads' \in [Rounders -> Downloads]
    BY Zenon, <1>8, NoDownloadsAre DEF Leave, PrTypeOK
  <2> QED
    BY Zenon, <1>8, <2>1, <2>2 DEF Leave, PrTypeOK, Places
<1>9. ASSUME NEW s \in Rounders, FillEnds(s) PROVE PrTypeOK'
  <2>1. CASE Leave(s)
    BY Zenon, <1>8, <2>1
  <2>2. CASE ~Leave(s)
    <3>1. received' = [received EXCEPT ![s] = received[s] /\ Held(s) # {}]
      BY Zenon, <1>9, <2>2 DEF FillEnds, PrTypeOK
    <3>2. received' \in [Rounders -> BOOLEAN]
      BY <3>1, Zenon DEF PrTypeOK
    <3> QED
      BY <1>9, <2>2, <3>2 DEF FillEnds, PrTypeOK, Places
  <2> QED
    BY Zenon, <2>1, <2>2
<1>10. ASSUME NEW s \in Rounders, FillFails(s) PROVE PrTypeOK'
  <2>1. CASE Leave(s)
    BY Zenon, <1>8, <2>1
  <2>2. CASE ~Leave(s)
    BY <1>10, <2>2 DEF FillFails, PrTypeOK, Places
  <2> QED
    BY Zenon, <2>1, <2>2
<1>11. ASSUME NEW s \in Rounders, NEW p \in Pieces, NEW o \in 1 .. Blocks, Block(s, p, o)
       PROVE  PrTypeOK'
  <2> DEFINE d == [downloads[s][p] EXCEPT !.flight = @ \ {o}]
  <2>1. p \in Held(s) /\ downloads[s] \in [Held(s) -> Download] /\ Held(s) \in SUBSET Pieces
    BY Zenon, <1>11, HeldAre DEF Block
  <2>2. d \in Download
    BY Zenon, <2>1 DEF Download
  <2>3. PICK room \in Nat : downloads' = [downloads EXCEPT ![s][p] = Sent(d, room)]
    <3>1. PICK budget \in Budgets :
            downloads' = [downloads EXCEPT ![s][p] = Sent(d,
              IF budget > InFlight(s) - 1 THEN budget - (InFlight(s) - 1) ELSE 0)]
      BY Zenon, <1>11 DEF Block
    <3>2. (IF budget > InFlight(s) - 1 THEN budget - (InFlight(s) - 1) ELSE 0) \in Nat
      BY InFlightIsNat, RoundAssumption
    <3> QED
      BY Zenon, <3>1, <3>2
  <2>4. Sent(d, room) \in Download
    BY Zenon, <2>2, SentIsDownload
  <2>5. [downloads[s] EXCEPT ![p] = Sent(d, room)] \in [Held(s) -> Download]
    BY Zenon, <2>1, <2>4
  <2>6. downloads' \in [Rounders -> Downloads]
    BY Zenon, <2>1, <2>3, <2>5, DownloadsAre DEF PrTypeOK
  <2> QED
    BY Zenon, <1>11, <2>6 DEF Block, PrTypeOK
<1>12. ASSUME NEW s \in Rounders, NEW p \in Pieces, NEW o, LastBlock(s, p, o)
       PROVE  downloads' \in [Rounders -> Downloads]
  <2>1. Without(s, p) \in [Held(s) \ {p} -> Download] /\ Held(s) \in SUBSET Pieces
    BY Zenon, HeldAre DEF Without
  <2>2. Without(s, p) \in Downloads
    BY Zenon, <2>1, DownloadsAre
  <2> QED
    BY Zenon, <1>12, <2>2 DEF LastBlock, PrTypeOK
<1>13. ASSUME NEW s \in Rounders, NEW p \in Pieces, NEW o \in 1 .. Blocks,
              Verified(s, p, o) \/ HashMismatch(s, p, o)
       PROVE  PrTypeOK'
  <2>1. downloads' \in [Rounders -> Downloads]
    BY Zenon, <1>12, <1>13 DEF Verified, HashMismatch
  <2> QED
    <3>1. CASE Verified(s, p, o)
      BY Zenon, <2>1, <3>1 DEF Verified, PrTypeOK, Places
    <3>2. CASE HashMismatch(s, p, o)
      <4>1. received' \in [Rounders -> BOOLEAN]
        BY <3>2, Zenon DEF HashMismatch, PrTypeOK
      <4> QED
        BY Zenon, <2>1, <3>2, <4>1 DEF HashMismatch, PrTypeOK, Places
    <3> QED
      BY Zenon, <1>13, <3>1, <3>2
<1>14. ASSUME NEW s \in Rounders, WritePiece(s) PROVE PrTypeOK'
  BY Zenon, <1>14 DEF WritePiece, PrTypeOK, Places
<1>15. ASSUME NEW s \in Rounders, WindowEnds(s) PROVE PrTypeOK'
  <2>1. CASE Leave(s)
    BY Zenon, <1>8, <2>1
  <2>2. CASE ~Leave(s)
    <3>1. downloads' \in [Rounders -> Downloads]
      BY Zenon, <1>15, <2>2, NoDownloadsAre DEF WindowEnds, PrTypeOK
    <3> QED
      BY Zenon, <1>15, <2>2, <3>1 DEF WindowEnds, PrTypeOK, Places
  <2> QED
    BY Zenon, <2>1, <2>2
<1>16. ASSUME RoundEnds PROVE PrTypeOK'
  BY Zenon, <1>16, NoDownloadsAre DEF RoundEnds, PrTypeOK, Places
<1>17. ASSUME UNCHANGED pr_vars PROVE PrTypeOK'
  BY Zenon, <1>17 DEF PrTypeOK
<1> QED
  BY Zenon, <1>1, <1>2, <1>3, <1>4, <1>5, <1>6, <1>7, <1>8, <1>9, <1>10, <1>11, <1>13,
     <1>14, <1>15, <1>16, <1>17 DEF PrNext, Step, Peer, Own, WriteFails

-----------------------------------------------------------------------------
(* ReservationsMatch, from what a step does to the pieces each session works  *)
(* on: `held` and `writing` are its pieces after the step.                     *)

(* A step that leaves the work of every session, and what is written, alone. *)
LEMMA SameWork ==
  ASSUME ReservationsMatch, UNCHANGED <<have, reserved, downloads, current>>
  PROVE  ReservationsMatch'
  BY Zenon DEF ReservationsMatch, Working, Held

(* A step of one session that gives pieces back and takes no new one. *)
LEMMA GivesBack ==
  ASSUME PrTypeOK, ReservationsMatch, NEW s \in Rounders,
         NEW held \in SUBSET Held(s), NEW writing \in SUBSET Working(s),
         held \cap writing = {},
         Held(s)' = held, current'[s] = writing,
         \A t \in Rounders \ {s} : Held(t)' = Held(t) /\ current'[t] = current[t],
         reserved' = reserved \ (Working(s) \ (held \cup writing)),
         have' \subseteq have \cup (Working(s) \ (held \cup writing))
  PROVE  ReservationsMatch'
<1>1. \A t \in Rounders : t # s => Working(t)' = Working(t)
  BY Zenon DEF Working
<1>2. Working(s)' = held \cup writing /\ Working(s)' \subseteq Working(s)
  BY Zenon DEF Working
<1>3. \A t \in Rounders : t # s => Working(s) \cap Working(t) = {}
  BY Zenon DEF ReservationsMatch
<1>4. reserved' = UNION {Working(t)' : t \in Rounders}
  <2>1. \A p : p \in reserved <=> \E t \in Rounders : p \in Working(t)
    BY ZenonT(40) DEF ReservationsMatch
  <2>2. \A p : p \in reserved' <=> \E t \in Rounders : p \in Working(t)'
    BY <1>1, <1>2, <1>3, <2>1
  <2> QED
    BY <2>2
<1>5. \A t, u \in Rounders : t # u => Working(t)' \cap Working(u)' = {}
  BY <1>1, <1>2, <1>3 DEF ReservationsMatch
<1>6. \A t \in Rounders : Held(t)' \cap have' = {} /\ current'[t] \cap Held(t)' = {}
  <2> TAKE t \in Rounders
  <2>1. Held(t) \cap have = {} /\ current[t] \cap Held(t) = {}
    BY Zenon DEF ReservationsMatch
  <2>2. CASE t = s
    BY Zenon, <2>1, <2>2
  <2>3. CASE t # s
    BY <1>3, <2>1, <2>3 DEF Working
  <2> QED
    BY Zenon, <2>2, <2>3
<1> QED
  BY Zenon, <1>4, <1>5, <1>6 DEF ReservationsMatch

(* Every way out of a session gives back all it works on. *)
LEMMA LeaveMatches ==
  ASSUME PrTypeOK, ReservationsMatch, NEW s \in Rounders, Leave(s)
  PROVE  ReservationsMatch'
<1>1. Held(s)' = {} /\ current'[s] = {}
  BY Zenon, NoDownloadsAre DEF Leave, PrTypeOK, Held
<1>2. \A t \in Rounders \ {s} : Held(t)' = Held(t) /\ current'[t] = current[t]
  BY Zenon DEF Leave, PrTypeOK, Held
<1>3. reserved' = reserved \ (Working(s) \ ({} \cup {})) /\ have' = have
  BY Zenon DEF Leave, Working
<1> QED
  BY Zenon, <1>1, <1>2, <1>3, GivesBack

LEMMA ReservationsStep ==
  ASSUME PrTypeOK, ReservationsMatch, OnePlace, [PrNext]_pr_vars
  PROVE  ReservationsMatch'
<1> USE DEF work, session, pr_vars
<1>1. ASSUME NEW s \in Rounders,
             \/ Connect(s) \/ Unchoke(s) \/ Choke(s) \/ EndSession(s) \/ StartFill(s)
             \/ \E bits \in Offers : Bitfield(s, bits)
             \/ \E p \in Pieces : PeerHas(s, p)
      PROVE  ReservationsMatch'
  <2>1. UNCHANGED <<have, reserved, downloads, current>>
    BY Zenon, <1>1 DEF Connect, Unchoke, Choke, EndSession, StartFill, Bitfield, PeerHas
  <2> QED
    BY Zenon, <2>1, SameWork
<1>2. ASSUME NEW s \in Rounders, NEW p \in Pieces, Reserve(s, p) PROVE ReservationsMatch'
  <2>1. p \notin reserved /\ p \notin have
    BY Zenon, <1>2 DEF Reserve, Best, Assignable
  <2>2. Held(s)' = Held(s) \cup {p} /\ current' = current /\ have' = have
    BY <1>2 DEF Reserve, PrTypeOK, Held, With
  <2>3. \A t \in Rounders \ {s} : Held(t)' = Held(t)
    BY Zenon, <1>2 DEF Reserve, PrTypeOK, Held
  <2>4. reserved' = reserved \cup {p}
    BY Zenon, <1>2 DEF Reserve
  <2>5. \A t \in Rounders : p \notin Working(t)
    BY Zenon, <2>1 DEF ReservationsMatch
  <2>6. \A t \in Rounders : Working(t)' = IF t = s THEN Working(t) \cup {p} ELSE Working(t)
    BY Zenon, <2>2, <2>3 DEF Working
  <2>7. reserved' = UNION {Working(t)' : t \in Rounders}
    BY <2>4, <2>6 DEF ReservationsMatch
  <2>8. \A t, u \in Rounders : t # u => Working(t)' \cap Working(u)' = {}
    BY <2>5, <2>6 DEF ReservationsMatch
  <2>9. \A t \in Rounders : Held(t)' \cap have' = {} /\ current'[t] \cap Held(t)' = {}
    BY <2>1, <2>2, <2>3, <2>5 DEF ReservationsMatch, Working
  <2> QED
    BY Zenon, <2>7, <2>8, <2>9 DEF ReservationsMatch
<1>3. ASSUME NEW s \in Rounders, FillEnds(s) \/ FillFails(s) PROVE ReservationsMatch'
  <2>1. CASE Leave(s)
    BY Zenon, <2>1, LeaveMatches
  <2>2. CASE ~Leave(s)
    <3>1. UNCHANGED <<have, reserved, downloads, current>>
      BY Zenon, <1>3, <2>2 DEF FillEnds, FillFails
    <3> QED
      BY Zenon, <3>1, SameWork
  <2> QED
    BY Zenon, <2>1, <2>2
<1>4. ASSUME NEW s \in Rounders, NEW p \in Pieces, NEW o \in 1 .. Blocks, Block(s, p, o)
      PROVE  ReservationsMatch'
  <2>1. \A t \in Rounders : Held(t)' = Held(t)
    BY <1>4 DEF Block, PrTypeOK, Held
  <2>2. UNCHANGED <<have, reserved, current>>
    BY Zenon, <1>4 DEF Block
  <2> QED
    BY Zenon, <2>1, <2>2 DEF ReservationsMatch, Working
<1>5. ASSUME NEW s \in Rounders, NEW p \in Pieces, NEW o, LastBlock(s, p, o)
      PROVE  /\ p \in Held(s) /\ Held(s)' = Held(s) \ {p}
             /\ \A t \in Rounders \ {s} : Held(t)' = Held(t)
  BY Zenon, <1>5 DEF LastBlock, PrTypeOK, Held, Without
<1>6. ASSUME NEW s \in Rounders, NEW p \in Pieces, NEW o \in 1 .. Blocks, Verified(s, p, o)
      PROVE  ReservationsMatch'
  <2>1. current[s] = {}
    BY Zenon, <1>6 DEF Verified, LastBlock, OnePlace
  <2>2. /\ p \in Held(s) /\ Held(s)' = Held(s) \ {p} /\ current'[s] = {p}
        /\ \A t \in Rounders \ {s} : Held(t)' = Held(t) /\ current'[t] = current[t]
    BY Zenon, <1>5, <1>6 DEF Verified, PrTypeOK
  <2>3. reserved' = reserved \ (Working(s) \ ((Held(s) \ {p}) \cup {p})) /\ have' = have
    BY Zenon, <1>6, <2>1, <2>2 DEF Verified, Working
  <2>4. {p} \in SUBSET Working(s)
    BY Zenon, <2>2 DEF Working
  <2> QED
    BY <2>2, <2>3, <2>4, GivesBack
<1>7. ASSUME NEW s \in Rounders, NEW p \in Pieces, NEW o \in 1 .. Blocks, HashMismatch(s, p, o)
      PROVE  ReservationsMatch'
  <2>1. current[s] = {}
    BY Zenon, <1>7 DEF HashMismatch, LastBlock, OnePlace
  <2>2. /\ p \in Held(s) /\ Held(s)' = Held(s) \ {p} /\ current' = current
        /\ \A t \in Rounders \ {s} : Held(t)' = Held(t)
    BY Zenon, <1>5, <1>7 DEF HashMismatch
  <2>3. reserved' = reserved \ (Working(s) \ ((Held(s) \ {p}) \cup {})) /\ have' = have
    BY Zenon, <1>7, <2>1, <2>2 DEF HashMismatch, Working
  <2> QED
    BY Zenon, <2>1, <2>2, <2>3, GivesBack
<1>8. ASSUME NEW s \in Rounders, WritePiece(s) PROVE ReservationsMatch'
  <2>1. /\ Held(s)' = Held(s) /\ current'[s] = {}
        /\ \A t \in Rounders \ {s} : Held(t)' = Held(t) /\ current'[t] = current[t]
    BY Zenon, <1>8 DEF WritePiece, PrTypeOK, Held
  <2>2. Working(s) \ (Held(s) \cup {}) = current[s]
    BY Zenon DEF Working, ReservationsMatch
  <2>3. reserved' = reserved \ (Working(s) \ (Held(s) \cup {}))
    BY Zenon, <1>8, <2>2 DEF WritePiece
  <2>4. have' \subseteq have \cup (Working(s) \ (Held(s) \cup {}))
    BY Zenon, <1>8, <2>2 DEF WritePiece
  <2> QED
    BY Zenon, <2>1, <2>3, <2>4, GivesBack
<1>9. ASSUME NEW s \in Rounders, WindowEnds(s) PROVE ReservationsMatch'
  <2>1. CASE Leave(s)
    BY Zenon, <2>1, LeaveMatches
  <2>2. CASE ~Leave(s)
    <3>1. current[s] = {}
      BY Zenon, <1>9 DEF WindowEnds, OnePlace
    <3>2. /\ Held(s)' = {} /\ current' = current /\ have' = have
          /\ \A t \in Rounders \ {s} : Held(t)' = Held(t)
      BY Zenon, <1>9, <2>2, NoDownloadsAre DEF WindowEnds, PrTypeOK, Held
    <3>3. reserved' = reserved \ (Working(s) \ ({} \cup {}))
      BY Zenon, <1>9, <2>2, <3>1 DEF WindowEnds, Working
    <3> QED
      BY Zenon, <3>1, <3>2, <3>3, GivesBack
  <2> QED
    BY Zenon, <2>1, <2>2
<1>10. ASSUME RoundEnds PROVE ReservationsMatch'
  <2>1. \A t \in Rounders : Held(t)' = {} /\ current'[t] = {}
    <3>1. /\ downloads' = [t \in Rounders |-> NoDownloads]
          /\ current' = [t \in Rounders |-> {}]
      BY Zenon, <1>10 DEF RoundEnds
    <3> QED BY Zenon, <3>1, NoDownloadsAre DEF Held
  <2>2. reserved' = {}
    BY Zenon, <1>10 DEF RoundEnds
  <2> QED
    BY <2>1, <2>2 DEF ReservationsMatch, Working
<1>11. ASSUME UNCHANGED pr_vars PROVE ReservationsMatch'
  BY Zenon, <1>11, SameWork
<1> QED
  BY Zenon, <1>1, <1>2, <1>3, <1>4, <1>6, <1>7, <1>8, <1>9, <1>10, <1>11, LeaveMatches
     DEF PrNext, Step, Peer, Own, WriteFails

-----------------------------------------------------------------------------
(* AvailabilityMatches: note_peer_bitfield moves one peer in or out of the    *)
(* peers of each piece.                                                       *)

Offering(p) == {s \in Rounders : p \in peer_pieces[s]}

LEMMA NoteBitfieldCounts ==
  ASSUME PrTypeOK, AvailabilityMatches,
         NEW s \in Rounders, NEW bits \in SUBSET Pieces, NoteBitfield(s, bits)
  PROVE  /\ \A p \in Pieces : availability'[p] = Cardinality(Offering(p)')
         /\ \A t \in Rounders : peer_pieces'[t] = IF t = s THEN bits ELSE peer_pieces[t]
<1>0. \A t \in Rounders : peer_pieces'[t] = IF t = s THEN bits ELSE peer_pieces[t]
  BY Zenon DEF NoteBitfield, PrTypeOK
<1>1. ASSUME NEW p \in Pieces PROVE availability'[p] = Cardinality(Offering(p)')
  <2> DEFINE others == Offering(p) \ {s}
  <2>1. IsFiniteSet(others) /\ IsFiniteSet(Offering(p)) /\ s \notin others
    <3>1. others \subseteq Rounders /\ Offering(p) \subseteq Rounders /\ s \notin others
      BY Zenon DEF Offering
    <3> QED
      BY Zenon, <3>1, FS_Subset, RoundAssumption
  <2>2. Cardinality(others) \in Nat /\ Cardinality(others \cup {s}) = Cardinality(others) + 1
    BY Zenon, <2>1, FS_CardinalityType, FS_AddElement
  <2>3. Offering(p) = IF p \in peer_pieces[s] THEN others \cup {s} ELSE others
    BY Zenon DEF Offering
  <2>4. Offering(p)' = IF p \in bits THEN others \cup {s} ELSE others
    BY Zenon, <1>0 DEF Offering
  <2>5. availability[p] = Cardinality(Offering(p))
    BY Zenon DEF AvailabilityMatches, Offering
  <2>6. availability'[p] = availability[p] - (IF p \in peer_pieces[s] THEN 1 ELSE 0)
                             + (IF p \in bits THEN 1 ELSE 0)
    BY Zenon DEF NoteBitfield
  <2> HIDE DEF others
  <2> QED
    BY <2>2, <2>3, <2>4, <2>5, <2>6
<1> QED
  BY Zenon, <1>0, <1>1

LEMMA RemovePeerCounts ==
  ASSUME PrTypeOK, AvailabilityMatches, NEW s \in Rounders, RemovePeer(s),
         \A t \in Rounders \ {s} : at'[t] = at[t]
  PROVE  AvailabilityMatches'
<1>1. /\ \A p \in Pieces : availability'[p] = Cardinality(Offering(p)')
      /\ \A t \in Rounders : peer_pieces'[t] = IF t = s THEN {} ELSE peer_pieces[t]
  BY ZenonT(40), NoteBitfieldCounts DEF RemovePeer
<1> QED
  BY Zenon, <1>1 DEF AvailabilityMatches, Offering

(* A step that changes no peer's pieces, and ends only a session without any. *)
LEMMA SamePeers ==
  ASSUME AvailabilityMatches, UNCHANGED <<availability, peer_pieces>>,
         \A t \in Rounders : at'[t] = "ended" => at[t] = "ended" \/ peer_pieces[t] = {}
  PROVE  AvailabilityMatches'
  BY Zenon DEF AvailabilityMatches

LEMMA AvailabilityStep ==
  ASSUME PrTypeOK, AvailabilityMatches, OnePlace, [PrNext]_pr_vars
  PROVE  AvailabilityMatches' /\ OnePlace'
<1> USE DEF work, session, pr_vars
<1>l. ASSUME NEW s \in Rounders, Leave(s) PROVE AvailabilityMatches' /\ OnePlace'
  <2>1. AvailabilityMatches'
    BY Zenon, <1>l, RemovePeerCounts DEF Leave, PrTypeOK
  <2>2. \A t \in Rounders : peer_pieces'[t] = IF t = s THEN {} ELSE peer_pieces[t]
    BY Zenon, <1>l, NoteBitfieldCounts DEF Leave, RemovePeer
  <2> QED
    BY Zenon, <1>l, <2>1, <2>2 DEF Leave, PrTypeOK, OnePlace
<1>1. ASSUME NEW s \in Rounders, Connect(s) \/ Unchoke(s) \/ Choke(s) \/ StartFill(s)
      PROVE  AvailabilityMatches' /\ OnePlace'
  <2>1. /\ UNCHANGED <<availability, peer_pieces, current>>
        /\ \A t \in Rounders : /\ at'[t] # at[t] => at[t] = "new" \/ at'[t] \in {"fill", "refill"}
                               /\ at'[t] # at[t] => at[t] # "writing" /\ at'[t] # "new"
    BY Zenon, <1>1 DEF Connect, Unchoke, Choke, StartFill, PrTypeOK
  <2>2. AvailabilityMatches'
    BY Zenon, <2>1, SamePeers DEF OnePlace
  <2> QED
    BY Zenon, <2>1, <2>2 DEF OnePlace
<1>2. ASSUME NEW s \in Rounders, NEW bits \in SUBSET Pieces, Listening(s), NoteBitfield(s, bits),
             UNCHANGED <<at, current>>
      PROVE  AvailabilityMatches' /\ OnePlace'
  <2>1. /\ \A p \in Pieces : availability'[p] = Cardinality(Offering(p)')
        /\ \A t \in Rounders : peer_pieces'[t] = IF t = s THEN bits ELSE peer_pieces[t]
    BY Zenon, <1>2, NoteBitfieldCounts
  <2>2. at' = at /\ current' = current /\ at[s] # "new" /\ at[s] # "ended"
    BY Zenon, <1>2 DEF Listening
  <2>3. OnePlace'
    BY Zenon, <2>1, <2>2 DEF OnePlace
  <2>4. \A t \in Rounders : at'[t] = "ended" => peer_pieces'[t] = {}
    BY Zenon, <2>1, <2>2 DEF AvailabilityMatches
  <2> QED
    BY Zenon, <2>1, <2>3, <2>4 DEF AvailabilityMatches, Offering
<1>3. ASSUME NEW s \in Rounders,
             (\E bits \in Offers : Bitfield(s, bits)) \/ (\E p \in Pieces : PeerHas(s, p))
      PROVE  AvailabilityMatches' /\ OnePlace'
  <2>1. PICK bits \in SUBSET Pieces : NoteBitfield(s, bits)
    BY ZenonT(40), RoundAssumption, <1>3 DEF Bitfield, PeerHas, NoteHave, PrTypeOK
  <2>2. Listening(s) /\ UNCHANGED <<at, current>>
    BY Zenon, <1>3 DEF Bitfield, PeerHas
  <2> QED
    BY Zenon, <1>2, <2>1, <2>2
<1>4. ASSUME NEW s \in Rounders, EndSession(s) PROVE AvailabilityMatches' /\ OnePlace'
  <2>1. AvailabilityMatches'
    BY Zenon, <1>4, RemovePeerCounts DEF EndSession, PrTypeOK
  <2>2. \A t \in Rounders : peer_pieces'[t] = IF t = s THEN {} ELSE peer_pieces[t]
    BY Zenon, <1>4, NoteBitfieldCounts DEF EndSession, RemovePeer
  <2> QED
    BY Zenon, <1>4, <2>1, <2>2 DEF EndSession, PrTypeOK, OnePlace
<1>5. ASSUME NEW s \in Rounders, (\E p \in Pieces : Reserve(s, p)) \/ FillEnds(s) \/ FillFails(s)
      PROVE  AvailabilityMatches' /\ OnePlace'
  <2>1. CASE Leave(s)
    BY Zenon, <1>l, <2>1
  <2>2. CASE ~Leave(s)
    <3>1. /\ UNCHANGED <<availability, peer_pieces, current>>
          /\ \A t \in Rounders : at'[t] # at[t] => at[t] \in {"fill", "refill"} /\ at'[t] \in {"wait", "window"}
      BY Zenon, <1>5, <2>2 DEF Reserve, FillEnds, FillFails, Filling, PrTypeOK
    <3>2. AvailabilityMatches'
      BY Zenon, <3>1, SamePeers
    <3> QED
      BY Zenon, <3>1, <3>2 DEF OnePlace
  <2> QED
    BY Zenon, <2>1, <2>2
<1>6. ASSUME NEW s \in Rounders, NEW p \in Pieces, NEW o \in 1 .. Blocks,
             Block(s, p, o) \/ Verified(s, p, o) \/ HashMismatch(s, p, o)
      PROVE  AvailabilityMatches' /\ OnePlace'
  <2>1. /\ UNCHANGED <<availability, peer_pieces>>
        /\ \A t \in Rounders : /\ at'[t] # at[t] => at[t] = "window" /\ at'[t] \in {"wait", "writing"}
                               /\ current'[t] # current[t] => at'[t] = "writing"
    BY Zenon, <1>6 DEF Block, Verified, HashMismatch, LastBlock, PrTypeOK
  <2>2. AvailabilityMatches'
    BY Zenon, <2>1, SamePeers
  <2> QED
    BY Zenon, <2>1, <2>2 DEF OnePlace
<1>7. ASSUME NEW s \in Rounders, WritePiece(s) PROVE AvailabilityMatches' /\ OnePlace'
  <2>1. /\ UNCHANGED <<availability, peer_pieces>>
        /\ at'[s] = "written" /\ current'[s] = {}
        /\ \A t \in Rounders \ {s} : at'[t] = at[t] /\ current'[t] = current[t]
    BY Zenon, <1>7 DEF WritePiece, PrTypeOK
  <2>2. AvailabilityMatches'
    BY Zenon, <2>1, SamePeers
  <2> QED
    BY Zenon, <2>1, <2>2 DEF OnePlace
<1>8. ASSUME NEW s \in Rounders, WindowEnds(s) PROVE AvailabilityMatches' /\ OnePlace'
  <2>1. CASE Leave(s)
    BY Zenon, <1>l, <2>1
  <2>2. CASE ~Leave(s)
    <3>1. /\ UNCHANGED <<availability, peer_pieces, current>>
          /\ \A t \in Rounders : at'[t] # at[t] => at[t] = "window" /\ at'[t] = "wait"
      BY Zenon, <1>8, <2>2 DEF WindowEnds, PrTypeOK
    <3>2. AvailabilityMatches'
      BY Zenon, <3>1, SamePeers
    <3> QED
      BY Zenon, <3>1, <3>2 DEF OnePlace
  <2> QED
    BY Zenon, <2>1, <2>2
<1>9. ASSUME RoundEnds PROVE AvailabilityMatches' /\ OnePlace'
  <2>1. /\ \A p \in Pieces : Offering(p)' = {} /\ availability'[p] = 0
        /\ \A t \in Rounders : peer_pieces'[t] = {} /\ current'[t] = {}
    BY Zenon, <1>9 DEF RoundEnds, Offering
  <2> QED
    BY Zenon, <2>1, FS_EmptySet DEF AvailabilityMatches, OnePlace, Offering
<1>10. ASSUME UNCHANGED pr_vars PROVE AvailabilityMatches' /\ OnePlace'
  BY Zenon, <1>10 DEF AvailabilityMatches, OnePlace
<1> QED
  BY Zenon, <1>l, <1>1, <1>3, <1>4, <1>5, <1>6, <1>7, <1>8, <1>9, <1>10
     DEF PrNext, Step, Peer, Own, WriteFails

-----------------------------------------------------------------------------
(* A round starts with nothing reserved and nothing announced. *)
LEMMA RoundStarts == PrInit => RoundInv
<1> SUFFICES ASSUME PrInit PROVE RoundInv
  BY Zenon
<1>1. PrTypeOK
  BY Zenon, NoDownloadsAre DEF PrInit, PrTypeOK, Places
<1>2. ReservationsMatch
  BY Zenon, NoDownloadsAre DEF PrInit, ReservationsMatch, Working, Held
<1>3. AvailabilityMatches
  <2>1. \A p \in Pieces : Offering(p) = {} /\ availability[p] = 0
    BY Zenon DEF PrInit, Offering
  <2> QED
    BY Zenon, <2>1, FS_EmptySet DEF AvailabilityMatches, Offering, PrInit
<1> QED
  BY Zenon, <1>1, <1>2, <1>3 DEF RoundInv, OnePlace, PrInit

LEMMA RoundSteps == RoundInv /\ [PrNext]_pr_vars => RoundInv'
  BY Zenon, TypeStep, ReservationsStep, AvailabilityStep DEF RoundInv

(* Through every interleaving of sessions, and on every exit of one, a piece  *)
(* is reserved exactly while one session works on it and rarest-first counts  *)
(* each connected peer once (engine/parallel.rs, ParallelPieceState).         *)
THEOREM RoundIsExact == PrSpec => [](PrTypeOK /\ NothingIsKept)
<1>1. RoundInv => PrTypeOK /\ NothingIsKept
  BY Zenon DEF RoundInv, NothingIsKept
<1> QED
  BY <1>1, RoundStarts, RoundSteps, PTL DEF PrSpec
=============================================================================
