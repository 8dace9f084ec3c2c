---------------------------- MODULE AttackProofs ----------------------------
(***************************************************************************)
(* Proofs about Attack for any number of workers, any maxWorkers and any   *)
(* number of goroutines that call Stop.  AttackInv is inductive; the       *)
(* safety properties follow from it.                                       *)
(***************************************************************************)
EXTENDS Attack, FiniteSetTheorems, TLAPS

(* Subsets of the finite set of goroutines are finite, so that counting    *)
(* the active workers, or those ever started, makes sense.                 *)
LEMMA FiniteSubsets ==
  ASSUME NEW S \in SUBSET Goroutines
  PROVE  IsFiniteSet(S) /\ Cardinality(S) \in Nat
BY AttackAssumption, FS_Subset, FS_CardinalityType

(* The initial workers are at most maxWorkers.                             *)
LEMMA InitialWorkersBound ==
  InitialWorkers \in Nat /\ InitialWorkers <= MaxWorkers
BY AttackAssumption DEF InitialWorkers

(* Attack starts with the invariant: as many active workers as wg.Add was  *)
(* called for.                                                             *)
LEMMA AttackInit == Init => AttackInv
<1> SUFFICES ASSUME Init PROVE AttackInv
  OBVIOUS
<1>1. PICK S \in SUBSET Goroutines :
        /\ Cardinality(S) = InitialWorkers
        /\ pc = [g \in Goroutines |-> IF g \in S THEN "range" ELSE "unborn"]
  BY DEF Init
<1>2. TypeOK
  BY <1>1, InitialWorkersBound
     DEF Init, InitWg, TypeOK, LoopStates, PcStates, Hitting, CallStates
<1>3. Active = S /\ Born = S
  BY <1>1 DEF Active, Born
<1>4. PoolInv
  BY <1>1, <1>3 DEF Init, InitWg, PoolInv
<1>5. StopInv
  BY DEF Init, StopInv, Returned
<1>6. MutexInv
  BY <1>1 DEF Init, MutexInv, MutualExclusion, Critical
<1>7. BornInv
  BY <1>1, <1>3, InitialWorkersBound DEF Init, BornInv
<1>8. QED
  BY <1>2, <1>4, <1>5, <1>6, <1>7 DEF AttackInv

-----------------------------------------------------------------------------
(* A step of the attack is one of these, named for the cases below.        *)
LEMMA NextCases ==
  ASSUME Next
  PROVE  \/ \E c \in Callers : StopStep(c)
         \/ \E s \in Stoppers : CallStop(s)
         \/ \E g \in Goroutines : PlainStep(g)
         \/ \E g \in Goroutines : HitStep(g) \/ Receive(g)
         \/ \E g \in Goroutines : SendTick(g)
         \/ \E g \in Goroutines : Spawn(g)
         \/ LoopStep \/ PaceWaits
         \/ Elapse
         \/ Over
BY DEF Next

(* Every step keeps the types.  wg stays a natural number because the      *)
(* worker that leaves is one of those it counts.                           *)
LEMMA TypeStep ==
  ASSUME TypeOK, PoolInv, [Next]_vars
  PROVE  TypeOK'
<1> USE DEF LoopStates, PcStates, Hitting, CallStates
<1>1. ASSUME NEW c \in Callers, StopStep(c)
      PROVE  TypeOK'
  <2>1. CASE StopCheck(c)
    BY <2>1 DEF TypeOK, StopCheck, loopVars, chanVars, stopVars
  <2>2. CASE StopClose(c)
    BY <2>2 DEF TypeOK, StopClose, loopVars, chanVars
  <2>3. QED
    BY <1>1, <2>1, <2>2 DEF StopStep
<1>2. CASE \E s \in Stoppers : CallStop(s)
  BY <1>2 DEF TypeOK, CallStop, loopVars, chanVars, stopVars, Callers
<1>3. ASSUME NEW g \in Goroutines, PlainStep(g)
      PROVE  TypeOK'
  <2>1. CASE Park(g)
    BY <2>1 DEF TypeOK, Park, loopVars, chanVars, stopVars
  <2>2. CASE Leave(g)
    <3>1. g \in Active /\ Active \in SUBSET Goroutines
      BY <2>2 DEF Leave, Active
    <3>2. wg # 0
      BY <3>1, FiniteSubsets, FS_EmptySet DEF PoolInv
    <3>3. QED
      BY <2>2, <3>2 DEF TypeOK, Leave, loopVars, chanVars, stopVars
  <2>3. CASE Lock(g)
    BY <2>3 DEF TypeOK, Lock, loopVars, chanVars, stopVars
  <2>4. CASE TargetOK(g)
    BY <2>4 DEF TypeOK, TargetOK, loopVars, chanVars, stopVars
  <2>5. CASE TargetErr(g)
    BY <2>5 DEF TypeOK, TargetErr, loopVars, chanVars, stopVars, Callers
  <2>6. QED
    BY <1>3, <2>1, <2>2, <2>3, <2>4, <2>5 DEF PlainStep
<1>4. ASSUME NEW g \in Goroutines, HitStep(g) \/ Receive(g)
      PROVE  TypeOK'
  <2>1. CASE Stamp(g) \/ Request(g) \/ Receive(g)
    BY <2>1 DEF TypeOK, Stamp, Request, Receive, loopVars, chanVars, stopVars
  <2>2. CASE Number(g)
    BY <2>2 DEF TypeOK, Number, loopVars, chanVars, stopVars
  <2>3. CASE StopReturns(g)
    BY <2>3 DEF TypeOK, StopReturns, loopVars, chanVars, stopVars, Callers
  <2>4. QED
    BY <1>4, <2>1, <2>2, <2>3 DEF HitStep
<1>5. CASE \E g \in Goroutines : SendTick(g)
  BY <1>5 DEF TypeOK, SendTick, chanVars, stopVars
<1>6. CASE \E g \in Goroutines : Spawn(g)
  BY <1>6 DEF TypeOK, Spawn, SpawnWg, chanVars, stopVars
<1>7. CASE LoopStep \/ PaceWaits
  <2>1. CASE DurationOver \/ PaceStops \/ PaceWaits \/ Wake \/ SeeStop
    BY <2>1 DEF TypeOK, DurationOver, PaceStops, PaceWaits, Wake, SeeStop,
                chanVars, stopVars
  <2>2. CASE CloseTicks \/ Wait \/ LoopReturns
    BY <2>2 DEF TypeOK, CloseTicks, Wait, LoopReturns, chanVars, stopVars
  <2>3. CASE CloseResults
    BY <2>3 DEF TypeOK, CloseResults, stopVars, Callers
  <2>4. QED
    BY <1>7, <2>1, <2>2, <2>3 DEF LoopStep
<1>8. CASE Elapse
  BY <1>8 DEF TypeOK, Elapse, chanVars, stopVars
<1>9. CASE UNCHANGED vars
  BY <1>9 DEF TypeOK, vars
<1>10. QED
  BY <1>1, <1>2, <1>3, <1>4, <1>5, <1>6, <1>7, <1>8, <1>9, NextCases DEF Over

(* A step that neither starts a worker nor lets one leave.                 *)
KeepsWorkers ==
  /\ Active' = Active
  /\ Born' = Born
  /\ wg' = wg
  /\ workers' = workers

(* Only Spawn and Leave change who is running.                             *)
LEMMA StartOrLeave ==
  ASSUME TypeOK, [Next]_vars
  PROVE  \/ KeepsWorkers
         \/ \E g \in Goroutines : Spawn(g) \/ Leave(g)
<1> USE DEF KeepsWorkers, Active, Born, loopVars
<1>1. CASE \E c \in Callers : StopStep(c)
  BY <1>1 DEF StopStep, StopCheck, StopClose
<1>2. CASE \E s \in Stoppers : CallStop(s)
  BY <1>2 DEF CallStop
<1>3. ASSUME NEW g \in Goroutines, PlainStep(g), ~Leave(g)
      PROVE  KeepsWorkers
  BY <1>3 DEF TypeOK, PlainStep, Park, Lock, TargetOK, TargetErr
<1>4. ASSUME NEW g \in Goroutines, HitStep(g) \/ Receive(g)
      PROVE  KeepsWorkers
  BY <1>4 DEF TypeOK, HitStep, Stamp, Number, StopReturns, Request, Receive
<1>5. CASE \E g \in Goroutines : SendTick(g)
  BY <1>5 DEF TypeOK, SendTick
<1>6. CASE LoopStep \/ PaceWaits
  BY <1>6 DEF LoopStep, DurationOver, PaceStops, PaceWaits, Wake, SeeStop,
              CloseTicks, Wait, CloseResults, LoopReturns
<1>7. CASE Elapse
  BY <1>7 DEF Elapse
<1>8. CASE UNCHANGED vars
  BY <1>8 DEF vars
<1>9. QED
  BY <1>1, <1>2, <1>3, <1>4, <1>5, <1>6, <1>7, <1>8, NextCases DEF Over

(* The pacing goroutine passes Wait only when wg is 0, and the results     *)
(* channel is closed only after that.                                      *)
LEMMA PhaseStep ==
  ASSUME TypeOK, PoolInv, [Next]_vars
  PROVE  /\ loop' \in {"closeResults", "stopping", "done"} /\ loop' # loop
              => \/ wg = 0
                 \/ loop \in {"closeResults", "stopping", "done"}
         /\ results' = "closed" => loop' \in {"stopping", "done"}
<1> USE DEF PoolInv
<1>1. CASE \E c \in Callers : StopStep(c)
  BY <1>1 DEF StopStep, StopCheck, StopClose, loopVars, chanVars
<1>2. CASE \E s \in Stoppers : CallStop(s)
  BY <1>2 DEF CallStop, loopVars, chanVars
<1>3. CASE \E g \in Goroutines : PlainStep(g)
  BY <1>3 DEF PlainStep, Park, Leave, Lock, TargetOK, TargetErr, loopVars, chanVars
<1>4. CASE \E g \in Goroutines : HitStep(g) \/ Receive(g)
  BY <1>4 DEF HitStep, Stamp, Number, StopReturns, Request, Receive, loopVars, chanVars
<1>5. CASE \E g \in Goroutines : SendTick(g)
  BY <1>5 DEF SendTick, chanVars
<1>6. CASE \E g \in Goroutines : Spawn(g)
  BY <1>6 DEF Spawn, chanVars
<1>7. CASE LoopStep \/ PaceWaits
  BY <1>7 DEF LoopStep, DurationOver, PaceStops, PaceWaits, Wake, SeeStop,
              CloseTicks, Wait, CloseResults, LoopReturns, chanVars
<1>8. CASE Elapse
  BY <1>8 DEF Elapse, chanVars
<1>9. CASE UNCHANGED vars
  BY <1>9 DEF vars
<1>10. QED
  BY <1>1, <1>2, <1>3, <1>4, <1>5, <1>6, <1>7, <1>8, <1>9, NextCases DEF Over

(* The WaitGroup goes on counting the active workers, and none is active   *)
(* once Wait has returned.                                                 *)
LEMMA PoolStep ==
  ASSUME TypeOK, PoolInv, [Next]_vars
  PROVE  PoolInv'
<1>1. IsFiniteSet(Active) /\ (Cardinality(Active) = 0 <=> Active = {})
  BY FiniteSubsets, FS_EmptySet DEF Active
<1>2. CASE KeepsWorkers
  BY <1>1, <1>2, PhaseStep DEF PoolInv, KeepsWorkers
<1>3. ASSUME NEW g \in Goroutines, Leave(g)
      PROVE  PoolInv'
  <2>1. g \in Active /\ Active' = Active \ {g}
    BY <1>3 DEF TypeOK, Leave, Active
  <2>2. Cardinality(Active') = Cardinality(Active) - 1
    BY <1>1, <2>1, FS_RemoveElement
  <2>3. QED
    BY <1>3, <2>1, <2>2 DEF PoolInv, Leave, loopVars, chanVars
<1>4. ASSUME NEW g \in Goroutines, Spawn(g)
      PROVE  PoolInv'
  <2>1. g \notin Active /\ Active' = Active \cup {g}
    BY <1>4 DEF TypeOK, Spawn, Active
  <2>2. Cardinality(Active') = Cardinality(Active) + 1
    BY <1>1, <2>1, FS_AddElement
  <2>3. QED
    BY <1>4, <2>2 DEF PoolInv, Spawn, SpawnWg, chanVars
<1>5. QED
  BY <1>2, <1>3, <1>4, StartOrLeave

(* The loop's count of workers stays exact and within maxWorkers: it       *)
(* spawns only in the branch taken when there was room.                    *)
LEMMA BornStep ==
  ASSUME TypeOK, BornInv, [Next]_vars
  PROVE  BornInv'
<1>1. IsFiniteSet(Born)
  BY FiniteSubsets DEF Born
<1>2. CASE KeepsWorkers
  <2>1. loop' = "try" => loop = "try" \/ workers < MaxWorkers
    <3>1. CASE \E c \in Callers : StopStep(c)
      BY <3>1 DEF StopStep, StopCheck, StopClose, loopVars
    <3>2. CASE \E s \in Stoppers : CallStop(s)
      BY <3>2 DEF CallStop, loopVars
    <3>3. CASE \E g \in Goroutines : PlainStep(g)
      BY <3>3 DEF PlainStep, Park, Leave, Lock, TargetOK, TargetErr, loopVars
    <3>4. CASE \E g \in Goroutines : HitStep(g) \/ Receive(g)
      BY <3>4 DEF HitStep, Stamp, Number, StopReturns, Request, Receive, loopVars
    <3>5. CASE \E g \in Goroutines : SendTick(g) \/ Spawn(g)
      BY <3>5 DEF SendTick, Spawn
    <3>6. CASE LoopStep \/ PaceWaits
      BY <3>6 DEF LoopStep, DurationOver, PaceStops, PaceWaits, Wake, MayGrow,
                  SeeStop, CloseTicks, Wait, CloseResults, LoopReturns
    <3>7. CASE Elapse \/ UNCHANGED vars
      BY <3>7 DEF Elapse, vars
    <3>8. QED
      BY <3>1, <3>2, <3>3, <3>4, <3>5, <3>6, <3>7, NextCases DEF Over
  <2>2. QED
    BY <1>2, <2>1 DEF BornInv, KeepsWorkers
<1>3. ASSUME NEW g \in Goroutines, Leave(g)
      PROVE  BornInv'
  <2>1. Born' = Born
    BY <1>3 DEF TypeOK, Leave, Born
  <2>2. QED
    BY <1>3, <2>1 DEF BornInv, Leave, loopVars
<1>4. ASSUME NEW g \in Goroutines, Spawn(g)
      PROVE  BornInv'
  <2>1. g \notin Born /\ Born' = Born \cup {g}
    BY <1>4 DEF TypeOK, Spawn, Born
  <2>2. Cardinality(Born') = Cardinality(Born) + 1
    BY <1>1, <2>1, FS_AddElement
  <2>3. workers' = workers + 1 /\ workers < MaxWorkers /\ loop' # "try"
    BY <1>4 DEF BornInv, Spawn
  <2>4. QED
    BY <2>2, <2>3, AttackAssumption DEF TypeOK, BornInv
<1>5. QED
  BY <1>2, <1>3, <1>4, StartOrLeave

(* Whoever calls Stop, and however the calls interleave, the Once closes   *)
(* stopch exactly when it runs, and no call returns before it has run.     *)
LEMMA LatchStep ==
  ASSUME TypeOK, StopInv, [Next]_vars
  PROVE  StopInv'
<1> USE DEF StopInv, Returned
<1>1. ASSUME NEW c \in Callers, StopStep(c)
      PROVE  StopInv'
  <2>1. CASE StopCheck(c)
    BY <2>1 DEF TypeOK, StopCheck, loopVars, stopVars
  <2>2. CASE StopClose(c)
    BY <2>2 DEF TypeOK, StopClose, loopVars
  <2>3. QED
    BY <1>1, <2>1, <2>2 DEF StopStep
<1>2. CASE \E s \in Stoppers : CallStop(s)
  BY <1>2 DEF TypeOK, CallStop, loopVars, stopVars
<1>3. CASE \E g \in Goroutines : PlainStep(g)
  BY <1>3 DEF TypeOK, PlainStep, Park, Leave, Lock, TargetOK, TargetErr,
              loopVars, stopVars
<1>4. CASE \E g \in Goroutines : HitStep(g) \/ Receive(g)
  BY <1>4 DEF TypeOK, HitStep, Stamp, Number, StopReturns, Request, Receive,
              loopVars, stopVars
<1>5. CASE \E g \in Goroutines : SendTick(g) \/ Spawn(g)
  BY <1>5 DEF SendTick, Spawn, stopVars
<1>6. CASE LoopStep \/ PaceWaits
  <2>1. CASE DurationOver \/ PaceStops \/ PaceWaits \/ Wake \/ SeeStop
               \/ CloseTicks \/ Wait
    BY <2>1 DEF DurationOver, PaceStops, PaceWaits, Wake, SeeStop, CloseTicks,
                Wait, stopVars
  <2>2. CASE CloseResults
    BY <2>2 DEF TypeOK, CloseResults, stopVars
  <2>3. CASE LoopReturns
    BY <2>3 DEF LoopReturns, stopVars, Callers
  <2>4. QED
    BY <1>6, <2>1, <2>2, <2>3 DEF LoopStep
<1>7. CASE Elapse \/ UNCHANGED vars
  BY <1>7 DEF Elapse, vars, stopVars
<1>8. QED
  BY <1>1, <1>2, <1>3, <1>4, <1>5, <1>6, <1>7, NextCases DEF Over

(* The mutex admits a worker to the critical section only when nobody is   *)
(* in it, and the worker that numbers its result leaves it.                *)
LEMMA MutexStep ==
  ASSUME TypeOK, MutexInv, [Next]_vars
  PROVE  MutexInv'
<1> USE DEF MutexInv, MutualExclusion, Critical
<1>1. CASE \E c \in Callers : StopStep(c)
  BY <1>1 DEF StopStep, StopCheck, StopClose
<1>2. CASE \E s \in Stoppers : CallStop(s)
  BY <1>2 DEF CallStop
<1>3. ASSUME NEW g \in Goroutines, PlainStep(g)
      PROVE  MutexInv'
  <2>1. CASE Lock(g)
    BY <2>1 DEF TypeOK, Lock
  <2>2. CASE Park(g) \/ Leave(g) \/ TargetOK(g) \/ TargetErr(g)
    BY <2>2 DEF TypeOK, Park, Leave, TargetOK, TargetErr
  <2>3. QED
    BY <1>3, <2>1, <2>2 DEF PlainStep
<1>4. ASSUME NEW g \in Goroutines, HitStep(g) \/ Receive(g)
      PROVE  MutexInv'
  <2>1. CASE Stamp(g)
    BY <2>1 DEF TypeOK, Stamp
  <2>2. CASE Number(g)
    BY <2>2 DEF TypeOK, Number
  <2>3. CASE StopReturns(g) \/ Request(g) \/ Receive(g)
    BY <2>3 DEF TypeOK, StopReturns, Request, Receive
  <2>4. QED
    BY <1>4, <2>1, <2>2, <2>3 DEF HitStep
<1>5. CASE \E g \in Goroutines : SendTick(g) \/ Spawn(g)
  BY <1>5 DEF TypeOK, SendTick, Spawn
<1>6. CASE LoopStep \/ PaceWaits
  BY <1>6 DEF LoopStep, DurationOver, PaceStops, PaceWaits, Wake, SeeStop,
              CloseTicks, Wait, CloseResults, LoopReturns
<1>7. CASE Elapse \/ UNCHANGED vars
  BY <1>7 DEF Elapse, vars
<1>8. QED
  BY <1>1, <1>2, <1>3, <1>4, <1>5, <1>6, <1>7, NextCases DEF Over

-----------------------------------------------------------------------------
(* AttackInv is preserved by every step.                                   *)
LEMMA AttackStep ==
  ASSUME AttackInv, [Next]_vars
  PROVE  AttackInv'
BY TypeStep, PoolStep, LatchStep, MutexStep, BornStep DEF AttackInv

(* AttackInv is an invariant of the attack, for any number of goroutines,  *)
(* whatever the pacer answers and the targeter and the servers do.         *)
THEOREM AttackInvariant == Spec => []AttackInv
BY AttackInit, AttackStep, PTL DEF Spec

(* The variables keep their types; the WaitGroup never becomes negative.   *)
THEOREM AttackTypes == Spec => []TypeOK
<1>1. AttackInv => TypeOK
  BY DEF AttackInv
<1>2. QED
  BY <1>1, AttackInvariant, PTL

(* No worker ever sends on the closed results channel: when the deferred   *)
(* function of Attack closes it, every worker that was started is done.    *)
THEOREM AttackSafeClose == Spec => []SafeClose
<1>1. AttackInv => SafeClose
  BY DEF AttackInv, PoolInv, SafeClose, Active
<1>2. QED
  BY <1>1, AttackInvariant, PTL

(* Stop closes stopch at most once, and it is closed when the attack has   *)
(* ended.                                                                  *)
THEOREM AttackStopLatch == Spec => []StopLatch
<1>1. AttackInv => StopLatch
  BY DEF AttackInv, TypeOK, StopInv, StopLatch
<1>2. QED
  BY <1>1, AttackInvariant, PTL

(* At most one worker is in hit's critical section.                        *)
THEOREM AttackMutualExclusion == Spec => []MutualExclusion
<1>1. AttackInv => MutualExclusion
  BY DEF AttackInv, MutexInv
<1>2. QED
  BY <1>1, AttackInvariant, PTL

(* The attack never runs more workers than maxWorkers.                     *)
THEOREM AttackWorkersBounded == Spec => []WorkersBounded
<1>1. AttackInv => WorkersBounded
  BY DEF AttackInv, BornInv, Born, WorkersBounded
<1>2. QED
  BY <1>1, AttackInvariant, PTL

=============================================================================
