----------------------------- MODULE HitsProofs -----------------------------
(***************************************************************************)
(* Proofs about Hits, for any number of workers and any bounds.  HitsInv   *)
(* is inductive; the order and the uniqueness of sequence numbers and the  *)
(* completeness of the results follow from it, and so does the refinement  *)
(* of HitStream, the stream of results that Attack promises.               *)
(***************************************************************************)
EXTENDS Hits, AttackProofs

(* Every step of the hits is a step of the attack, or leaves it alone.     *)
LEMMA HitsStepsAreAttackSteps ==
  ASSUME [HitsNext]_hitsVars
  PROVE  [Next]_vars
<1>1. CASE ControlStep /\ UNCHANGED dataVars
  BY <1>1 DEF ControlStep, Next
<1>2. ASSUME NEW g \in Goroutines,
             HitStamp(g) \/ HitNumber(g) \/ HitStopReturns(g)
               \/ HitRequest(g) \/ HitReceive(g) \/ CountTick(g)
      PROVE  Next
  <2>1. HitStep(g) \/ Receive(g) \/ SendTick(g)
    BY <1>2 DEF HitStamp, HitNumber, HitStopReturns, HitRequest, HitReceive,
                CountTick, HitStep
  <2>2. QED
    BY <2>1 DEF Next
<1>3. CASE PaceHit
  BY <1>3 DEF PaceHit, Next
<1>4. CASE Clock \/ UNCHANGED hitsVars
  BY <1>4 DEF Clock, hitsVars
<1>5. QED
  BY <1>1, <1>2, <1>3, <1>4 DEF HitsNext

(* The hits are an attack: what is proved of Attack holds of Hits.         *)
THEOREM HitsImplementAttack == HitsSpec => Spec
<1>1. HitsInit => Init
  BY DEF HitsInit
<1>2. QED
  BY <1>1, HitsStepsAreAttackSteps, PTL DEF HitsSpec, Spec

-----------------------------------------------------------------------------
(* At first no number is taken and no result held or delivered.            *)
LEMMA HitsStart == HitsInit => HitsInv
<1> SUFFICES ASSUME HitsInit PROVE HitsInv
  OBVIOUS
<1>1. AttackInv
  BY AttackInit DEF HitsInit
<1>2. PICK S \in SUBSET Goroutines :
        pc = [g \in Goroutines |-> IF g \in S THEN "range" ELSE "unborn"]
  BY DEF HitsInit, Init
<1>3. Holding = {} /\ Unnumbered = {}
  BY <1>2 DEF Holding, Unnumbered
<1>4. Tags = {}
  BY <1>3 DEF HitsInit, Tags, PendingTags, DeliveredTags
<1>5. HitsTypeOK
  BY <1>1, HitsAssumption DEF HitsInit, HitsTypeOK, AttackInv, BlankResult, Results
<1>6. CountInv
  BY <1>3, FS_EmptySet DEF HitsInit, Init, CountInv
<1>7. TagsInv /\ StampInv
  BY <1>2, <1>4 DEF HitsInit, TagsInv, StampInv
<1>8. SeqUnique
  BY <1>3 DEF HitsInit, SeqUnique
<1>9. QED
  BY <1>1, <1>5, <1>6, <1>7, <1>8 DEF HitsInv

-----------------------------------------------------------------------------
(* A step that neither makes a hit, nor changes or delivers one.           *)
Quiet ==
  /\ UNCHANGED <<seq, count, res, delivered>>
  /\ now' \in now .. MaxTime
  /\ Holding' = Holding
  /\ Unnumbered' = Unnumbered
  /\ \A g \in Goroutines : pc'[g] = "number" <=> pc[g] = "number"
  /\ \A g \in Goroutines : pc'[g] = "send" <=> pc[g] = "send"

(* The steps of the loop, of Stop and of the clock are quiet, and so are   *)
(* those in which a worker only moves on.                                  *)
LEMMA QuietSteps ==
  ASSUME HitsTypeOK,
         \/ ControlStep /\ UNCHANGED dataVars
         \/ PaceHit
         \/ Clock
         \/ UNCHANGED hitsVars
  PROVE  Quiet
<1> USE DEF Quiet, HitsTypeOK, TypeOK, Holding, Unnumbered
<1>1. CASE ControlStep /\ UNCHANGED dataVars
  <2>1. UNCHANGED <<seq, count, res, delivered, now>> /\ now' \in now .. MaxTime
    BY <1>1 DEF dataVars
  <2>2. ASSUME NEW c \in Callers, StopStep(c)
        PROVE  Quiet
    BY <2>1, <2>2 DEF StopStep, StopCheck, StopClose
  <2>3. ASSUME NEW c \in Stoppers, CallStop(c)
        PROVE  Quiet
    BY <2>1, <2>3 DEF CallStop
  <2>4. ASSUME NEW g \in Goroutines, PlainStep(g)
        PROVE  Quiet
    <3>1. CASE Park(g) \/ Leave(g)
      BY <2>1, <3>1 DEF Park, Leave
    <3>2. CASE Lock(g)
      BY <2>1, <3>2 DEF Lock
    <3>3. CASE TargetOK(g) \/ TargetErr(g)
      BY <2>1, <3>3 DEF TargetOK, TargetErr
    <3>4. QED
      BY <2>4, <3>1, <3>2, <3>3 DEF PlainStep
  <2>5. ASSUME NEW g \in Goroutines, Spawn(g)
        PROVE  Quiet
    BY <2>1, <2>5 DEF Spawn
  <2>6. CASE LoopStep
    BY <2>1, <2>6 DEF LoopStep, DurationOver, PaceStops, Wake, SeeStop,
                      CloseTicks, Wait, CloseResults, LoopReturns
  <2>7. CASE Elapse \/ Over
    BY <2>1, <2>7 DEF Elapse, Over, vars
  <2>8. QED
    BY <1>1, <2>2, <2>3, <2>4, <2>5, <2>6, <2>7 DEF ControlStep
<1>2. CASE PaceHit
  BY <1>2 DEF PaceHit, PaceWaits, dataVars
<1>3. CASE Clock
  BY <1>3, HitsAssumption DEF Clock, vars
<1>4. CASE UNCHANGED hitsVars
  BY <1>4 DEF hitsVars, dataVars, vars
<1>5. QED
  BY <1>1, <1>2, <1>3, <1>4

(* A step of the hits is quiet or touches the hit of one worker.           *)
LEMMA HitsCases ==
  ASSUME HitsTypeOK, [HitsNext]_hitsVars
  PROVE  \/ Quiet
         \/ \E g \in Goroutines :
              HitStamp(g) \/ HitNumber(g) \/ HitStopReturns(g)
                \/ HitRequest(g) \/ HitReceive(g) \/ CountTick(g)
BY QuietSteps DEF HitsNext

(* Between the pacer's answer and the tick there is room for one more hit. *)
LEMMA LoopStepCounts ==
  ASSUME HitsTypeOK, CountInv, [HitsNext]_hitsVars
  PROVE  loop' \in {"sleep", "try", "block"} => count' < MaxHits
<1> USE DEF CountInv
<1>1. CASE ControlStep /\ UNCHANGED dataVars
  <2>1. loop' \in {"sleep", "try", "block"} => loop \in {"sleep", "try", "block"}
    <3>1. CASE \E c \in Callers : StopStep(c)
      BY <3>1 DEF StopStep, StopCheck, StopClose, loopVars
    <3>2. CASE \E c \in Stoppers : CallStop(c)
      BY <3>2 DEF CallStop, loopVars
    <3>3. CASE \E g \in Goroutines : PlainStep(g)
      BY <3>3 DEF PlainStep, Park, Leave, Lock, TargetOK, TargetErr, loopVars
    <3>4. CASE \E g \in Goroutines : Spawn(g)
      BY <3>4 DEF Spawn
    <3>5. CASE LoopStep
      BY <3>5 DEF LoopStep, DurationOver, PaceStops, Wake, SeeStop,
                  CloseTicks, Wait, CloseResults, LoopReturns
    <3>6. CASE Elapse \/ Over
      BY <3>6 DEF Elapse, Over, vars
    <3>7. QED
      BY <1>1, <3>1, <3>2, <3>3, <3>4, <3>5, <3>6 DEF ControlStep
  <2>2. QED
    BY <1>1, <2>1 DEF dataVars
<1>2. ASSUME NEW g \in Goroutines, HitStamp(g) \/ HitNumber(g) \/ HitStopReturns(g)
                                     \/ HitRequest(g) \/ HitReceive(g)
      PROVE  loop' = loop /\ count' = count
  BY <1>2 DEF HitStamp, HitNumber, HitStopReturns, HitRequest, HitReceive, Stamp,
              Number, StopReturns, Request, Receive, loopVars
<1>3. CASE \E g \in Goroutines : CountTick(g)
  BY <1>3 DEF CountTick, SendTick
<1>4. CASE PaceHit
  BY <1>4 DEF PaceHit, dataVars
<1>5. CASE Clock \/ UNCHANGED hitsVars
  BY <1>5 DEF Clock, hitsVars, dataVars, vars
<1>6. QED
  BY <1>1, <1>2, <1>3, <1>4, <1>5 DEF HitsNext

(* What the steps of a hit do to the workers that hold one.                *)
LEMMA HoldersStep ==
  ASSUME HitsTypeOK, NEW g \in Goroutines
  PROVE  /\ HitStamp(g) \/ HitStopReturns(g) \/ HitRequest(g)
               => Holding' = Holding /\ Unnumbered' = Unnumbered
         /\ HitNumber(g)
               => /\ g \in Unnumbered /\ g \notin Holding
                  /\ Holding' = Holding \cup {g}
                  /\ Unnumbered' = Unnumbered \ {g}
         /\ HitReceive(g)
               => /\ g \in Holding
                  /\ Holding' = Holding \ {g}
                  /\ Unnumbered' = Unnumbered
         /\ CountTick(g)
               => /\ g \notin Unnumbered
                  /\ Holding' = Holding
                  /\ Unnumbered' = Unnumbered \cup {g}
<1> USE DEF HitsTypeOK, TypeOK, Holding, Unnumbered
<1>1. HitStamp(g) \/ HitStopReturns(g) \/ HitRequest(g)
        => Holding' = Holding /\ Unnumbered' = Unnumbered
  BY DEF HitStamp, Stamp, HitStopReturns, StopReturns, HitRequest, Request
<1>2. HitNumber(g) => /\ g \in Unnumbered /\ g \notin Holding
                      /\ Holding' = Holding \cup {g}
                      /\ Unnumbered' = Unnumbered \ {g}
  BY DEF HitNumber, Number
<1>3. HitReceive(g) => /\ g \in Holding
                       /\ Holding' = Holding \ {g}
                       /\ Unnumbered' = Unnumbered
  BY DEF HitReceive, Receive
<1>4. CountTick(g) => /\ g \notin Unnumbered
                      /\ Holding' = Holding
                      /\ Unnumbered' = Unnumbered \cup {g}
  BY DEF CountTick, SendTick
<1>5. QED
  BY <1>1, <1>2, <1>3, <1>4

-----------------------------------------------------------------------------
(* Each tick goes on being accounted for: a number taken, or a worker that *)
(* is about to take one.                                                   *)
LEMMA CountStep ==
  ASSUME HitsTypeOK, CountInv, [HitsNext]_hitsVars
  PROVE  CountInv'
<1>1. IsFiniteSet(Unnumbered) /\ Cardinality(Unnumbered) \in Nat
  BY FiniteSubsets DEF Unnumbered
<1>2. count' = seq' + Cardinality(Unnumbered')
  <2>1. CASE Quiet
    BY <2>1 DEF Quiet, CountInv
  <2>2. ASSUME NEW g \in Goroutines,
               HitStamp(g) \/ HitStopReturns(g) \/ HitRequest(g) \/ HitReceive(g)
        PROVE  count' = seq' + Cardinality(Unnumbered')
    <3>1. Unnumbered' = Unnumbered
      BY <2>2, HoldersStep
    <3>2. count' = count /\ seq' = seq
      BY <2>2 DEF HitStamp, HitStopReturns, HitRequest, HitReceive
    <3>3. QED
      BY <3>1, <3>2 DEF CountInv
  <2>3. ASSUME NEW g \in Goroutines, HitNumber(g)
        PROVE  count' = seq' + Cardinality(Unnumbered')
    <3>1. Cardinality(Unnumbered') = Cardinality(Unnumbered) - 1
      BY <1>1, <2>3, HoldersStep, FS_RemoveElement
    <3>2. count' = count /\ seq' = seq + 1
      BY <2>3 DEF HitNumber
    <3>3. QED
      BY <1>1, <3>1, <3>2 DEF CountInv, HitsTypeOK
  <2>4. ASSUME NEW g \in Goroutines, CountTick(g)
        PROVE  count' = seq' + Cardinality(Unnumbered')
    <3>1. Cardinality(Unnumbered') = Cardinality(Unnumbered) + 1
      BY <1>1, <2>4, HoldersStep, FS_AddElement
    <3>2. count' = count + 1 /\ seq' = seq
      BY <2>4 DEF CountTick
    <3>3. QED
      BY <1>1, <3>1, <3>2 DEF CountInv, HitsTypeOK
  <2>5. QED
    BY <2>1, <2>2, <2>3, <2>4, HitsCases
<1>3. QED
  BY <1>2, LoopStepCounts DEF CountInv

(* The outcome of an exchange keeps the number and the timestamp of the    *)
(* result, and is a result.                                                *)
LEMMA OutcomeType ==
  ASSUME NEW r \in Results, NEW x \in Exchanges
  PROVE  Outcome(r, x) \in Results /\ Tag(Outcome(r, x)) = Tag(r)
BY HitsAssumption DEF Results, Outcome, Tag

(* The data keep their types: a worker that takes a number was counted, so *)
(* numbers stay within the bound on ticks.                                 *)
LEMMA HitsTypeStep ==
  ASSUME AttackInv, HitsTypeOK, CountInv, [HitsNext]_hitsVars
  PROVE  HitsTypeOK'
<1>1. TypeOK'
  BY HitsStepsAreAttackSteps, AttackStep DEF AttackInv
<1> USE HitsAssumption
<1>2. CASE Quiet
  BY <1>1, <1>2 DEF Quiet, HitsTypeOK
<1>3. ASSUME NEW g \in Goroutines, HitStamp(g)
      PROVE  HitsTypeOK'
  BY <1>1, <1>3 DEF HitStamp, HitsTypeOK, Results
<1>4. ASSUME NEW g \in Goroutines, HitNumber(g)
      PROVE  HitsTypeOK'
  <2>1. IsFiniteSet(Unnumbered) /\ Cardinality(Unnumbered) \in Nat
    BY FiniteSubsets DEF Unnumbered
  <2>2. Cardinality(Unnumbered) # 0
    BY <1>4, <2>1, HoldersStep, FS_EmptySet
  <2>3. seq \in 0 .. MaxHits /\ seq + 1 \in 0 .. MaxHits
    BY <2>1, <2>2 DEF CountInv, HitsTypeOK
  <2>4. QED
    BY <1>1, <1>4, <2>3 DEF HitNumber, HitsTypeOK, Results
<1>5. ASSUME NEW g \in Goroutines, HitStopReturns(g)
      PROVE  HitsTypeOK'
  BY <1>1, <1>5 DEF HitStopReturns, HitsTypeOK, Results
<1>6. ASSUME NEW g \in Goroutines, HitRequest(g)
      PROVE  HitsTypeOK'
  <2>1. PICK x \in Exchanges : res' = [res EXCEPT ![g] = Outcome(@, x)]
    BY <1>6 DEF HitRequest
  <2>2. QED
    BY <1>1, <1>6, <2>1, OutcomeType DEF HitRequest, HitsTypeOK
<1>7. ASSUME NEW g \in Goroutines, HitReceive(g)
      PROVE  HitsTypeOK'
  <2>1. BlankResult \in Results
    BY DEF BlankResult, Results
  <2>2. QED
    BY <1>1, <1>7, <2>1 DEF HitReceive, HitsTypeOK
<1>8. ASSUME NEW g \in Goroutines, CountTick(g)
      PROVE  HitsTypeOK'
  <2>1. count < MaxHits
    BY <1>8 DEF CountTick, SendTick, CountInv
  <2>2. QED
    BY <1>1, <1>8, <2>1 DEF CountTick, HitsTypeOK
<1>9. QED
  BY <1>2, <1>3, <1>4, <1>5, <1>6, <1>7, <1>8, HitsCases

-----------------------------------------------------------------------------
(* A step that leaves every number taken, and its timestamp, where it is.  *)
TagsKept ==
  /\ UNCHANGED <<seq, delivered>>
  /\ now <= now'
  /\ Holding' = Holding
  /\ \A h \in Holding : Tag(res'[h]) = Tag(res[h])

(* Only taking a number and delivering a result concern the stream.        *)
LEMMA TagCases ==
  ASSUME HitsTypeOK, [HitsNext]_hitsVars
  PROVE  \/ TagsKept
         \/ \E g \in Goroutines : HitNumber(g) \/ HitReceive(g)
<1>1. CASE Quiet
  BY <1>1 DEF Quiet, TagsKept, HitsTypeOK
<1>2. ASSUME NEW g \in Goroutines, HitStamp(g)
      PROVE  TagsKept
  <2>1. g \notin Holding /\ Holding' = Holding
    BY <1>2, HoldersStep DEF HitStamp, Stamp, Holding
  <2>2. QED
    BY <1>2, <2>1 DEF HitStamp, TagsKept, HitsTypeOK, Holding
<1>3. ASSUME NEW g \in Goroutines, HitStopReturns(g)
      PROVE  TagsKept
  <2>1. Holding' = Holding
    BY <1>3, HoldersStep
  <2>2. QED
    BY <1>3, <2>1 DEF HitStopReturns, TagsKept, HitsTypeOK, Results, Tag, Holding
<1>4. ASSUME NEW g \in Goroutines, HitRequest(g)
      PROVE  TagsKept
  <2>1. Holding' = Holding
    BY <1>4, HoldersStep
  <2>2. PICK x \in Exchanges : res' = [res EXCEPT ![g] = Outcome(@, x)]
    BY <1>4 DEF HitRequest
  <2>3. QED
    BY <1>4, <2>1, <2>2, OutcomeType DEF HitRequest, TagsKept, HitsTypeOK, Holding
<1>5. ASSUME NEW g \in Goroutines, CountTick(g)
      PROVE  TagsKept
  <2>1. Holding' = Holding
    BY <1>5, HoldersStep
  <2>2. QED
    BY <1>5, <2>1 DEF CountTick, TagsKept, HitsTypeOK
<1>6. QED
  BY <1>1, <1>2, <1>3, <1>4, <1>5, HitsCases

(* Such a step leaves the stream's variables alone.                        *)
LEMMA TagsKeptSame ==
  ASSUME TagsKept
  PROVE  /\ PendingTags' = PendingTags
         /\ DeliveredTags' = DeliveredTags
         /\ Tags' = Tags
BY DEF TagsKept, PendingTags, DeliveredTags, Tags

(* Taking a number adds the next tag to the pending ones.                  *)
LEMMA NumberTags ==
  ASSUME HitsTypeOK, NEW g \in Goroutines, HitNumber(g)
  PROVE  /\ PendingTags' = PendingTags \cup {[seq |-> seq, ts |-> res[g].ts]}
         /\ DeliveredTags' = DeliveredTags
         /\ Tags' = Tags \cup {[seq |-> seq, ts |-> res[g].ts]}
<1>1. g \notin Holding /\ Holding' = Holding \cup {g}
  BY HoldersStep
<1>2. Tag(res'[g]) = [seq |-> seq, ts |-> res[g].ts]
  BY DEF HitNumber, HitsTypeOK, Results, Tag
<1>3. \A h \in Holding : res'[h] = res[h]
  BY <1>1 DEF HitNumber, HitsTypeOK, Holding
<1>4. PendingTags' = PendingTags \cup {[seq |-> seq, ts |-> res[g].ts]}
  BY <1>1, <1>2, <1>3 DEF PendingTags
<1>5. DeliveredTags' = DeliveredTags
  BY DEF HitNumber, DeliveredTags
<1>6. QED
  BY <1>4, <1>5 DEF Tags

(* Delivering a result moves its tag from the pending to the delivered     *)
(* ones: no other worker holds the same number.                            *)
LEMMA ReceiveTags ==
  ASSUME HitsTypeOK, SeqUnique, NEW g \in Goroutines, HitReceive(g)
  PROVE  /\ Tag(res[g]) \in PendingTags
         /\ PendingTags' = PendingTags \ {Tag(res[g])}
         /\ DeliveredTags' = DeliveredTags \cup {Tag(res[g])}
         /\ Tags' = Tags
<1>1. g \in Holding /\ Holding' = Holding \ {g}
  BY HoldersStep
<1>2. \A h \in Holding \ {g} : res'[h] = res[h] /\ Tag(res[h]) # Tag(res[g])
  BY <1>1 DEF HitReceive, HitsTypeOK, Results, Holding, SeqUnique, Tag
<1>3. Tag(res[g]) \in PendingTags /\ PendingTags' = PendingTags \ {Tag(res[g])}
  BY <1>1, <1>2 DEF PendingTags
<1>4. DeliveredTags' = DeliveredTags \cup {Tag(res[g])}
  BY DEF HitReceive, DeliveredTags
<1>5. QED
  BY <1>3, <1>4 DEF Tags

(* The tags are records of numbers.                                        *)
LEMMA TagsType ==
  ASSUME HitsTypeOK
  PROVE  Tags \subseteq [seq : 0 .. MaxHits, ts : 0 .. MaxTime]
BY DEF HitsTypeOK, Results, Tags, PendingTags, DeliveredTags, Tag, Holding

-----------------------------------------------------------------------------
(* No two results share a number: the one a worker takes is larger than    *)
(* all others, and delivering keeps it.                                    *)
LEMMA UniqueStep ==
  ASSUME HitsTypeOK, TagsInv, SeqUnique, [HitsNext]_hitsVars
  PROVE  SeqUnique'
<1>1. CASE TagsKept
  <2>1. \A h \in Holding : res'[h].seq = res[h].seq
    BY <1>1 DEF TagsKept, Tag
  <2>2. QED
    BY <1>1, <2>1 DEF TagsKept, SeqUnique
<1>2. ASSUME NEW g \in Goroutines, HitNumber(g)
      PROVE  SeqUnique'
  <2>1. g \notin Holding /\ Holding' = Holding \cup {g} /\ delivered' = delivered
    BY <1>2, HoldersStep DEF HitNumber
  <2>2. res'[g].seq = seq /\ \A h \in Holding : res'[h] = res[h]
    BY <1>2, <2>1 DEF HitNumber, HitsTypeOK, Results, Holding
  <2>3. \A h \in Holding : Tag(res[h]) \in Tags /\ Tag(res[h]).seq = res[h].seq
    BY DEF Tags, PendingTags, Tag
  <2>4. \A r \in delivered : Tag(r) \in Tags /\ Tag(r).seq = r.seq
    BY DEF Tags, DeliveredTags, Tag
  <2>5. /\ \A h \in Holding : res[h].seq < seq
        /\ \A r \in delivered : r.seq < seq
    BY <2>3, <2>4 DEF TagsInv
  <2>6. seq \in Int /\ ~(seq < seq)
    BY DEF HitsTypeOK
  <2>7. QED
    BY <2>1, <2>2, <2>5, <2>6 DEF SeqUnique
<1>3. ASSUME NEW g \in Goroutines, HitReceive(g)
      PROVE  SeqUnique'
  <2>1. g \in Holding /\ Holding' = Holding \ {g}
    BY <1>3, HoldersStep
  <2>2. delivered' = delivered \cup {res[g]} /\ \A h \in Holding' : res'[h] = res[h]
    BY <1>3, <2>1 DEF HitReceive, HitsTypeOK, Holding
  <2>3. QED
    BY <2>1, <2>2 DEF SeqUnique
<1>4. QED
  BY <1>1, <1>2, <1>3, TagCases

(* Numbers go on being taken in order, without gaps, and timestamps follow *)
(* them: the worker that takes the next number read the clock after all    *)
(* that have one.                                                          *)
LEMMA TagsStep ==
  ASSUME HitsTypeOK, TagsInv, StampInv, SeqUnique, [HitsNext]_hitsVars
  PROVE  TagsInv'
<1>1. Tags \subseteq [seq : 0 .. MaxHits, ts : 0 .. MaxTime] /\ now \in Nat /\ seq \in Nat
  BY TagsType DEF HitsTypeOK
<1>2. CASE TagsKept
  <2>1. Tags' = Tags /\ seq' = seq /\ now <= now'
    BY <1>2, TagsKeptSame DEF TagsKept
  <2>2. now' \in Int
    BY <1>1, <1>2, HitsCases
       DEF Quiet, HitStamp, HitNumber, HitStopReturns, HitRequest, HitReceive, CountTick
  <2>3. QED
    BY <1>1, <2>1, <2>2 DEF TagsInv
<1>3. ASSUME NEW g \in Goroutines, HitNumber(g)
      PROVE  TagsInv'
  <2> DEFINE t == [seq |-> seq, ts |-> res[g].ts]
  <2>1. Tags' = Tags \cup {t} /\ seq' = seq + 1 /\ now' = now
    BY <1>3, NumberTags DEF HitNumber
  <2>2. /\ t.seq = seq
        /\ t.ts \in Nat
        /\ t.ts <= now
        /\ \A u \in Tags : u.ts <= t.ts
    BY <1>3 DEF HitNumber, Number, StampInv, HitsTypeOK, Results
  <2> HIDE DEF t
  <2>3. \A u \in Tags' : u.seq < seq' /\ u.ts <= now'
    BY <1>1, <2>1, <2>2 DEF TagsInv
  <2>4. \A n \in 0 .. (seq' - 1) : \E u \in Tags' : u.seq = n
    BY <1>1, <2>1, <2>2 DEF TagsInv
  <2>5. \A u, v \in Tags' : u.seq > v.seq => u.ts >= v.ts
    BY <1>1, <2>1, <2>2 DEF TagsInv
  <2>6. QED
    BY <2>3, <2>4, <2>5 DEF TagsInv
<1>4. ASSUME NEW g \in Goroutines, HitReceive(g)
      PROVE  TagsInv'
  <2>1. Tags' = Tags /\ seq' = seq /\ now' = now
    BY <1>4, ReceiveTags DEF HitReceive
  <2>2. QED
    BY <2>1 DEF TagsInv
<1>5. QED
  BY <1>2, <1>3, <1>4, TagCases

(* A worker between reading the clock and taking its number keeps the      *)
(* latest timestamp: seqmu keeps everybody else from taking one.           *)
LEMMA StampStep ==
  ASSUME HitsTypeOK, MutualExclusion, TagsInv, StampInv, SeqUnique,
         [HitsNext]_hitsVars
  PROVE  StampInv'
<1>1. Tags \subseteq [seq : 0 .. MaxHits, ts : 0 .. MaxTime] /\ now \in Nat
  BY TagsType DEF HitsTypeOK
<1>2. CASE Quiet
  <2>1. TagsKept
    BY <1>2 DEF Quiet, TagsKept, HitsTypeOK
  <2>2. Tags' = Tags
    BY <2>1, TagsKeptSame
  <2>3. res' = res /\ now <= now' /\ now' \in Int
    BY <1>1, <1>2 DEF Quiet
  <2>4. \A h \in Goroutines : res[h].ts \in Int
    BY DEF HitsTypeOK, Results
  <2>5. QED
    BY <1>1, <1>2, <2>2, <2>3, <2>4 DEF Quiet, StampInv
<1>3. ASSUME NEW g \in Goroutines, HitStamp(g)
      PROVE  StampInv'
  <2>1. g \notin Holding /\ Holding' = Holding
    BY <1>3, HoldersStep DEF HitStamp, Stamp, Holding
  <2>2. TagsKept
    BY <1>3, <2>1 DEF HitStamp, TagsKept, HitsTypeOK, Holding
  <2>3. Tags' = Tags /\ now' = now
    BY <1>3, <2>2, TagsKeptSame DEF HitStamp
  <2>4. /\ res'[g].ts = now
        /\ \A h \in Goroutines \ {g} : res'[h] = res[h] /\ pc'[h] = pc[h]
    BY <1>3 DEF HitStamp, Stamp, HitsTypeOK, TypeOK, Results
  <2>5. QED
    BY <1>1, <2>3, <2>4 DEF StampInv, TagsInv
<1>4. ASSUME NEW g \in Goroutines, HitNumber(g)
      PROVE  StampInv'
  <2>1. pc[g] = "number" /\ \A h \in Goroutines : pc'[h] = "number" => h # g /\ pc[h] = "number"
    BY <1>4 DEF HitNumber, Number, HitsTypeOK, TypeOK
  <2>2. QED
    BY <2>1 DEF StampInv, MutualExclusion, Critical
<1>5. ASSUME NEW g \in Goroutines,
             HitStopReturns(g) \/ HitRequest(g) \/ HitReceive(g) \/ CountTick(g)
      PROVE  StampInv'
  <2>1. ~HitNumber(g) /\ now' = now
    BY <1>5 DEF HitStopReturns, StopReturns, HitRequest, Request, HitReceive,
                Receive, CountTick, SendTick, HitNumber, Number
  <2>2. \A h \in Goroutines :
          pc'[h] = "number" => pc[h] = "number" /\ res'[h] = res[h]
    BY <1>5 DEF HitStopReturns, StopReturns, HitRequest, Request, HitReceive,
                Receive, CountTick, SendTick, HitsTypeOK, TypeOK
  <2>3. Tags' = Tags
    <3>1. CASE TagsKept
      BY <3>1, TagsKeptSame
    <3>2. CASE \E h \in Goroutines : HitReceive(h)
      BY <3>2, ReceiveTags
    <3>3. CASE \E h \in Goroutines : HitNumber(h)
      BY <1>5, <3>3 DEF HitNumber, HitStopReturns, HitRequest, HitReceive, CountTick,
                        HitsTypeOK
    <3>4. QED
      BY <3>1, <3>2, <3>3, TagCases
  <2>4. QED
    BY <2>1, <2>2, <2>3 DEF StampInv
<1>6. QED
  BY <1>2, <1>3, <1>4, <1>5, HitsCases

(* HitsInv is preserved by every step.                                     *)
LEMMA HitsStep ==
  ASSUME HitsInv, [HitsNext]_hitsVars
  PROVE  HitsInv'
<1>1. AttackInv'
  BY HitsStepsAreAttackSteps, AttackStep DEF HitsInv
<1>2. MutualExclusion
  BY DEF HitsInv, AttackInv, MutexInv
<1>3. QED
  BY <1>1, <1>2, HitsTypeStep, CountStep, TagsStep, StampStep, UniqueStep DEF HitsInv

-----------------------------------------------------------------------------
(* HitsInv is an invariant of the attack with its hits, for any number of  *)
(* workers, any exchanges and any bounds.                                  *)
THEOREM HitsInvariant == HitsSpec => []HitsInv
BY HitsStart, HitsStep, PTL DEF HitsSpec

(* The data keep their types.                                              *)
THEOREM HitsTypes == HitsSpec => []HitsTypeOK
<1>1. HitsInv => HitsTypeOK
  BY DEF HitsInv
<1>2. QED
  BY <1>1, HitsInvariant, PTL

(* The order of the tags is that of the results.                           *)
LEMMA OrderFollows == HitsInv => SeqOrder
<1> SUFFICES ASSUME HitsInv PROVE SeqOrder
  OBVIOUS
<1>1. \A r \in Numbered : Tag(r) \in Tags /\ Tag(r).seq = r.seq /\ Tag(r).ts = r.ts
  BY DEF Numbered, Tags, PendingTags, DeliveredTags, Tag
<1>2. QED
  BY <1>1 DEF HitsInv, TagsInv, SeqOrder

(* The comment in hit: timestamps follow sequence numbers, because both    *)
(* are taken in one critical section.                                      *)
THEOREM HitsSeqOrder == HitsSpec => []SeqOrder
BY OrderFollows, HitsInvariant, PTL

(* No sequence number is given twice.                                      *)
THEOREM HitsSeqUnique == HitsSpec => []SeqUnique
<1>1. HitsInv => SeqUnique
  BY DEF HitsInv
<1>2. QED
  BY <1>1, HitsInvariant, PTL

(* Without active workers every number taken belongs to a delivered        *)
(* result, and every tick has its number.                                  *)
LEMMA CompleteFollows == HitsInv => Complete
<1> SUFFICES ASSUME HitsInv, results = "closed"
             PROVE  {r.seq : r \in delivered} = 0 .. (count - 1)
  BY DEF Complete
<1>1. Active = {}
  BY DEF HitsInv, AttackInv, PoolInv
<1>2. Holding = {} /\ Unnumbered = {}
  BY <1>1 DEF Active, Holding, Unnumbered
<1>3. count = seq
  BY <1>2, FS_EmptySet DEF HitsInv, CountInv, HitsTypeOK
<1>4. Tags = DeliveredTags
  BY <1>2 DEF Tags, PendingTags
<1>5. {r.seq : r \in delivered} = {t.seq : t \in Tags}
  <2>1. \A r \in delivered : Tag(r) \in Tags /\ Tag(r).seq = r.seq
    BY <1>4 DEF DeliveredTags, Tag
  <2>2. \A t \in Tags : \E r \in delivered : t = Tag(r)
    BY <1>4 DEF DeliveredTags
  <2>3. \A t \in Tags : \E r \in delivered : t.seq = r.seq
    BY <2>1, <2>2
  <2>4. QED
    BY <2>1, <2>3
<1>6. {t.seq : t \in Tags} = 0 .. (seq - 1)
  <2>1. Tags \subseteq [seq : 0 .. MaxHits, ts : 0 .. MaxTime] /\ seq \in Nat
    BY TagsType DEF HitsInv, HitsTypeOK
  <2>2. QED
    BY <2>1 DEF HitsInv, TagsInv
<1>7. QED
  BY <1>3, <1>5, <1>6

(* When the channel is closed, every tick has become a delivered result.   *)
THEOREM HitsComplete == HitsSpec => []Complete
BY CompleteFollows, HitsInvariant, PTL

-----------------------------------------------------------------------------
(* A result says that it is an error exactly if its code is no success.    *)
Agrees(r) == ~r.err <=> r.code \in 200 .. 399

(* Before its exchange ends a hit has neither a code nor an error; after   *)
(* it, and when it is delivered, the two agree.                            *)
OutcomeInv ==
  /\ \A g \in Goroutines :
       IF pc[g] = "send" THEN Agrees(res[g]) ELSE res[g].code = 0 /\ ~res[g].err
  /\ ErrorsAgree

(* However an exchange ends, a result without code and error comes to one  *)
(* whose error and code agree: code 0 when the body was not read.          *)
LEMMA OutcomeAgrees ==
  ASSUME NEW r \in Results, r.code = 0, ~r.err, NEW x \in Exchanges
  PROVE  Agrees(Outcome(r, x))
<1>1. x.status \in Nat /\ x.read \in BOOLEAN
  BY HitsAssumption
<1>2. CASE x.status = 0 \/ ~x.read
  <2>1. Outcome(r, x).err = TRUE /\ Outcome(r, x).code = 0
    BY <1>2 DEF Outcome, Results
  <2>2. QED
    BY <2>1 DEF Agrees
<1>3. CASE ~(x.status = 0 \/ ~x.read)
  <2>1. /\ Outcome(r, x).err = (x.status < 200 \/ x.status >= 400)
        /\ Outcome(r, x).code = x.status
    BY <1>3 DEF Outcome, Results
  <2>2. CASE x.status < 200 \/ x.status >= 400
    <3>1. Outcome(r, x).err = TRUE
      BY <2>1, <2>2
    <3>2. QED
      BY <1>1, <2>1, <2>2, <3>1 DEF Agrees
  <2>3. CASE ~(x.status < 200 \/ x.status >= 400)
    <3>1. Outcome(r, x).err = FALSE
      BY <2>1, <2>3
    <3>2. QED
      BY <1>1, <2>1, <2>3, <3>1 DEF Agrees
  <2>4. QED
    BY <2>2, <2>3
<1>4. QED
  BY <1>2, <1>3

(* The outcome is set once, by the exchange or by the failed targeter, and *)
(* the worker that was relieved of its result starts from a blank one.     *)
LEMMA OutcomeStep ==
  ASSUME HitsTypeOK, OutcomeInv, [HitsNext]_hitsVars
  PROVE  OutcomeInv'
<1> USE DEF ErrorsAgree
<1>1. CASE Quiet
  BY <1>1 DEF Quiet, OutcomeInv, Agrees
<1>2. ASSUME NEW g \in Goroutines, HitStamp(g) \/ HitNumber(g)
      PROVE  OutcomeInv'
  <2>1. /\ pc[g] # "send" /\ pc'[g] # "send"
        /\ res'[g].code = res[g].code /\ res'[g].err = res[g].err
        /\ \A h \in Goroutines \ {g} : pc'[h] = pc[h] /\ res'[h] = res[h]
        /\ delivered' = delivered
    BY <1>2 DEF HitStamp, Stamp, HitNumber, Number, HitsTypeOK, TypeOK, Results
  <2>2. res'[g].code = 0 /\ ~res'[g].err
    BY <2>1 DEF OutcomeInv
  <2>3. QED
    BY <2>1, <2>2 DEF OutcomeInv, Agrees
<1>3. ASSUME NEW g \in Goroutines, HitStopReturns(g)
      PROVE  OutcomeInv'
  <2>1. /\ pc[g] # "send" /\ pc'[g] = "send"
        /\ res'[g].code = res[g].code /\ res'[g].err = TRUE
        /\ \A h \in Goroutines \ {g} : pc'[h] = pc[h] /\ res'[h] = res[h]
        /\ delivered' = delivered
    BY <1>3 DEF HitStopReturns, StopReturns, HitsTypeOK, TypeOK, Results
  <2>2. Agrees(res[g])'
    BY <2>1 DEF OutcomeInv, Agrees
  <2>3. QED
    BY <2>1, <2>2 DEF OutcomeInv, Agrees
<1>4. ASSUME NEW g \in Goroutines, HitRequest(g)
      PROVE  OutcomeInv'
  <2>1. PICK x \in Exchanges : res' = [res EXCEPT ![g] = Outcome(@, x)]
    BY <1>4 DEF HitRequest
  <2>2. /\ pc[g] # "send" /\ pc'[g] = "send"
        /\ res'[g] = Outcome(res[g], x)
        /\ \A h \in Goroutines \ {g} : pc'[h] = pc[h] /\ res'[h] = res[h]
        /\ delivered' = delivered
    BY <1>4, <2>1 DEF HitRequest, Request, HitsTypeOK, TypeOK
  <2>3. Agrees(res'[g])
    BY <2>2, OutcomeAgrees DEF OutcomeInv, HitsTypeOK
  <2>4. QED
    BY <2>2, <2>3 DEF OutcomeInv, Agrees
<1>5. ASSUME NEW g \in Goroutines, HitReceive(g)
      PROVE  OutcomeInv'
  <2>1. /\ pc[g] = "send" /\ pc'[g] # "send"
        /\ res'[g].code = 0 /\ ~res'[g].err
        /\ \A h \in Goroutines \ {g} : pc'[h] = pc[h] /\ res'[h] = res[h]
        /\ delivered' = delivered \cup {res[g]}
    BY <1>5 DEF HitReceive, Receive, BlankResult, HitsTypeOK, TypeOK
  <2>2. Agrees(res[g])
    BY <2>1 DEF OutcomeInv
  <2>3. QED
    BY <2>1, <2>2 DEF OutcomeInv, Agrees
<1>6. ASSUME NEW g \in Goroutines, CountTick(g)
      PROVE  OutcomeInv'
  <2>1. /\ \A h \in Goroutines : pc'[h] = "send" <=> pc[h] = "send"
        /\ UNCHANGED <<res, delivered>>
    BY <1>6 DEF CountTick, SendTick, HitsTypeOK, TypeOK
  <2>2. QED
    BY <2>1 DEF OutcomeInv, Agrees
<1>7. QED
  BY <1>1, <1>2, <1>3, <1>4, <1>5, <1>6, HitsCases

(* A delivered result has no error exactly when its code counts as a       *)
(* success: the reports' success ratio and the plots' labels agree,        *)
(* whatever the servers answer and wherever the exchange fails.            *)
THEOREM HitsErrorsAgree == HitsSpec => []ErrorsAgree
<1>1. HitsInit => OutcomeInv
  <2> SUFFICES ASSUME HitsInit PROVE OutcomeInv
    OBVIOUS
  <2>1. PICK S \in SUBSET Goroutines :
          pc = [g \in Goroutines |-> IF g \in S THEN "range" ELSE "unborn"]
    BY DEF HitsInit, Init
  <2>2. QED
    BY <2>1 DEF HitsInit, BlankResult, OutcomeInv, ErrorsAgree
<1>2. OutcomeInv => ErrorsAgree
  BY DEF OutcomeInv
<1>3. QED
  BY <1>1, <1>2, OutcomeStep, HitsTypes, PTL DEF HitsSpec

-----------------------------------------------------------------------------
(* The results channel is never reopened.                                  *)
LEMMA ClosedStays ==
  ASSUME [Next]_vars, results = "closed"
  PROVE  results' = "closed"
<1> USE DEF chanVars
<1>1. CASE \E c \in Callers : StopStep(c)
  BY <1>1 DEF StopStep, StopCheck, StopClose
<1>2. CASE \E s \in Stoppers : CallStop(s)
  BY <1>2 DEF CallStop
<1>3. CASE \E g \in Goroutines : PlainStep(g)
  BY <1>3 DEF PlainStep, Park, Leave, Lock, TargetOK, TargetErr
<1>4. CASE \E g \in Goroutines : HitStep(g) \/ Receive(g)
  BY <1>4 DEF HitStep, Stamp, Number, StopReturns, Request, Receive
<1>5. CASE \E g \in Goroutines : SendTick(g) \/ Spawn(g)
  BY <1>5 DEF SendTick, Spawn
<1>6. CASE LoopStep \/ PaceWaits
  BY <1>6 DEF LoopStep, DurationOver, PaceStops, PaceWaits, Wake, SeeStop,
              CloseTicks, Wait, CloseResults, LoopReturns
<1>7. CASE Elapse \/ UNCHANGED vars
  BY <1>7 DEF Elapse, vars
<1>8. QED
  BY <1>1, <1>2, <1>3, <1>4, <1>5, <1>6, <1>7, NextCases DEF Over

(* Every step of the attack is a step of the stream or leaves it alone.    *)
LEMMA StreamStep ==
  ASSUME HitsInv, HitsInv', [HitsNext]_hitsVars
  PROVE  [Stream!StreamNext]_(Stream!streamVars)
<1> USE DEF Stream!StreamNext, Stream!streamVars
<1>1. [Next]_vars /\ HitsTypeOK /\ SeqUnique
  BY HitsStepsAreAttackSteps DEF HitsInv
<1>2. \A g \in Goroutines : HitNumber(g) \/ HitReceive(g)
         => results # "closed" /\ results' = results
  BY DEF HitsInv, AttackInv, PoolInv, Active, HitNumber, Number, HitReceive,
         Receive, chanVars
<1>3. CASE TagsKept
  <2>1. PendingTags' = PendingTags /\ DeliveredTags' = DeliveredTags
    BY <1>3, TagsKeptSame
  <2>2. CASE results' = "closed"
    <3>1. PendingTags' = {}
      BY <2>2 DEF HitsInv, AttackInv, PoolInv, Active, PendingTags, Holding
    <3>2. Stream!Close
      BY <2>1, <2>2, <3>1 DEF Stream!Close
    <3>3. QED
      BY <3>2
  <2>3. CASE results' # "closed"
    <3>1. results # "closed"
      BY <1>1, <2>3, ClosedStays
    <3>2. QED
      BY <2>1, <2>3, <3>1
  <2>4. QED
    BY <2>2, <2>3
<1>4. ASSUME NEW g \in Goroutines, HitNumber(g)
      PROVE  Stream!StreamNext
  <2> DEFINE t == [seq |-> seq, ts |-> res[g].ts]
  <2>1. t \in [seq : 0 .. MaxHits, ts : 0 .. MaxTime] /\ t.seq = seq /\ t.ts = res[g].ts
    BY <1>1 DEF HitsTypeOK, Results
  <2>2. PendingTags' = PendingTags \cup {t} /\ DeliveredTags' = DeliveredTags
    BY <1>1, <1>4, NumberTags
  <2>3. \A m \in Tags : m.seq < seq /\ m.ts <= res[g].ts
    BY <1>4 DEF HitsInv, TagsInv, StampInv, HitNumber, Number
  <2>4. \A n \in 0 .. (seq - 1) : \E m \in Tags : m.seq = n
    BY DEF HitsInv, TagsInv
  <2> HIDE DEF t
  <2>5. Stream!Hit(t)
    BY <1>2, <1>4, <2>1, <2>2, <2>3, <2>4 DEF Stream!Hit, Stream!Made, Tags
  <2>6. QED
    BY <2>1, <2>5
<1>5. ASSUME NEW g \in Goroutines, HitReceive(g)
      PROVE  Stream!StreamNext
  <2>1. /\ Tag(res[g]) \in PendingTags
        /\ PendingTags' = PendingTags \ {Tag(res[g])}
        /\ DeliveredTags' = DeliveredTags \cup {Tag(res[g])}
    BY <1>1, <1>5, ReceiveTags
  <2>2. Stream!Deliver(Tag(res[g]))
    BY <1>2, <1>5, <2>1 DEF Stream!Deliver
  <2>3. Tag(res[g]) \in [seq : 0 .. MaxHits, ts : 0 .. MaxTime]
    BY <1>1, <2>1, TagsType DEF Tags
  <2>4. QED
    BY <2>2, <2>3
<1>6. QED
  BY <1>1, <1>3, <1>4, <1>5, TagCases

(* Attack implements the stream it promises: hits numbered in the order of *)
(* their timestamps, each delivered once, the channel closed at the end.   *)
THEOREM HitsRefineStream == HitsSpec => StreamProperty
<1>1. HitsInit => Stream!StreamInit
  <2> SUFFICES ASSUME HitsInit PROVE Stream!StreamInit
    OBVIOUS
  <2>1. PICK S \in SUBSET Goroutines :
          pc = [g \in Goroutines |-> IF g \in S THEN "range" ELSE "unborn"]
    BY DEF HitsInit, Init
  <2>2. PendingTags = {} /\ DeliveredTags = {} /\ results # "closed"
    BY <2>1 DEF HitsInit, Init, PendingTags, DeliveredTags, Holding
  <2>3. QED
    BY <2>2 DEF Stream!StreamInit
<1>2. QED
  BY <1>1, StreamStep, HitsInvariant, PTL DEF HitsSpec, StreamProperty, Stream!StreamSpec

=============================================================================
