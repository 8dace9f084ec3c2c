----------------------------- MODULE CmdProofs -----------------------------
(***************************************************************************)
(* Proofs about AttackCmd, for any number of workers and of signals.  The  *)
(* command drives the attack through Attack's own steps, except that Main  *)
(* may call Stop again after a call has returned; AttackInv survives that  *)
(* step too, so that all that is proved of an attack holds of one that the *)
(* command runs.                                                           *)
(***************************************************************************)
EXTENDS AttackCmd, AttackProofs

(* Main is in a call of Stop exactly while it handles a signal, and a      *)
(* command that exited says why.                                           *)
MainInv ==
  /\ cmd # "stopping" <=> call[Main] = "no"
  /\ cmd = "exited" <=> why # "none"

(* The command exits at the end of the results only when their channel is  *)
(* closed, and on a signal only when somebody had stopped the attack.      *)
ExitInv ==
  /\ why = "closed" => results = "closed"
  /\ why = "signal" => stopch = 1

(* The inductive invariant of the command.                                 *)
CmdInv == AttackInv /\ CmdTypeOK /\ MainInv /\ ExitInv

-----------------------------------------------------------------------------
(* Main is the one goroutine outside of the attack that calls Stop.        *)
LEMMA MainCalls ==
  Main \in Stoppers /\ Main \in Callers /\ Main \notin Goroutines /\ Main # Loop
BY CmdAssumption, AttackAssumption DEF Callers

(* The steps of the command that the attack does not see, those that are   *)
(* also steps of Main, and those of the attack's own goroutines.           *)
OwnStep == Signal \/ Encode \/ EncodeErr \/ SeeClosed \/ Exited
AttackRuns ==
  /\ Alive
  /\ Next
  /\ call'[Main] = "no" <=> call[Main] = "no"
  /\ UNCHANGED ownVars

(* A step of the attack that no command takes part in is one of Next that  *)
(* leaves Main where it is in its call of Stop.                            *)
LEMMA RunsAreAttackSteps ==
  ASSUME TypeOK,
         \/ \E g \in Goroutines : WorkerRuns(g)
         \/ \E c \in Callers : StopRuns(c)
         \/ LoopRuns
         \/ TimeRuns
  PROVE  AttackRuns
<1> USE MainCalls DEF AttackRuns, TypeOK
<1>1. ASSUME NEW g \in Goroutines, WorkerRuns(g)
      PROVE  AttackRuns
  <2>1. Alive /\ (PlainStep(g) \/ HitStep(g)) /\ UNCHANGED ownVars
    BY <1>1 DEF WorkerRuns
  <2>2. call'[Main] = call[Main]
    BY <2>1 DEF PlainStep, HitStep, Park, Leave, Lock, TargetOK, TargetErr,
                Stamp, Number, StopReturns, Request
  <2>3. QED
    BY <2>1, <2>2 DEF Next
<1>2. ASSUME NEW c \in Callers, StopRuns(c)
      PROVE  AttackRuns
  <2>1. Alive /\ StopStep(c) /\ UNCHANGED ownVars
    BY <1>2 DEF StopRuns
  <2>2. call'[Main] = "no" <=> call[Main] = "no"
    BY <2>1 DEF StopStep, StopCheck, StopClose
  <2>3. QED
    BY <2>1, <2>2 DEF Next
<1>3. CASE LoopRuns
  <2>1. /\ Alive /\ UNCHANGED ownVars
        /\ LoopStep \/ PaceWaits \/ \E g \in Goroutines : SendTick(g) \/ Spawn(g)
    BY <1>3 DEF LoopRuns
  <2>2. call'[Main] = call[Main]
    BY <2>1 DEF LoopStep, DurationOver, PaceStops, PaceWaits, Wake, SeeStop,
                CloseTicks, Wait, CloseResults, LoopReturns, SendTick, Spawn
  <2>3. QED
    BY <2>1, <2>2 DEF Next
<1>4. CASE TimeRuns
  BY <1>4 DEF TimeRuns, Elapse, Next
<1>5. QED
  BY <1>1, <1>2, <1>3, <1>4

(* The cases of a step of the command.                                     *)
LEMMA CmdCases ==
  ASSUME TypeOK, [CmdNext]_cmdVars
  PROVE  \/ OwnStep /\ UNCHANGED vars
         \/ TakeSignal
         \/ SignalDone
         \/ \E g \in Goroutines : TakeResult(g)
         \/ AttackRuns
         \/ UNCHANGED cmdVars
<1>1. OwnStep => UNCHANGED vars
  BY DEF OwnStep, Signal, Encode, EncodeErr, SeeClosed, Exited, cmdVars
<1>2. QED
  BY <1>1, RunsAreAttackSteps DEF CmdNext, OwnStep

(* Main forgets a call of Stop that has returned; nothing else of the      *)
(* attack is touched.                                                      *)
LEMMA ForgetCall ==
  ASSUME AttackInv, SignalDone
  PROVE  AttackInv'
<1> USE MainCalls
<1>1. TypeOK'
  BY DEF AttackInv, SignalDone, TypeOK, CallStates, loopVars, chanVars, stopVars
<1>2. PoolInv' /\ MutexInv' /\ BornInv'
  BY DEF AttackInv, SignalDone, PoolInv, Active, MutexInv, MutualExclusion,
         BornInv, Born, loopVars, chanVars
<1>3. StopInv'
  BY DEF AttackInv, SignalDone, TypeOK, StopInv, Returned, loopVars, stopVars
<1>4. QED
  BY <1>1, <1>2, <1>3 DEF AttackInv

(* Every step of the command preserves the invariant of the attack.        *)
LEMMA CmdAttackStep ==
  ASSUME AttackInv, [CmdNext]_cmdVars
  PROVE  AttackInv'
<1>1. TypeOK
  BY DEF AttackInv
<1>2. CASE SignalDone
  BY <1>2, ForgetCall
<1>3. CASE ~SignalDone
  <2>1. [Next]_vars
    BY <1>1, <1>3, CmdCases, MainCalls
       DEF TakeSignal, TakeResult, AttackRuns, Next, cmdVars
  <2>2. QED
    BY <2>1, AttackStep
<1>4. QED
  BY <1>2, <1>3

(* stopch and the results channel change only in steps of the attack's own *)
(* goroutines, which take none once the command has exited.                *)
LEMMA ExitFreezes ==
  ASSUME CmdInv, [CmdNext]_cmdVars, cmd = "exited"
  PROVE  UNCHANGED cmdVars
<1>1. TypeOK
  BY DEF CmdInv, AttackInv
<1>2. QED
  BY <1>1, CmdCases DEF OwnStep, Signal, Encode, EncodeErr, SeeClosed, Exited,
       TakeSignal, SignalDone, TakeResult, AttackRuns, Alive

(* The command's own variables keep their types, and no signal is counted  *)
(* twice.                                                                  *)
LEMMA CmdTypeStep ==
  ASSUME CmdInv, AttackInv', [CmdNext]_cmdVars
  PROVE  CmdTypeOK'
<1>1. TypeOK /\ TypeOK' /\ CmdTypeOK /\ MaxSignals \in Nat
  BY CmdAssumption DEF CmdInv, AttackInv
<1>2. CASE OwnStep
  BY <1>1, <1>2 DEF OwnStep, Signal, Encode, EncodeErr, SeeClosed, Exited, Exit,
                    CmdTypeOK, SigCapacity, cmdVars, ownVars
<1>3. CASE TakeSignal
  BY <1>1, <1>3 DEF TakeSignal, CmdTypeOK, SigCapacity
<1>4. CASE SignalDone
  BY <1>1, <1>4 DEF SignalDone, Exit, CmdTypeOK
<1>5. CASE \E g \in Goroutines : TakeResult(g)
  BY <1>1, <1>5 DEF TakeResult, CmdTypeOK
<1>6. CASE AttackRuns \/ UNCHANGED cmdVars
  BY <1>1, <1>6 DEF AttackRuns, cmdVars, ownVars, CmdTypeOK
<1>7. QED
  BY <1>1, <1>2, <1>3, <1>4, <1>5, <1>6, CmdCases

(* Main goes through its states in order.                                  *)
LEMMA MainStep ==
  ASSUME CmdInv, [CmdNext]_cmdVars
  PROVE  MainInv'
<1> USE MainCalls
<1>1. TypeOK /\ MainInv
  BY DEF CmdInv, AttackInv
<1>2. CASE OwnStep /\ UNCHANGED vars
  <2>1. call' = call
    BY <1>2 DEF vars
  <2>2. QED
    BY <1>1, <1>2, <2>1
       DEF OwnStep, Signal, Encode, EncodeErr, SeeClosed, Exited, Exit, MainInv,
           Alive, cmdVars, ownVars
<1>3. CASE TakeSignal
  BY <1>1, <1>3 DEF TakeSignal, CallStop, MainInv, TypeOK
<1>4. CASE SignalDone
  BY <1>1, <1>4 DEF SignalDone, Exit, MainInv, TypeOK
<1>5. CASE \E g \in Goroutines : TakeResult(g)
  BY <1>1, <1>5 DEF TakeResult, Receive, MainInv
<1>6. CASE AttackRuns
  BY <1>1, <1>6 DEF AttackRuns, ownVars, MainInv
<1>7. CASE UNCHANGED cmdVars
  BY <1>1, <1>7 DEF cmdVars, ownVars, vars, MainInv
<1>8. QED
  BY <1>1, <1>2, <1>3, <1>4, <1>5, <1>6, <1>7, CmdCases

(* What the command exits for is so, and stays so.                         *)
LEMMA ExitStep ==
  ASSUME CmdInv, [CmdNext]_cmdVars
  PROVE  ExitInv'
<1>1. TypeOK /\ MainInv /\ ExitInv /\ StopInv
  BY DEF CmdInv, AttackInv
<1>2. CASE cmd = "exited"
  BY <1>1, <1>2, ExitFreezes DEF cmdVars, vars, ownVars, ExitInv
<1>3. CASE why' = "none"
  BY <1>3 DEF ExitInv
<1>4. CASE SignalDone /\ why' = "signal"
  <2>1. stopOnce /\ stopch = 1 /\ stopch' = stopch
    BY <1>1, <1>4, MainCalls DEF SignalDone, StopInv, stopVars
  <2>2. QED
    BY <1>4, <2>1 DEF ExitInv
<1>5. CASE SeeClosed \/ EncodeErr
  BY <1>5 DEF SeeClosed, EncodeErr, Exit, ExitInv, vars
<1>6. ASSUME cmd # "exited", why' # "none"
      PROVE  SeeClosed \/ EncodeErr \/ (SignalDone /\ why' = "signal")
  BY <1>1, <1>6, CmdCases DEF OwnStep, Signal, Encode, Exited, Alive, TakeSignal,
       SignalDone, Exit, TakeResult, AttackRuns, MainInv, ownVars, cmdVars
<1>7. QED
  BY <1>2, <1>3, <1>4, <1>5, <1>6

-----------------------------------------------------------------------------
(* A new command starts with the invariant.                                *)
LEMMA CmdStart == CmdInit => CmdInv
<1> SUFFICES ASSUME CmdInit PROVE CmdInv
  OBVIOUS
<1>1. AttackInv
  BY AttackInit DEF CmdInit
<1>2. CmdTypeOK
  BY <1>1, CmdAssumption DEF CmdInit, CmdTypeOK, AttackInv, SigCapacity
<1>3. MainInv /\ ExitInv
  BY MainCalls DEF CmdInit, Init, MainInv, ExitInv
<1>4. QED
  BY <1>1, <1>2, <1>3 DEF CmdInv

(* CmdInv holds of every behaviour of the attack command: whenever signals *)
(* come and whatever they interrupt, the attack below keeps its invariant, *)
(* with the bound on workers, the mutex and the single close of stopch.    *)
THEOREM CmdInvariant == CmdSpec => []CmdInv
<1>1. ASSUME CmdInv, [CmdNext]_cmdVars PROVE CmdInv'
  BY <1>1, CmdAttackStep, CmdTypeStep, MainStep, ExitStep DEF CmdInv
<1>2. QED
  BY <1>1, CmdStart, PTL DEF CmdSpec

(* The command's variables keep their types, and the signals received and  *)
(* buffered are never more than those sent.                                *)
THEOREM CmdTypes == CmdSpec => []CmdTypeOK
<1>1. CmdInv => CmdTypeOK
  BY DEF CmdInv
<1>2. QED
  BY <1>1, CmdInvariant, PTL

(* When processAttack returns because the results channel was closed, no   *)
(* worker is left with a hit or a result that was not written.             *)
THEOREM CmdCleanExit == CmdSpec => []CleanExit
<1>1. CmdInv => CleanExit
  BY DEF CmdInv, ExitInv, AttackInv, PoolInv, CleanExit
<1>2. QED
  BY <1>1, CmdInvariant, PTL

(* The command leaves on a signal only when the attack had been stopped    *)
(* before, if not by a signal then by a hit or by the end of the loop.     *)
StoppedBefore == why = "signal" => stopch = 1

(* This is what holds of "exit immediately on second signal": Stop returns *)
(* false in processAttack only after stopch was closed.                    *)
THEOREM CmdStoppedBefore == CmdSpec => []StoppedBefore
<1>1. CmdInv => StoppedBefore
  BY DEF CmdInv, ExitInv, StoppedBefore
<1>2. QED
  BY <1>1, CmdInvariant, PTL

(* A command that has exited stays so, and nothing of its attack moves:    *)
(* the goroutines end with the process.                                    *)
ExitIsFinal == [][cmd = "exited" => UNCHANGED cmdVars]_cmdVars

(* The only steps after Exit are those of a process that is gone.          *)
THEOREM CmdExitIsFinal == CmdSpec => ExitIsFinal
<1>1. ASSUME CmdInv, [CmdNext]_cmdVars
      PROVE  [cmd = "exited" => UNCHANGED cmdVars]_cmdVars
  BY <1>1, ExitFreezes
<1>2. QED
  BY <1>1, CmdInvariant, PTL DEF CmdSpec, ExitIsFinal

=============================================================================
