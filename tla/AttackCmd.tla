------------------------------ MODULE AttackCmd ------------------------------
(***************************************************************************)
(* The attack command around an attack: processAttack, run by Main, reads  *)
(* results and encodes them until the channel is closed, a result cannot   *)
(* be encoded, or a signal arrives whose call of Stop returns false.  When *)
(* the command exits, its process ends and every goroutine with it.        *)
(***************************************************************************)
EXTENDS Attack

CONSTANTS
  Main,        \* the goroutine that runs processAttack
  MaxSignals   \* bound on the interrupts the user sends

ASSUME CmdAssumption == Stoppers = {Main} /\ MaxSignals \in Nat

VARIABLES
  cmd,      \* where Main is in processAttack
  why,      \* why the command exited
  sig,      \* signals buffered in the sig channel, of capacity 1
  sent,     \* signals the user has sent
  handled   \* signals processAttack has received

ownVars == <<cmd, why, sig, sent, handled>>
cmdVars == <<vars, ownVars>>

SigCapacity == 1

CmdInit ==
  /\ Init
  /\ stopch = 0  \* the Attacker is new
  /\ cmd = "select"
  /\ why = "none"
  /\ sig = 0
  /\ sent = 0
  /\ handled = 0

Alive == cmd # "exited"

Exit(reason) == cmd' = "exited" /\ why' = reason

-----------------------------------------------------------------------------
\* signal.Notify does not block: a signal that finds the channel full is lost.
Signal ==
  /\ Alive
  /\ sent < MaxSignals
  /\ sent' = sent + 1
  /\ sig' = IF sig < SigCapacity THEN sig + 1 ELSE sig
  /\ UNCHANGED <<vars, cmd, why, handled>>

\* case <-sig: Main calls Stop ...
TakeSignal ==
  /\ cmd = "select"
  /\ sig > 0
  /\ CallStop(Main)
  /\ sig' = sig - 1
  /\ handled' = handled + 1
  /\ cmd' = "stopping"
  /\ UNCHANGED <<why, sent>>

\* Mutant: the command goes on whatever Stop returns.
SignalDoneNeverExits ==
  /\ cmd = "stopping"
  /\ Returned(Main)
  /\ cmd' = "select"
  /\ call' = [call EXCEPT ![Main] = "no"]
  /\ UNCHANGED <<loopVars, wg, chanVars, pc, seqmu, stopVars, why, sig, sent, handled>>

\* ... and exits when somebody had called it before.
SignalDone ==
  /\ cmd = "stopping"
  /\ Returned(Main)
  /\ IF call[Main] = "true" THEN cmd' = "select" /\ UNCHANGED why ELSE Exit("signal")
  /\ call' = [call EXCEPT ![Main] = "no"]
  /\ UNCHANGED <<loopVars, wg, chanVars, pc, seqmu, stopVars, sig, sent, handled>>

\* case r, ok := <-res: the result of worker g ...
TakeResult(g) ==
  /\ cmd = "select"
  /\ Receive(g)
  /\ cmd' = "encoding"
  /\ UNCHANGED <<why, sig, sent, handled>>

\* ... is observed and encoded, or cannot be.
Encode ==
  /\ cmd = "encoding"
  /\ cmd' = "select"
  /\ UNCHANGED <<vars, why, sig, sent, handled>>

EncodeErr ==
  /\ cmd = "encoding"
  /\ Exit("encode")
  /\ UNCHANGED <<vars, sig, sent, handled>>

\* Mutant: the end of the attack is taken for the end of its results.
SeeClosedEarly ==
  /\ cmd = "select"
  /\ ticks = "closed"
  /\ Exit("closed")
  /\ UNCHANGED <<vars, sig, sent, handled>>

SeeClosed ==
  /\ cmd = "select"
  /\ results = "closed"
  /\ Exit("closed")
  /\ UNCHANGED <<vars, sig, sent, handled>>

-----------------------------------------------------------------------------
\* The steps of the attack's own goroutines, while the process lives.
LoopRuns ==
  /\ Alive
  /\ LoopStep \/ PaceWaits \/ \E g \in Goroutines : SendTick(g) \/ Spawn(g)
  /\ UNCHANGED ownVars

LoopStops == Alive /\ SeeStop /\ UNCHANGED ownVars

WorkerRuns(g) == Alive /\ (PlainStep(g) \/ HitStep(g)) /\ UNCHANGED ownVars

StopRuns(c) == Alive /\ StopStep(c) /\ UNCHANGED ownVars

TimeRuns == Alive /\ Elapse /\ UNCHANGED ownVars

Exited == ~Alive /\ UNCHANGED cmdVars

CmdNext ==
  \/ Signal \/ TakeSignal \/ SignalDone \/ Encode \/ EncodeErr \/ SeeClosed
  \/ \E g \in Goroutines : TakeResult(g) \/ WorkerRuns(g)
  \/ \E c \in Callers : StopRuns(c)
  \/ LoopRuns
  \/ TimeRuns
  \/ Exited

CmdSpec == CmdInit /\ [][CmdNext]_cmdVars

(***************************************************************************)
(* The process runs: Main, the loop and the workers are scheduled.  A      *)
(* select picks at random among its ready cases, so that a buffered signal *)
(* and a closed stopch are not passed over for ever.  Nothing is assumed   *)
(* of the servers: a request may hang.  The mutex need not be fair here:   *)
(* after the first signal only finitely many hits are left.                *)
(***************************************************************************)
WorkerProgress(g) ==
  /\ Alive
  /\ PlainStep(g) \/ Stamp(g) \/ Number(g) \/ StopReturns(g) \/ StopStep(g)
  /\ UNCHANGED ownVars

CmdFairness ==
  /\ WF_cmdVars(StopRuns(Main) \/ SignalDone \/ Encode \/ EncodeErr)
  /\ WF_cmdVars(SeeClosed \/ \E g \in Goroutines : TakeResult(g))
  /\ SF_cmdVars(TakeSignal)
  /\ \A g \in Goroutines : WF_cmdVars(WorkerProgress(g))
  /\ WF_cmdVars(LoopRuns \/ StopRuns(Loop))
  /\ SF_cmdVars(LoopStops)

CmdFairSpec == CmdSpec /\ CmdFairness

-----------------------------------------------------------------------------
(* The command's variables keep their types, and a signal is never counted *)
(* twice: those received, buffered and lost add up to those sent.          *)
CmdTypeOK ==
  /\ TypeOK
  /\ cmd \in {"select", "stopping", "encoding", "exited"}
  /\ why \in {"none", "closed", "signal", "encode"}
  /\ sig \in 0 .. SigCapacity
  /\ sent \in 0 .. MaxSignals
  /\ handled \in Nat
  /\ handled + sig <= sent

(* When processAttack returns because the results channel was closed, no   *)
(* worker is left with a hit or a result that was not written: only a      *)
(* second signal or a failure to encode cuts the output short.             *)
CleanExit == why = "closed" => Active = {}

(* processAttack's comment: exit immediately on second signal.  The        *)
(* command never exits on the first.                                       *)
ExitOnSecondSignal == why = "signal" => handled >= 2

(* A signal ends the command, provided that no request hangs for ever: the *)
(* loop stops, the hits under way are delivered and encoded, and the       *)
(* channel is closed; or the command leaves at once.                       *)
SignalEndsCommand ==
  (\A g \in Goroutines : []<>(pc[g] # "request")) => (sent > 0 ~> ~Alive)

(* A second signal ends the command even when every request hangs and the  *)
(* results channel is never closed (the comment in processAttack).         *)
SecondSignalExits == handled > 0 /\ sig > 0 ~> ~Alive

=============================================================================
