------------------------------- MODULE Attack -------------------------------
(***************************************************************************)
(* The life of one attack: Attacker.Attack, its pacing goroutine (here     *)
(* Loop), the worker goroutines running Attacker.attack and hit, and       *)
(* Attacker.Stop, called by the workers, by the loop's deferred function   *)
(* and by any other goroutine of the program (Stoppers).                   *)
(*                                                                         *)
(* This module is the control of the system and keeps no counter, so its   *)
(* behaviours are infinite and its liveness is checked without a bound on  *)
(* the number of hits.  Hits.tla adds the sequence numbers, timestamps and *)
(* results; AttackCmd.tla adds the command that consumes the results.      *)
(*                                                                         *)
(* ticks and results are unbuffered channels: a send happens together with *)
(* its receive, and only with a goroutine that is already waiting.  An     *)
(* atomic step is what a goroutine does between two such points.           *)
(***************************************************************************)
EXTENDS Integers, FiniteSets

CONSTANTS
  Goroutines,  \* identities of the worker goroutines that may be started
  Loop,        \* the goroutine that paces the attack
  Stoppers,    \* other goroutines of the program that call Stop
  Workers,     \* a.workers: the initial number of workers
  MaxWorkers   \* a.maxWorkers: the maximum number of workers

ASSUME AttackAssumption ==
  /\ IsFiniteSet(Goroutines)
  /\ Workers \in Nat
  /\ MaxWorkers \in Nat
  /\ MaxWorkers <= Cardinality(Goroutines)
  /\ Loop \notin Goroutines \cup Stoppers
  /\ Goroutines \cap Stoppers = {}

VARIABLES
  loop,      \* where the pacing goroutine is
  workers,   \* its local count of started workers
  wg,        \* counter of the WaitGroup
  ticks,     \* whether the ticks channel is open
  results,   \* whether the results channel is open
  deadline,  \* whether a duration was given, and whether it has elapsed
  pc,        \* where each worker goroutine is
  seqmu,     \* the holders of atk.seqmu
  stopch,    \* how many times a.stopch was closed (twice would panic)
  stopOnce,  \* whether a.stopOnce has run
  call       \* progress of each goroutine's call of Stop

loopVars == <<loop, workers, deadline>>
chanVars == <<ticks, results>>
stopVars == <<stopch, stopOnce>>
vars == <<loop, workers, wg, ticks, results, deadline, pc, seqmu, stopch, stopOnce, call>>

Callers == Goroutines \cup Stoppers \cup {Loop}

LoopStates == {"check", "sleep", "try", "block", "closeTicks", "wait",
               "closeResults", "stopping", "done"}

(***************************************************************************)
(* A worker receives ticks in "range" (running towards the receive) and    *)
(* "parked" (blocked in it), runs hit from "lock" to "request" and sends   *)
(* its result in "send".                                                   *)
(***************************************************************************)
Critical == {"stamp", "number"}
Hitting == {"lock", "stamp", "number", "target", "stopping", "request"}
PcStates == {"unborn", "range", "parked", "send", "done"} \cup Hitting

CallStates == {"no", "check", "once", "true", "false"}

Active == {g \in Goroutines : pc[g] \notin {"unborn", "done"}}
Returned(c) == call[c] \in {"true", "false"}

-----------------------------------------------------------------------------
(* Attacker.Attack up to its return: the initial workers are started, the  *)
(* loop is about to run.  An Attacker that already ran an attack comes     *)
(* with its stopch closed.                                                 *)

InitialWorkers == IF Workers > MaxWorkers THEN MaxWorkers ELSE Workers

\* Mutant: the initial workers are started without wg.Add.
InitWgMissing == 0

InitWg == InitialWorkers

Init ==
  /\ loop = "check"
  /\ workers = InitialWorkers
  /\ wg = InitWg
  /\ ticks = "open"
  /\ results = "open"
  /\ deadline \in {"none", "pending"}
  /\ \E S \in SUBSET Goroutines :
       /\ Cardinality(S) = InitialWorkers
       /\ pc = [g \in Goroutines |-> IF g \in S THEN "range" ELSE "unborn"]
  /\ seqmu = {}
  /\ stopch \in {0, 1}
  /\ stopOnce = (stopch = 1)
  /\ call = [c \in Callers |-> "no"]

-----------------------------------------------------------------------------
(* Attacker.Stop.  The select and the Once are two steps: two callers may  *)
(* both find stopch open.                                                  *)

StopCheck(c) ==
  /\ call[c] = "check"
  /\ call' = [call EXCEPT ![c] = IF stopch > 0 THEN "false" ELSE "once"]
  /\ UNCHANGED <<loopVars, wg, chanVars, pc, seqmu, stopVars>>

\* Mutant: stopch is closed without the Once.
StopCloseUnguarded(c) ==
  /\ call[c] = "once"
  /\ call' = [call EXCEPT ![c] = "true"]
  /\ stopOnce' = TRUE
  /\ stopch' = stopch + 1
  /\ UNCHANGED <<loopVars, wg, chanVars, pc, seqmu>>

StopClose(c) ==
  /\ call[c] = "once"
  /\ call' = [call EXCEPT ![c] = "true"]
  /\ stopOnce' = TRUE
  /\ stopch' = IF stopOnce THEN stopch ELSE stopch + 1
  /\ UNCHANGED <<loopVars, wg, chanVars, pc, seqmu>>

CallStop(s) ==
  /\ call[s] = "no"
  /\ call' = [call EXCEPT ![s] = "check"]
  /\ UNCHANGED <<loopVars, wg, chanVars, pc, seqmu, stopVars>>

-----------------------------------------------------------------------------
(* A worker: Attacker.attack and Attacker.hit.                             *)

Park(g) ==
  /\ pc[g] = "range"
  /\ ticks = "open"
  /\ pc' = [pc EXCEPT ![g] = "parked"]
  /\ UNCHANGED <<loopVars, wg, chanVars, seqmu, stopVars, call>>

\* The range over ticks ends and the deferred workers.Done() runs.
Leave(g) ==
  /\ pc[g] \in {"range", "parked"}
  /\ ticks = "closed"
  /\ pc' = [pc EXCEPT ![g] = "done"]
  /\ wg' = wg - 1
  /\ UNCHANGED <<loopVars, chanVars, seqmu, stopVars, call>>

\* Mutant: the critical section is entered without the mutex.
LockUnguarded(g) ==
  /\ pc[g] = "lock"
  /\ seqmu' = seqmu \cup {g}
  /\ pc' = [pc EXCEPT ![g] = "stamp"]
  /\ UNCHANGED <<loopVars, wg, chanVars, stopVars, call>>

Lock(g) ==
  /\ pc[g] = "lock"
  /\ seqmu = {}
  /\ seqmu' = {g}
  /\ pc' = [pc EXCEPT ![g] = "stamp"]
  /\ UNCHANGED <<loopVars, wg, chanVars, stopVars, call>>

Stamp(g) ==
  /\ pc[g] = "stamp"
  /\ pc' = [pc EXCEPT ![g] = "number"]
  /\ UNCHANGED <<loopVars, wg, chanVars, seqmu, stopVars, call>>

\* Mutant: the mutex is not released.
NumberNoUnlock(g) ==
  /\ pc[g] = "number"
  /\ pc' = [pc EXCEPT ![g] = "target"]
  /\ UNCHANGED <<loopVars, wg, chanVars, seqmu, stopVars, call>>

Number(g) ==
  /\ pc[g] = "number"
  /\ pc' = [pc EXCEPT ![g] = "target"]
  /\ seqmu' = seqmu \ {g}
  /\ UNCHANGED <<loopVars, wg, chanVars, stopVars, call>>

TargetOK(g) ==
  /\ pc[g] = "target"
  /\ pc' = [pc EXCEPT ![g] = "request"]
  /\ UNCHANGED <<loopVars, wg, chanVars, seqmu, stopVars, call>>

\* The targeter fails (it has no more targets, say): hit stops the attack.
TargetErr(g) ==
  /\ pc[g] = "target"
  /\ pc' = [pc EXCEPT ![g] = "stopping"]
  /\ call' = [call EXCEPT ![g] = "check"]
  /\ UNCHANGED <<loopVars, wg, chanVars, seqmu, stopVars>>

StopReturns(g) ==
  /\ pc[g] = "stopping"
  /\ Returned(g)
  /\ pc' = [pc EXCEPT ![g] = "send"]
  /\ call' = [call EXCEPT ![g] = "no"]
  /\ UNCHANGED <<loopVars, wg, chanVars, seqmu, stopVars>>

\* The HTTP exchange ends, with a response, an error or the client's timeout.
Request(g) ==
  /\ pc[g] = "request"
  /\ pc' = [pc EXCEPT ![g] = "send"]
  /\ UNCHANGED <<loopVars, wg, chanVars, seqmu, stopVars, call>>

\* The reader of the results channel takes g's result.
Receive(g) ==
  /\ pc[g] = "send"
  /\ pc' = [pc EXCEPT ![g] = "range"]
  /\ UNCHANGED <<loopVars, wg, chanVars, seqmu, stopVars, call>>

-----------------------------------------------------------------------------
(* The pacing goroutine.                                                   *)

\* The attack's duration elapses.
Elapse ==
  /\ deadline = "pending"
  /\ deadline' = "passed"
  /\ UNCHANGED <<loop, workers, wg, chanVars, pc, seqmu, stopVars, call>>

\* Mutant: the loop goes on pacing hits after the duration.
DurationIgnored ==
  /\ loop = "check"
  /\ deadline = "passed"
  /\ loop' = "sleep"
  /\ UNCHANGED <<workers, deadline, wg, chanVars, pc, seqmu, stopVars, call>>

DurationOver ==
  /\ loop = "check"
  /\ deadline = "passed"
  /\ loop' = "closeTicks"
  /\ UNCHANGED <<workers, deadline, wg, chanVars, pc, seqmu, stopVars, call>>

\* Pace is the Pacer's: any answer is possible.
PaceStops ==
  /\ loop = "check"
  /\ deadline # "passed"
  /\ loop' = "closeTicks"
  /\ UNCHANGED <<workers, deadline, wg, chanVars, pc, seqmu, stopVars, call>>

PaceWaits ==
  /\ loop = "check"
  /\ deadline # "passed"
  /\ loop' = "sleep"
  /\ UNCHANGED <<workers, deadline, wg, chanVars, pc, seqmu, stopVars, call>>

\* Mutant: one worker more than maxWorkers is allowed.
MayGrowOffByOne == workers <= MaxWorkers

MayGrow == workers < MaxWorkers

Wake ==
  /\ loop = "sleep"
  /\ loop' = IF MayGrow THEN "try" ELSE "block"
  /\ UNCHANGED <<workers, deadline, wg, chanVars, pc, seqmu, stopVars, call>>

\* ticks <- struct{}{} in either select: worker g was waiting for it.
SendTick(g) ==
  /\ loop \in {"try", "block"}
  /\ pc[g] = "parked"
  /\ pc' = [pc EXCEPT ![g] = "lock"]
  /\ loop' = "check"
  /\ UNCHANGED <<workers, deadline, wg, chanVars, seqmu, stopVars, call>>

\* Mutant: the blocking select has no case for stopch.
SeeStopOnlyBeforeMax ==
  /\ loop = "try"
  /\ stopch > 0
  /\ loop' = "closeTicks"
  /\ UNCHANGED <<workers, deadline, wg, chanVars, pc, seqmu, stopVars, call>>

\* <-a.stopch in either select; when a tick could be sent too, Go picks.
SeeStop ==
  /\ loop \in {"try", "block"}
  /\ stopch > 0
  /\ loop' = "closeTicks"
  /\ UNCHANGED <<workers, deadline, wg, chanVars, pc, seqmu, stopVars, call>>

\* Mutant: the new worker is not added to the WaitGroup.
SpawnWgMissing == wg

SpawnWg == wg + 1

\* The default case of the first select: no other case is ready.
Spawn(g) ==
  /\ loop = "try"
  /\ \A h \in Goroutines : pc[h] # "parked"
  /\ stopch = 0
  /\ pc[g] = "unborn"
  /\ pc' = [pc EXCEPT ![g] = "range"]
  /\ workers' = workers + 1
  /\ wg' = SpawnWg
  /\ loop' = "block"
  /\ UNCHANGED <<deadline, chanVars, seqmu, stopVars, call>>

\* The deferred function: close(ticks), wg.Wait, close(results), Stop.
CloseTicks ==
  /\ loop = "closeTicks"
  /\ ticks' = "closed"
  /\ loop' = "wait"
  /\ UNCHANGED <<workers, deadline, wg, results, pc, seqmu, stopVars, call>>

Wait ==
  /\ loop = "wait"
  /\ wg = 0
  /\ loop' = "closeResults"
  /\ UNCHANGED <<workers, deadline, wg, chanVars, pc, seqmu, stopVars, call>>

CloseResults ==
  /\ loop = "closeResults"
  /\ results' = "closed"
  /\ loop' = "stopping"
  /\ call' = [call EXCEPT ![Loop] = "check"]
  /\ UNCHANGED <<workers, deadline, wg, ticks, pc, seqmu, stopVars>>

LoopReturns ==
  /\ loop = "stopping"
  /\ Returned(Loop)
  /\ loop' = "done"
  /\ UNCHANGED <<workers, deadline, wg, chanVars, pc, seqmu, stopVars, call>>

\* The attack is over; a program may run on without it.
Over == loop = "done" /\ UNCHANGED vars

-----------------------------------------------------------------------------
StopStep(c) == StopCheck(c) \/ StopClose(c)

\* The steps of a worker that do not touch the data of its hit ...
PlainStep(g) == Park(g) \/ Leave(g) \/ Lock(g) \/ TargetOK(g) \/ TargetErr(g)

\* ... and those that do.
HitStep(g) == Stamp(g) \/ Number(g) \/ StopReturns(g) \/ Request(g)

LoopStep == DurationOver \/ PaceStops \/ Wake \/ SeeStop \/ CloseTicks \/ Wait
              \/ CloseResults \/ LoopReturns

Next ==
  \/ \E c \in Callers : StopStep(c)
  \/ \E s \in Stoppers : CallStop(s)
  \/ \E g \in Goroutines : PlainStep(g) \/ HitStep(g) \/ Receive(g)
  \/ \E g \in Goroutines : SendTick(g) \/ Spawn(g)
  \/ LoopStep
  \/ PaceWaits
  \/ Elapse
  \/ Over

Spec == Init /\ [][Next]_vars

(***************************************************************************)
(* Every goroutine is scheduled, time passes, a hit ends (the client has a *)
(* timeout) and the program keeps reading results.  Lock is strongly fair  *)
(* because Go's mutex hands itself to the longest waiter, SeeStop because  *)
(* a select with several ready cases picks one at random.                  *)
(***************************************************************************)
Fairness ==
  /\ \A c \in Callers : WF_vars(StopStep(c))
  /\ \A g \in Goroutines :
       /\ WF_vars(Park(g) \/ Leave(g))
       /\ SF_vars(Lock(g))
       /\ WF_vars(TargetOK(g) \/ TargetErr(g))
       /\ WF_vars(HitStep(g))
       /\ WF_vars(Receive(g))
  /\ WF_vars(LoopStep \/ PaceWaits \/ \E g \in Goroutines : SendTick(g) \/ Spawn(g))
  /\ SF_vars(SeeStop)
  /\ WF_vars(Elapse)

FairSpec == Spec /\ Fairness

-----------------------------------------------------------------------------
(* Every variable keeps its type; in particular the WaitGroup's counter    *)
(* never becomes negative, which panics (lib/attack.go, Attack and attack).*)
TypeOK ==
  /\ loop \in LoopStates
  /\ workers \in Nat
  /\ wg \in Nat
  /\ ticks \in {"open", "closed"}
  /\ results \in {"open", "closed"}
  /\ deadline \in {"none", "pending", "passed"}
  /\ pc \in [Goroutines -> PcStates]
  /\ seqmu \in SUBSET Goroutines
  /\ stopch \in Nat
  /\ stopOnce \in BOOLEAN
  /\ call \in [Callers -> CallStates]

(* When the deferred function of Attack closes the results channel no      *)
(* worker can still send on it (a send on a closed channel panics), not    *)
(* even one that was started while the loop was about to stop.             *)
SafeClose ==
  results = "closed" => \A g \in Goroutines : pc[g] \in {"unborn", "done"}

(* However many goroutines call Stop, and however their calls interleave,  *)
(* stopch is closed at most once (a second close panics); and it is closed *)
(* when the attack has ended, which is what ends the goroutine that        *)
(* DNSCaching started.                                                     *)
StopLatch ==
  /\ stopch <= 1
  /\ loop = "done" => stopch = 1

(* At most one worker is in the section of hit that reads the clock and    *)
(* takes a sequence number.                                                *)
MutualExclusion ==
  \A g, h \in Goroutines : pc[g] \in Critical /\ pc[h] \in Critical => g = h

(* The workers started on demand by the loop never outnumber maxWorkers.   *)
WorkersBounded ==
  Cardinality({g \in Goroutines : pc[g] # "unborn"}) <= MaxWorkers

-----------------------------------------------------------------------------
(* Why these hold.  The WaitGroup counts the active workers, so none is    *)
(* left when Wait returns, and from then on nothing starts one.            *)
PoolInv ==
  /\ wg = Cardinality(Active)
  /\ loop \in {"closeResults", "stopping", "done"} => Active = {}
  /\ results = "closed" => loop \in {"stopping", "done"}

\* The Once runs at most once, and before any call of Stop has returned.
StopInv ==
  /\ stopch = IF stopOnce THEN 1 ELSE 0
  /\ \A c \in Callers : Returned(c) => stopOnce
  /\ loop = "done" => stopOnce

\* The holders of the mutex are the workers in its critical section.
MutexInv ==
  /\ seqmu = {g \in Goroutines : pc[g] \in Critical}
  /\ MutualExclusion

Born == {g \in Goroutines : pc[g] # "unborn"}

\* The loop's own count is the number of workers there are.
BornInv ==
  /\ workers = Cardinality(Born)
  /\ workers <= MaxWorkers
  /\ loop = "try" => workers < MaxWorkers

(* The inductive invariant of the attack: the WaitGroup's counter is the   *)
(* number of workers running, the Once is what closes stopch, seqmu's      *)
(* holder is the worker in hit's critical section, and the loop's count of *)
(* workers is exact.                                                       *)
AttackInv == TypeOK /\ PoolInv /\ StopInv /\ MutexInv /\ BornInv

(* Once Stop has been called, by the program or by a hit whose targeter    *)
(* failed, the attack ends: the reader of Attack's channel sees it closed. *)
StopEndsAttack == stopch > 0 ~> results = "closed"

(* An attack that was given a duration ends after it.                      *)
DurationEndsAttack == deadline = "passed" ~> results = "closed"

(* Every tick that reached a worker becomes a result that is delivered.    *)
TicksAnswered ==
  \A g \in Goroutines : pc[g] = "lock" ~> pc[g] = "range"

=============================================================================
