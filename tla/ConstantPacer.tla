---------------------------- MODULE ConstantPacer ----------------------------
(***************************************************************************)
(* ConstantPacer.Pace in the arithmetic of the machine.  MaxInt stands for *)
(* math.MaxInt64: int64 and time.Duration range over -MaxInt-1 .. MaxInt,  *)
(* uint64 over 0 .. 2*MaxInt+1, and both wrap around.                      *)
(***************************************************************************)
EXTENDS Integers

CONSTANTS
  Freq,    \* cp.Freq, hits per ...
  Per,     \* cp.Per, in nanoseconds
  MaxInt   \* math.MaxInt64

ASSUME PacerAssumption ==
  /\ MaxInt \in Nat
  /\ Freq \in -(MaxInt + 1) .. MaxInt
  /\ Per \in -(MaxInt + 1) .. MaxInt

Word == 2 * (MaxInt + 1)

Unsigned(n) == n % Word

Signed(n) == IF Unsigned(n) <= MaxInt THEN Unsigned(n) ELSE Unsigned(n) - Word

\* The rate is one that Pace computes with: neither infinite nor negative.
Finite == Per > 0 /\ Freq > 0

\* interval, in nanoseconds between two hits; 0 when Freq exceeds Per.
Interval == Per \div Freq

\* Mutant: running behind when exactly as many hits as expected were sent.
ExpectedHitsPlusOne(elapsed) == Unsigned(Freq * (elapsed \div Per)) + 1

ExpectedHits(elapsed) == Unsigned(Freq * (elapsed \div Per))

\* Mutant: the first hit is due at once, the others an interval apart.
DeltaEarly(hits) == Signed(hits * Interval)

\* The next hit is due at the end of its interval.
Delta(hits) == Signed((hits + 1) * Interval)

Answer(wait, stop) == [wait |-> wait, stop |-> stop, panic |-> FALSE]

\* Dividing MaxInt by an interval of 0 panics.
DivideByZero == [wait |-> 0, stop |-> FALSE, panic |-> TRUE]

\* Mutant: the time that has already elapsed is not taken off the wait.
PaceNotElapsed(elapsed, hits) ==
  IF Per = 0 \/ Freq = 0 THEN Answer(0, FALSE)
  ELSE IF ~Finite THEN Answer(0, TRUE)
  ELSE IF hits < ExpectedHits(elapsed) THEN Answer(0, FALSE)
  ELSE IF Interval = 0 THEN DivideByZero
  ELSE IF MaxInt \div Interval < hits THEN Answer(0, TRUE)
  ELSE Answer(Delta(hits), FALSE)

Pace(elapsed, hits) ==
  IF Per = 0 \/ Freq = 0 THEN Answer(0, FALSE)
  ELSE IF ~Finite THEN Answer(0, TRUE)
  ELSE IF hits < ExpectedHits(elapsed) THEN Answer(0, FALSE)
  ELSE IF Interval = 0 THEN DivideByZero
  ELSE IF MaxInt \div Interval < hits THEN Answer(0, TRUE)
  ELSE Answer(Signed(Delta(hits) - elapsed), FALSE)

=============================================================================
