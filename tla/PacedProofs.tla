----------------------------- MODULE PacedProofs -----------------------------
(***************************************************************************)
(* Proofs about the paced loop, for every rate, every duration and every   *)
(* width of the machine's integers: the wrap-around of Pace's arithmetic   *)
(* is part of what is proved.                                              *)
(***************************************************************************)
EXTENDS PacedAttack, TLAPS

(* Multiplication by a natural number is monotonic.                        *)
LEMMA TimesMonotonic ==
  ASSUME NEW a \in Int, NEW b \in Int, NEW c \in Nat, a <= b
  PROVE  a * c <= b * c
OBVIOUS

(* Division rounds down.                                                   *)
LEMMA Division ==
  ASSUME NEW a \in Nat, NEW b \in Nat \ {0}
  PROVE  /\ a \div b \in Nat
         /\ b * (a \div b) <= a
         /\ a < b * (a \div b) + b
         /\ a % b \in Nat
         /\ a = b * (a \div b) + (a % b)
OBVIOUS

(* Converting to uint64 adds the size of a word as often as needed.        *)
LEMMA Residue ==
  ASSUME NEW w \in Nat \ {0}, NEW x \in Int
  PROVE  /\ x \in 0 .. (w - 1) => x % w = x
         /\ x \in (-w) .. (-1) => x % w = x + w
         /\ x \in (-2 * w) .. (-w - 1) => x % w = x + 2 * w
OBVIOUS

(* uint64 of a natural number is a natural number and not larger.          *)
LEMMA UnsignedBound ==
  ASSUME NEW x \in Nat
  PROVE  Unsigned(x) \in Nat /\ Unsigned(x) <= x
<1>1. Word \in Nat \ {0}
  BY PacerAssumption DEF Word
<1>2. \A w \in Nat \ {0} : x % w \in Nat /\ x % w <= x
  OBVIOUS
<1>3. QED
  BY <1>1, <1>2 DEF Unsigned

(* The interval of a finite rate, times the frequency, fits in the period. *)
LEMMA IntervalBound ==
  ASSUME Finite
  PROVE  /\ Interval \in Nat
         /\ Freq * Interval <= Per
         /\ Interval <= Per
<1>1. Per \in Nat \ {0} /\ Freq \in Nat \ {0}
  BY PacerAssumption DEF Finite
<1>2. Interval \in Nat /\ Freq * Interval <= Per
  BY <1>1, Division DEF Interval
<1>3. 1 * Interval <= Freq * Interval
  BY <1>1, <1>2, TimesMonotonic
<1>4. QED
  BY <1>1, <1>2, <1>3

(* Running behind: the hits expected by now are all due by now, by the     *)
(* rounded interval and by the exact rate.                                 *)
LEMMA BehindIsDue ==
  ASSUME Finite, NEW elapsed \in Nat, NEW hits \in Nat, hits < ExpectedHits(elapsed)
  PROVE  /\ (hits + 1) * Interval <= elapsed
         /\ (hits + 1) * Per <= Freq * elapsed
<1> DEFINE q == elapsed \div Per
<1>1. Per \in Nat \ {0} /\ Freq \in Nat \ {0} /\ Interval \in Nat
  BY PacerAssumption, IntervalBound DEF Finite
<1>2. q \in Nat /\ Per * q <= elapsed
  BY <1>1, Division
<1> HIDE DEF q
<1>3. Freq * q \in Nat
  BY <1>1, <1>2
<1>4. hits + 1 <= Freq * q
  BY <1>3, UnsignedBound DEF ExpectedHits, q
<1>5. (hits + 1) * Interval <= elapsed
  <2>1. (hits + 1) * Interval <= (Freq * q) * Interval
    BY <1>1, <1>3, <1>4, TimesMonotonic
  <2>2. (Freq * q) * Interval = (Freq * Interval) * q
    BY <1>1, <1>2
  <2>3. (Freq * Interval) * q <= Per * q
    <3>1. Freq * Interval \in Int
      BY <1>1
    <3>2. QED
      BY <1>1, <1>2, <3>1, IntervalBound, TimesMonotonic
  <2>4. (hits + 1) * Interval \in Int /\ (Freq * q) * Interval \in Int /\ Per * q \in Int
    BY <1>1, <1>2
  <2>5. QED
    BY <1>2, <2>1, <2>2, <2>3, <2>4
<1>6. (hits + 1) * Per <= Freq * elapsed
  <2>1. (hits + 1) * Per <= (Freq * q) * Per
    BY <1>1, <1>3, <1>4, TimesMonotonic
  <2>2. (Freq * q) * Per = (Per * q) * Freq
    BY <1>1, <1>2
  <2>3. (Per * q) * Freq <= elapsed * Freq
    <3>1. Per * q \in Int
      BY <1>1, <1>2
    <3>2. QED
      BY <1>1, <1>2, <3>1, TimesMonotonic
  <2>4. elapsed * Freq = Freq * elapsed
    BY <1>1
  <2>5. (hits + 1) * Per \in Int /\ (Freq * q) * Per \in Int /\ elapsed * Freq \in Int
    BY <1>1, <1>2
  <2>6. QED
    BY <2>1, <2>2, <2>3, <2>4, <2>5
<1>7. QED
  BY <1>5, <1>6

(* delta may overflow, but the subtraction of elapsed wraps back: as long  *)
(* as the attack is not ahead the wait is what is left of the interval.    *)
LEMMA WaitIsExact ==
  ASSUME Finite, NEW elapsed \in 0 .. MaxInt, NEW hits \in Nat,
         hits * Interval <= elapsed
  PROVE  Signed(Delta(hits) - elapsed) = (hits + 1) * Interval - elapsed
<1> DEFINE d == (hits + 1) * Interval
<1>1. Interval \in Nat /\ Interval <= MaxInt /\ MaxInt \in Nat
  BY PacerAssumption, IntervalBound DEF Finite
<1>2. d = hits * Interval + Interval /\ hits * Interval \in Nat
  BY <1>1
<1> HIDE DEF d
<1>3. d \in 0 .. 2 * MaxInt /\ d - elapsed <= MaxInt /\ d - elapsed >= -MaxInt
  BY <1>1, <1>2
<1>4. Word \in Nat \ {0} /\ Word = 2 * MaxInt + 2
  BY <1>1 DEF Word
<1>5. Unsigned(d) = d
  BY <1>1, <1>3, <1>4, Residue DEF Unsigned
<1>6. Delta(hits) = IF d <= MaxInt THEN d ELSE d - Word
  BY <1>5 DEF Delta, Signed, d
<1>7. CASE Delta(hits) = d
  <2>1. d - elapsed >= 0 => Unsigned(d - elapsed) = d - elapsed
    BY <1>1, <1>3, <1>4, Residue DEF Unsigned
  <2>2. d - elapsed < 0 => Unsigned(d - elapsed) = d - elapsed + Word
    BY <1>1, <1>3, <1>4, Residue DEF Unsigned
  <2>3. QED
    BY <1>1, <1>3, <1>4, <1>7, <2>1, <2>2 DEF Signed, d
<1>8. CASE Delta(hits) = d - Word
  <2> DEFINE e == d - Word - elapsed
  <2>1. d - elapsed >= 0 => Unsigned(e) = d - elapsed
    BY <1>1, <1>3, <1>4, Residue DEF Unsigned
  <2>2. d - elapsed < 0 => Unsigned(e) = d - elapsed + Word
    BY <1>1, <1>3, <1>4, Residue DEF Unsigned
  <2>3. QED
    BY <1>1, <1>3, <1>4, <1>8, <2>1, <2>2 DEF Signed, d
<1>9. QED
  BY <1>6, <1>7, <1>8

-----------------------------------------------------------------------------
(* What Pace answers an attack that is not ahead of its rate: it panics or *)
(* stops, or the rate is infinite, or the next hit is due, or the wait is  *)
(* exactly what is left until it is.                                       *)
LEMMA PaceAnswer ==
  ASSUME NEW elapsed \in 0 .. MaxInt, NEW hits \in Nat,
         Finite => hits * Interval <= elapsed
  PROVE  \/ Pace(elapsed, hits) = DivideByZero
         \/ Pace(elapsed, hits) = Answer(0, TRUE)
         \/ /\ Pace(elapsed, hits) = Answer(0, FALSE)
            /\ Finite => /\ (hits + 1) * Interval <= elapsed
                         /\ (hits + 1) * Per <= Freq * elapsed
         \/ /\ Pace(elapsed, hits) = Answer((hits + 1) * Interval - elapsed, FALSE)
            /\ Finite /\ Interval # 0
<1>1. CASE Per = 0 \/ Freq = 0
  <2>1. ~Finite
    BY <1>1 DEF Finite
  <2>2. QED
    BY <1>1, <2>1 DEF Pace
<1>2. CASE ~(Per = 0 \/ Freq = 0) /\ ~Finite
  BY <1>2 DEF Pace
<1>3. CASE ~(Per = 0 \/ Freq = 0) /\ Finite /\ hits < ExpectedHits(elapsed)
  <2>1. (hits + 1) * Interval <= elapsed /\ (hits + 1) * Per <= Freq * elapsed
    BY <1>3, BehindIsDue
  <2>2. Pace(elapsed, hits) = Answer(0, FALSE)
    BY <1>3 DEF Pace
  <2>3. QED
    BY <2>1, <2>2
<1>4. CASE ~(Per = 0 \/ Freq = 0) /\ Finite /\ ~(hits < ExpectedHits(elapsed))
  <2>1. Signed(Delta(hits) - elapsed) = (hits + 1) * Interval - elapsed
    BY <1>4, WaitIsExact
  <2>2. \/ Pace(elapsed, hits) = DivideByZero
        \/ Pace(elapsed, hits) = Answer(0, TRUE)
        \/ /\ Pace(elapsed, hits) = Answer(Signed(Delta(hits) - elapsed), FALSE)
           /\ Interval # 0
    BY <1>4 DEF Pace
  <2>3. QED
    BY <1>4, <2>1, <2>2
<1>5. QED
  BY <1>1, <1>2, <1>3, <1>4

(* The loop starts on time.                                                *)
LEMMA PacedStart == PacedInit => PacedInv
<1> SUFFICES ASSUME PacedInit PROVE PacedInv
  OBVIOUS
<1>1. PacedTypeOK
  BY PacedAssumption DEF PacedInit, PacedTypeOK
<1>2. Finite => Interval \in Nat /\ Per \in Nat /\ Freq \in Nat
  BY IntervalBound, PacerAssumption DEF Finite
<1>3. DueInv
  BY <1>2 DEF PacedInit, DueInv
<1>4. LateInv
  BY <1>2, PacedAssumption DEF PacedInit, LateInv
<1>5. QED
  BY <1>1, <1>3, <1>4 DEF PacedInv

(* Calling the pacer keeps the invariant.                                  *)
LEMMA CallPaceStep ==
  ASSUME PacedInv, CallPace
  PROVE  PacedInv'
<1> DEFINE p == Pace(now, count)
           due == (count + 1) * Interval
<1>1. /\ now \in 0 .. MaxInt /\ now \in 0 .. MaxTime /\ count \in Nat /\ du \in Nat
      /\ late \in Nat
  BY PacerAssumption, PacedAssumption DEF PacedInv, PacedTypeOK
<1>2. /\ Finite => Interval \in Nat
      /\ Finite => count * Interval <= now
      /\ Finite => due \in Int /\ count * Interval \in Int
  BY <1>1, IntervalBound DEF PacedInv, DueInv
<1>3. UNCHANGED <<now, du, count, late>> /\ at = "check" /\ ~TimeIsUp
  BY DEF CallPace
<1>4. /\ at' \in {"panic", "over", "sleep"}
      /\ wake' \in Nat
      /\ Finite /\ at' = "sleep" =>
           /\ due <= wake' /\ (wake' <= now \/ wake' = due)
           /\ Interval = 0 => (count + 1) * Per <= Freq * now
  <2>1. CASE p = DivideByZero \/ p = Answer(0, TRUE)
    BY <1>1, <2>1 DEF CallPace, DivideByZero, Answer
  <2>2. CASE /\ p = Answer(0, FALSE)
             /\ Finite => due <= now /\ (count + 1) * Per <= Freq * now
    BY <1>1, <2>2 DEF CallPace, Answer
  <2>3. CASE p = Answer(due - now, FALSE) /\ Finite /\ Interval # 0
    <3> HIDE DEF due
    <3>1. at' = "sleep" /\ wake' = IF due - now > 0 THEN now + (due - now) ELSE now
      BY <2>3 DEF CallPace, Answer
    <3>2. QED
      BY <1>1, <1>2, <2>3, <3>1
  <2>4. QED
    BY <1>1, <1>2, <2>1, <2>2, <2>3, PaceAnswer
<1>5. PacedTypeOK'
  BY <1>3, <1>4 DEF PacedInv, PacedTypeOK, Over
<1>6. DueInv'
  <2>1. Finite /\ Interval = 0 => count * Per <= Freq * now
    BY DEF PacedInv, DueInv
  <2>2. QED
    BY <1>2, <1>3, <1>4, <2>1 DEF DueInv
<1>7. LateInv'
  <2>1. du > 0 => now <= du
    BY <1>1, <1>3 DEF TimeIsUp
  <2>2. Finite /\ du > 0 => count * Interval <= du
    BY <1>1, <1>2, <2>1
  <2>3. ~(late > 0)
    BY <1>3 DEF PacedInv, LateInv
  <2>4. QED
    BY <1>3, <2>2, <2>3 DEF PacedInv, LateInv, TimeIsUp
<1>8. QED
  BY <1>5, <1>6, <1>7 DEF PacedInv

(* Sending a hit: the next one cannot be due before its own interval.      *)
LEMMA SendStep ==
  ASSUME PacedInv, Send
  PROVE  PacedInv'
<1>1. now \in Nat /\ count \in Nat /\ du \in Nat /\ late \in Nat
  BY PacedAssumption DEF PacedInv, PacedTypeOK
<1>2. UNCHANGED <<now, du, wake>> /\ count' = count + 1 /\ at = "send" /\ at' = "check"
  BY DEF Send
<1>3. late = 0 /\ late' = IF TimeIsUp THEN 1 ELSE 0
  BY <1>1, <1>2 DEF Send, PacedInv, LateInv
<1>4. PacedTypeOK'
  BY <1>1, <1>2, <1>3 DEF PacedInv, PacedTypeOK, Over
<1>5. DueInv'
  BY <1>2 DEF PacedInv, DueInv
<1>6. LateInv'
  <2>1. (count' - 1) * Interval = count * Interval
    BY <1>1, <1>2
  <2>2. QED
    BY <1>2, <1>3, <2>1 DEF PacedInv, LateInv, TimeIsUp
<1>7. QED
  BY <1>4, <1>5, <1>6 DEF PacedInv

(* PacedInv is preserved by every step.                                    *)
LEMMA PacedStep ==
  ASSUME PacedInv, [PacedNext]_pacedVars
  PROVE  PacedInv'
<1>1. now \in Nat /\ count \in Nat /\ du \in Nat /\ late \in Nat /\ wake \in Nat
  BY PacedAssumption DEF PacedInv, PacedTypeOK
<1>2. Finite => /\ count * Interval \in Int /\ (count + 1) * Interval \in Int
                /\ count * Per \in Int /\ (count + 1) * Per \in Int
                /\ Freq \in Nat /\ Freq * now \in Int
  BY <1>1, IntervalBound, PacerAssumption DEF Finite
<1>3. CASE Tick
  <2>1. PacedTypeOK'
    BY <1>1, <1>3, PacedAssumption DEF Tick, PacedInv, PacedTypeOK
  <2>2. DueInv'
    <3>1. UNCHANGED <<count, at, wake>> /\ now' = now + 1
      BY <1>3 DEF Tick
    <3>2. ASSUME Finite PROVE Freq * now <= Freq * now' /\ Freq * now' \in Int
      <4>1. Freq * now' = Freq * now + Freq
        BY <1>1, <1>2, <3>1, <3>2
      <4>2. QED
        BY <1>2, <3>2, <4>1
    <3>3. QED
      BY <1>1, <1>2, <3>1, <3>2 DEF PacedInv, DueInv
  <2>3. LateInv'
    BY <1>1, <1>3 DEF Tick, PacedInv, LateInv, TimeIsUp
  <2>4. QED
    BY <2>1, <2>2, <2>3 DEF PacedInv
<1>4. CASE CheckDuration \/ SeeStop
  BY <1>4 DEF CheckDuration, SeeStop, PacedInv, PacedTypeOK, DueInv, LateInv, TimeIsUp, Over
<1>5. CASE CallPace
  BY <1>5, CallPaceStep
<1>6. CASE Wake
  <2>1. PacedTypeOK' /\ LateInv'
    BY <1>6 DEF Wake, PacedInv, PacedTypeOK, LateInv, TimeIsUp
  <2>2. DueInv'
    BY <1>1, <1>2, <1>6 DEF Wake, PacedInv, DueInv
  <2>3. QED
    BY <2>1, <2>2 DEF PacedInv
<1>7. CASE Send
  BY <1>7, SendStep
<1>8. CASE UNCHANGED pacedVars
  BY <1>8 DEF pacedVars, PacedInv, PacedTypeOK, DueInv, LateInv, TimeIsUp
<1>9. QED
  BY <1>3, <1>4, <1>5, <1>6, <1>7, <1>8 DEF PacedNext

-----------------------------------------------------------------------------
(* PacedInv is an invariant of the paced loop, for every rate, duration    *)
(* and width of the integers.                                              *)
THEOREM PacedInvariant == PacedSpec => []PacedInv
BY PacedStart, PacedStep, PTL DEF PacedSpec

(* Rounding the interval down is all that can take a hit ahead of its      *)
(* rate, although delta may overflow.                                      *)
THEOREM PacedRateKept == PacedSpec => []RateKept
<1>1. ASSUME PacedInv PROVE RateKept
  <2> SUFFICES ASSUME Finite
               PROVE  /\ count * Per <= Freq * now + count * (Per % Freq)
                      /\ Per % Freq = 0 \/ Interval = 0 => count * Per <= Freq * now
    BY DEF RateKept
  <2>1. now \in Nat /\ count \in Nat
    BY <1>1, PacedAssumption DEF PacedInv, PacedTypeOK
  <2>2. Per \in Nat \ {0} /\ Freq \in Nat \ {0} /\ Interval \in Nat
    BY PacerAssumption, IntervalBound DEF Finite
  <2> DEFINE r == Per % Freq
  <2>3. r \in Nat /\ Per = Freq * Interval + r
    BY <2>2, Division DEF Interval
  <2> HIDE DEF r
  <2>4. count * Interval <= now
    BY <1>1 DEF PacedInv, DueInv
  <2>5. (count * Interval) * Freq <= now * Freq
    <3>1. count * Interval \in Int
      BY <2>1, <2>2
    <3>2. QED
      BY <2>1, <2>2, <2>4, <3>1, TimesMonotonic
  <2>6. count * Per = (count * Interval) * Freq + count * r
    <3>1. count * (Freq * Interval + r) = count * (Freq * Interval) + count * r
      BY <2>1, <2>2, <2>3
    <3>2. count * (Freq * Interval) = (count * Interval) * Freq
      BY <2>1, <2>2
    <3>3. QED
      BY <2>3, <3>1, <3>2
  <2>7. now * Freq = Freq * now /\ Freq * now \in Int /\ (count * Interval) * Freq \in Int
    BY <2>1, <2>2
  <2>8. count * r \in Int /\ (r = 0 => count * r = 0)
    BY <2>1, <2>3
  <2>9. count * Per <= Freq * now + count * r
    BY <2>5, <2>6, <2>7, <2>8
  <2>10. r = 0 => count * Per <= Freq * now
    BY <2>5, <2>6, <2>7, <2>8
  <2>11. Interval = 0 => count * Per <= Freq * now
    BY <1>1 DEF PacedInv, DueInv
  <2>12. QED
    BY <2>9, <2>10, <2>11 DEF r
<1>2. QED
  BY <1>1, PacedInvariant, PTL

(* Pace never makes the loop sleep past the time the next hit is due.      *)
THEOREM PacedNeverOversleeps == PacedSpec => []NeverOversleeps
<1>1. ASSUME PacedInv PROVE NeverOversleeps
  <2>1. now \in Int /\ wake \in Int
    BY <1>1, PacedAssumption DEF PacedInv, PacedTypeOK
  <2>2. QED
    BY <1>1, <2>1 DEF PacedInv, DueInv, NeverOversleeps
<1>2. QED
  BY <1>1, PacedInvariant, PTL

(* At most one hit is sent after the duration, and at most one more than   *)
(* fits in it.                                                             *)
THEOREM PacedOneLateHit == PacedSpec => []OneLateHit
<1>1. ASSUME PacedInv PROVE OneLateHit
  <2>1. count \in Nat /\ du \in Nat /\ late \in Nat
    BY <1>1, PacedAssumption DEF PacedInv, PacedTypeOK
  <2>2. late <= 1
    BY <1>1, <2>1 DEF PacedInv, LateInv
  <2>3. ASSUME Finite, du > 0, Interval > 0
        PROVE  count <= du \div Interval + 1
    <3> DEFINE q == du \div Interval
    <3>1. Interval \in Nat \ {0}
      BY <2>3, IntervalBound
    <3>2. q \in Nat /\ du < Interval * q + Interval
      BY <2>1, <3>1, Division
    <3>3. (count - 1) * Interval <= du
      BY <1>1, <2>3 DEF PacedInv, LateInv
    <3> HIDE DEF q
    <3>4. SUFFICES ASSUME count - 1 >= q + 1 PROVE FALSE
      BY <2>1, <3>2 DEF q
    <3>5. (q + 1) * Interval <= (count - 1) * Interval
      BY <2>1, <3>1, <3>2, <3>4, TimesMonotonic
    <3>6. (q + 1) * Interval = Interval * q + Interval
      BY <3>1, <3>2
    <3>7. (count - 1) * Interval \in Int /\ Interval * q \in Int
      BY <2>1, <3>1, <3>2
    <3>8. QED
      BY <2>1, <3>1, <3>2, <3>3, <3>5, <3>6, <3>7
  <2>4. QED
    BY <2>2, <2>3 DEF OneLateHit
<1>2. QED
  BY <1>1, PacedInvariant, PTL

=============================================================================
