----------------------------- MODULE PacedAttack -----------------------------
(***************************************************************************)
(* The pacing goroutine of Attack with a ConstantPacer and a clock.  The   *)
(* workers are left out: a tick is taken when some worker is free, which   *)
(* may be at any time.  Every other step may take time too: Sleep may      *)
(* oversleep and the goroutine may be scheduled late.                      *)
(***************************************************************************)
EXTENDS ConstantPacer

CONSTANTS
  Durations,   \* the durations du an attack may be given; 0 is for ever
  MaxTime      \* bound on the clock, at most MaxInt

ASSUME PacedAssumption ==
  /\ Durations \subseteq Nat
  /\ MaxTime \in 0 .. MaxInt

VARIABLES
  now,     \* time since atk.began
  du,      \* the attack's duration
  count,   \* hits sent
  at,      \* where the goroutine is
  wake,    \* when its Sleep ends
  late     \* hits sent after the duration was over

pacedVars == <<now, du, count, at, wake, late>>

Over == {"over", "panic"}

PacedInit ==
  /\ now = 0
  /\ du \in Durations
  /\ count = 0
  /\ at = "check"
  /\ wake = 0
  /\ late = 0

Tick ==
  /\ at \notin Over
  /\ now < MaxTime
  /\ now' = now + 1
  /\ UNCHANGED <<du, count, at, wake, late>>

TimeIsUp == du > 0 /\ now > du

CheckDuration ==
  /\ at = "check"
  /\ TimeIsUp
  /\ at' = "over"
  /\ UNCHANGED <<now, du, count, wake, late>>

\* wait, stop := p.Pace(elapsed, count); a wait of 0 or less does not sleep.
CallPace ==
  /\ at = "check"
  /\ ~TimeIsUp
  /\ LET p == Pace(now, count) IN
       /\ at' = IF p.panic THEN "panic" ELSE IF p.stop THEN "over" ELSE "sleep"
       /\ wake' = IF p.wait > 0 THEN now + p.wait ELSE now
  /\ UNCHANGED <<now, du, count, late>>

Wake ==
  /\ at = "sleep"
  /\ now >= wake
  /\ at' = "send"
  /\ UNCHANGED <<now, du, count, wake, late>>

\* Mutant: the loop goes back to the select after a hit, without pacing.
SendUnpaced ==
  /\ at = "send"
  /\ count' = count + 1
  /\ at' \in {"check", "send"}
  /\ late' = IF TimeIsUp THEN late + 1 ELSE late
  /\ UNCHANGED <<now, du, wake>>

\* A worker takes the tick.
Send ==
  /\ at = "send"
  /\ count' = count + 1
  /\ at' = "check"
  /\ late' = IF TimeIsUp THEN late + 1 ELSE late
  /\ UNCHANGED <<now, du, wake>>

SeeStop ==
  /\ at = "send"
  /\ at' = "over"
  /\ UNCHANGED <<now, du, count, wake, late>>

PacedNext ==
  \/ Tick
  \/ CheckDuration
  \/ CallPace
  \/ Wake
  \/ Send
  \/ SeeStop

PacedSpec == PacedInit /\ [][PacedNext]_pacedVars

-----------------------------------------------------------------------------
(* The clock and the counters of the loop keep their types.                *)
PacedTypeOK ==
  /\ now \in 0 .. MaxTime
  /\ du \in Durations
  /\ count \in Nat
  /\ at \in {"check", "sleep", "send"} \cup Over
  /\ wake \in Nat
  /\ late \in Nat

(* The README on -rate: the actual rate can vary slightly but stays very   *)
(* close to the one given.  Hit k is exactly on its rate at k * Per / Freq *)
(* nanoseconds.  Pace rounds the interval between two hits down to whole   *)
(* nanoseconds, so hit k may be sent before that, but by no more than the  *)
(* k fractions that were cut off: never when Freq divides Per, and never   *)
(* when the interval is rounded down to 0, where the loop sends only the   *)
(* hits it is behind with.  This holds however often and however long the  *)
(* loop was delayed, and whichever of Pace's cases made it catch up.       *)
RateKept ==
  Finite =>
    /\ count * Per <= Freq * now + count * (Per % Freq)
    /\ Per % Freq = 0 \/ Interval = 0 => count * Per <= Freq * now

(* Pace never makes the loop sleep past the time the next hit is due, so a *)
(* loop that was delayed catches up.                                       *)
NeverOversleeps ==
  Finite /\ at = "sleep" /\ wake > now => wake <= (count + 1) * Interval

(* The loop looks at the duration only before it paces a hit, so a hit may *)
(* be sent after the duration; but never a second one, nor one more than   *)
(* fits in the duration.                                                   *)
OneLateHit ==
  /\ late <= 1
  /\ Finite /\ du > 0 /\ Interval > 0 => count <= du \div Interval + 1

(* The README on -rate: any rate can be given and is overall kept to.  The *)
(* pacing goroutine does not panic.                                        *)
NoPanic == at # "panic"

-----------------------------------------------------------------------------
\* The hit that is being paced is not sent before it is due, nor, without an
\* interval to wait for, before the rate allows it ...
DueInv ==
  Finite =>
    /\ count * Interval <= now
    /\ Interval = 0 =>
         /\ count * Per <= Freq * now
         /\ at \in {"sleep", "send"} => (count + 1) * Per <= Freq * now
    /\ at = "sleep" => /\ (count + 1) * Interval <= wake
                       /\ wake <= now \/ wake = (count + 1) * Interval
    /\ at = "send" => (count + 1) * Interval <= now

\* ... and one that is paced before the end of the duration is the last that
\* may be sent after it.
LateInv ==
  /\ late > 0 => late = 1 /\ TimeIsUp /\ at \notin {"sleep", "send"}
  /\ Finite /\ du > 0 =>
       /\ (count - 1) * Interval <= du
       /\ at \in {"sleep", "send"} => count * Interval <= du

(* The inductive invariant of the paced loop: a hit that is being paced    *)
(* wakes when it is due or late, and one that is late was paced in time.   *)
PacedInv == PacedTypeOK /\ DueInv /\ LateInv

=============================================================================
