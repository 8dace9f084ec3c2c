CONSTANTS
  Freq = 2
  Per = 7
  MaxInt = 25
  MaxTime = 25
  Durations <- SomeDurations
SPECIFICATION PacedSpec
CHECK_DEADLOCK FALSE
INVARIANTS
  RateKept
  NeverOversleeps
  OneLateHit
  PacedInv
