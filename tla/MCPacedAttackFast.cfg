CONSTANTS
  Freq = 4
  Per = 3
  MaxInt = 31
  MaxTime = 25
  Durations <- SomeDurations
SPECIFICATION PacedSpec
CHECK_DEADLOCK FALSE
INVARIANT NoPanic
