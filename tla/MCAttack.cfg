\* No worker at first, at most two of three; one goroutine of the program calls Stop.
CONSTANTS
  Goroutines = {g1, g2, g3}
  Loop = Loop
  Stoppers = {s1}
  Workers = 0
  MaxWorkers = 2
SPECIFICATION FairSpec
INVARIANTS
  TypeOK
  SafeClose
  StopLatch
  MutualExclusion
  WorkersBounded
  AttackInv
PROPERTIES
  StopEndsAttack
  DurationEndsAttack
  TicksAnswered
