CONSTANTS
  Goroutines = {g1, g2}
  Loop = Loop
  Main = Main
  Stoppers = {Main}
  Workers = 1
  MaxWorkers = 2
  MaxSignals = 2
SPECIFICATION CmdFairSpec
INVARIANTS
  CmdTypeOK
  CleanExit
PROPERTIES
  SignalEndsCommand
  SecondSignalExits
