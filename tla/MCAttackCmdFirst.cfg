CONSTANTS
  Goroutines = {g1, g2}
  Loop = Loop
  Main = Main
  Stoppers = {Main}
  Workers = 1
  MaxWorkers = 2
  MaxSignals = 2
SPECIFICATION CmdSpec
INVARIANT ExitOnSecondSignal
