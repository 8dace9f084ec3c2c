\* One worker at first, at most three; the clock may advance between any two steps.
CONSTANTS
  Goroutines = {g1, g2, g3}
  Loop = Loop
  Stoppers = {}
  Workers = 1
  MaxWorkers = 3
  MaxHits = 3
  MaxTime = 1
  Milli = 1
  Wrap = 8
  Exchanges <- AllExchanges
SPECIFICATION PlotSpec
SYMMETRY Symmetry
INVARIANTS
  HitsTypeOK
  SeqOrder
  SeqUnique
  Complete
  ErrorsAgree
  HitsInv
  PlotNeverFails
  PlotPrefix
  PlotComplete
PROPERTY StreamProperty
