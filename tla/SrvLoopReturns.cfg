CONSTANTS
  Client = {c1, c2, c3}
  MaxSignals = 2
  Givens <- TwoStarts
SPECIFICATION StartupSpec
PROPERTY LoopReturns
CHECK_DEADLOCK FALSE
