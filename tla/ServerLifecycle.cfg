\* Every way to start, and three clients of the server that starts.
CONSTANTS
  Client = {c1, c2, c3}
  MaxSignals = 2
  Givens <- EveryStart
SPECIFICATION StartupSpec
INVARIANTS ClientsTracked StopEndsClients
PROPERTIES FaultsAreLate ShutdownEnds StartupEnds
CHECK_DEADLOCK FALSE
