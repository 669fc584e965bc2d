SPECIFICATION Spec
CONSTANTS
  Caller = {c1, c2}
  MaxQueries = 3
  MaxSessions = 2
PROPERTY DisconnectEndsQueries
CHECK_DEADLOCK FALSE
