SPECIFICATION Spec
CONSTANTS
  Caller = {c1, c2}
  MaxQueries = 3
  MaxSessions = 2
INVARIANT WaitersAreWoken
PROPERTY AnswersMatch
PROPERTY QueryEnds
PROPERTY StartEnds
PROPERTY CloseEnds
CHECK_DEADLOCK FALSE
