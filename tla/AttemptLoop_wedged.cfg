SPECIFICATION FairSpec
CONSTANTS
  m1 = m1
  Messages <- OneMessage
  MaxAttempts = 2
  MaxTurns = 2
  MaxAsks = 1
PROPERTIES WedgedTurnsEnd
CHECK_DEADLOCK FALSE
