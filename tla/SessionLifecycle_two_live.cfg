SPECIFICATION Spec
CONSTANTS
  a = a
  b = b
  Conns <- TwoWindows
  MaxSessions = 3
  MaxClicks = 1
  MaxNudges = 2
INVARIANTS OneLiveSession
CHECK_DEADLOCK FALSE
