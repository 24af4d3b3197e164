SPECIFICATION Spec
CONSTANTS
  a = a
  b = b
  Conns <- TwoWindows
  MaxSessions = 2
  MaxClicks = 2
  MaxNudges = 2
INVARIANTS TypeOK LiveIsSingle RowsMatchRegistry NewestWindowOwnsSink NudgedOnce
SYMMETRY AnyWindow
CHECK_DEADLOCK FALSE
