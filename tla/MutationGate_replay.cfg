SPECIFICATION Spec
CONSTANTS
  w1 = w1
  w2 = w2
  rm = rm
  sudo = sudo
  Agents <- OneAgent
  Commands <- TwoCommands
  MaxPrompts = 2
  MaxRows = 3
  MaxApprovals = 2
  MaxBatch = 2
PROPERTIES ContinueReplaysHalted
CHECK_DEADLOCK FALSE
