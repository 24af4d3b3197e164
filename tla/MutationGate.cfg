SPECIFICATION Spec
CONSTANTS
  w1 = w1
  w2 = w2
  rm = rm
  sudo = sudo
  Agents <- TwoAgents
  Commands <- TwoCommands
  MaxPrompts = 2
  MaxRows = 3
  MaxApprovals = 1
  MaxBatch = 2
INVARIANTS TypeOK PendingHaltsAgent
PROPERTY ImplementsApprovalLedger
SYMMETRY AnyCall
CHECK_DEADLOCK FALSE
