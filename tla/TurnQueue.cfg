SPECIFICATION FairSpec
CONSTANTS
  orch = orch
  w1 = w1
  w2 = w2
  Agents <- OneWorker
  Orchestrator <- orch
  MaxDeliveries = 4
INVARIANTS TypeOK ParkedIsHeld
PROPERTIES ImplementsSerialTurns KickDrains ReleasedDrains
CHECK_DEADLOCK FALSE
