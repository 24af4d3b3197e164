SPECIFICATION FairSpec
CONSTANTS
  w1 = w1
  w2 = w2
  Workers <- TwoWorkers
  MaxPauses = 2
INVARIANTS TypeOK RestraintsInForce GateCanBeLifted TimerOfThePause
PROPERTIES PausesEnd
CHECK_DEADLOCK FALSE
