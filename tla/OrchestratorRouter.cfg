SPECIFICATION FairSpec
CONSTANTS
  hub = hub
  w1 = w1
  w2 = w2
  User = User
  Sink = Sink
  Stranger = Stranger
  Orchestrator = hub
  Workers <- TwoWorkers
  HopBudget = 3
  MaxVerbs = 1
  MaxInFlight = 4
CHECK_DEADLOCK FALSE
INVARIANTS TypeOK InFlightIsExact QuietIsExplained SlotsAreOwed
PROPERTIES ImplementsBudgetedRun BudgetBrakes
