SPECIFICATION Spec
CONSTANTS
  p1 = p1
  p2 = p2
  p3 = p3
  User = User
  Sink = Sink
  Stranger = Stranger
  Agents <- ThreeParticipants
  First = p1
  Last = p3
  HopBudget = 3
  MaxVerbs = 2
  MaxInFlight = 8
CHECK_DEADLOCK FALSE
INVARIANTS TypeOK SilenceIsExplained NotedDropsAreOwed
