SPECIFICATION FairSpec
CONSTANTS
  m1 = m1
  Messages <- OneMessage
  MaxAttempts = 3
  MaxTurns = 2
  MaxAsks = 2
INVARIANTS TypeOK RoutedByOneAttempt ToldTheTruth ParkedIsRegistered HeldIsLeftAlone
PROPERTIES AskingIsNotStalling SilenceIsBroken
CHECK_DEADLOCK FALSE
