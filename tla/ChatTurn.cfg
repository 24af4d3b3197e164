SPECIFICATION FairSpec
CONSTANTS
  a = a
  b = b
  chat = chat
  Conns <- TwoWindows
  Sessions <- OneChat
  Slots = 2
  MaxBusy = 2
INVARIANTS TypeOK StopFindsTheTurn HeldPromptIsKept CardsEndWithTheirTurn
PROPERTIES NoSecondTurnPastTheGates StoppedTurnsEnd
CHECK_DEADLOCK FALSE
