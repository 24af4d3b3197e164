SPECIFICATION Spec
CONSTANTS
  a = a
  b = b
  chat = chat
  Conns <- TwoWindows
  Sessions <- OneChat
  Slots = 2
  MaxBusy = 2
INVARIANTS OneTurnPerSession
CHECK_DEADLOCK FALSE
