SPECIFICATION Spec
CONSTANTS
  c1 = c1
  c2 = c2
  Chats = {c1, c2}
  First = c1
  MaxAsked = 0
  MaxLoads = 3
  MaxStarted = 3
  KeptMessages = 2
INVARIANTS HistoryIsGiven
CHECK_DEADLOCK FALSE
