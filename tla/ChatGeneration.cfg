SPECIFICATION FairSpec
CONSTANTS
  c1 = c1
  c2 = c2
  Chats = {c1, c2}
  First = c1
  MaxAsked = 2
  MaxLoads = 2
  MaxStarted = 3
  KeptMessages = 2
INVARIANTS TypeOK AnswerIsStored CanBeStopped  NothingSkipped
  CleanStart
PROPERTIES StoppedEnds
CHECK_DEADLOCK FALSE
