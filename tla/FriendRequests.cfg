SPECIFICATION FairSpec
CONSTANTS
  ana = ana
  ben = ben
  Users = {ana, ben}
  OldRequests <- CrossedRequests
  OldFriends <- TheTwo
  MaxCalls = 3
  MaxFaults = 1
INVARIANTS TypeOK PendingOnce FriendsAreMutual WithdrawnIsGone
PROPERTIES OperationsEnd
CHECK_DEADLOCK FALSE
