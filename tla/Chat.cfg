SPECIFICATION FairSpec
CONSTANTS
  NumConns = 3
  MaxFd = 3
  MaxMessages = 1
  None = None
INVARIANTS TypeOK ArrayExact
PROPERTIES BroadcastReachesAll GoneIsRemoved
CHECK_DEADLOCK FALSE
