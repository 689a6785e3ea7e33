SPECIFICATION FairSpec
CONSTANTS
  c1 = c1
  c2 = c2
  c3 = c3
  h1 = h1
  h2 = h2
  None = None
  Listener = Listener
  Conns <- MCConns
  Handles <- MCHandles
  MaxEvents = 3
  MaxMessages = 2
INVARIANTS TypeOK OpenIsWatched NoLostWakeup
PROPERTIES GoneIsClosed
CHECK_DEADLOCK FALSE
