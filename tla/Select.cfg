SPECIFICATION FairSpec
CONSTANTS
  Clients = {c1, c2, c3}
  Handles = {h1, h2, h3}
  MaxClients = 3
  MaxMessages = 1
  Listener = Listener
  Garbage = Garbage
  Invalid = Invalid
  None = None
INVARIANTS TypeOK SlotsAreOpen BlocksOnlyAfterError
PROPERTIES GoneIsClosed
