SPECIFICATION FairSpec
CONSTANTS
  Conns = {a, b, c}
  Handles = {h1, h2}
  MaxMessages = 1
  Main = Main
  None = None
INVARIANTS TypeOK RegistryExact AddressedRight
PROPERTIES BroadcastReachesAll GoneIsClosed
CHECK_DEADLOCK FALSE
