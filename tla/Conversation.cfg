SPECIFICATION FairSpec
CONSTANTS
  Pairs <- AllPairs
  MaxPieces = 4
INVARIANTS TypeOK SocketsReleased UsesOpen SavedIsSent NoMutualWait
PROPERTIES BothEnd FailureStopsChat
CHECK_DEADLOCK FALSE
