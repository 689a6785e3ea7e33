SPECIFICATION Spec
CONSTANTS
  Pairs <- AuthOnly
  MaxPieces = 4
INVARIANT RejectionIsServers
CHECK_DEADLOCK FALSE
