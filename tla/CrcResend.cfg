SPECIFICATION Spec
CONSTANTS
  Pairs <- CrcOnly
  MaxPieces = 4
INVARIANTS CrcFindsDamage
CHECK_DEADLOCK FALSE
