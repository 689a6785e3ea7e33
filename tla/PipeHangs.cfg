SPECIFICATION Spec
CONSTANTS
  Pairs <- PipeOnly
  MaxPieces = 4
INVARIANTS PipeIsEchoed
CHECK_DEADLOCK FALSE
