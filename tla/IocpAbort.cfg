SPECIFICATION FairSpec
CONSTANTS
  Conns = {c1}
  Workers = {w1, w2}
  BUFFER_SIZE = 1
  MaxBytes = 1
  NoConn = NoConn
PROPERTY ReleasedAfterDisconnect
CHECK_DEADLOCK FALSE
