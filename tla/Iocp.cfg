SPECIFICATION FairSpec
CONSTANTS
  Conns = {c1, c2}
  Workers = {w1, w2}
  BUFFER_SIZE = 2
  MaxBytes = 2
  NoConn = NoConn
INVARIANTS TypeOK OneHolder NoUseAfterRelease RequestInBuffer
PROPERTIES EchoSpec EveryByteEchoed ReleasedAfterShutdown
CHECK_DEADLOCK FALSE
