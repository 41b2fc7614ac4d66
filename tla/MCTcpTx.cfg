SPECIFICATION FairSpec
CONSTANTS
  NumPbuf = 4
  SndBuf = 2
  WriteSizes = {1, 2}
  RetryLimit = 1
  MaxWritten = 7
INVARIANTS
  TypeOK
  InOrder
  FaultOnlyAfterForce
PROPERTIES
  LeakCauses
  Drains
CHECK_DEADLOCK FALSE
