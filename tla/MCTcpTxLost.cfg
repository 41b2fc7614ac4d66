SPECIFICATION Spec
CONSTANTS
  NumPbuf = 4
  SndBuf = 2
  WriteSizes = {1, 2}
  RetryLimit = 1
  MaxWritten = 7
PROPERTIES
  AcceptedKept
CHECK_DEADLOCK FALSE
