SPECIFICATION FairSpec
CONSTANTS
  MaxBytes = 4
  Segments <- MC_Segments
  Requests = {0, 1, 2}
INVARIANTS
  TypeOK
  StateBuffer
  TotLenSum
  NoListError
  ReadHasData
PROPERTIES
  ByteStreamSpec
  CommandReturns
CHECK_DEADLOCK FALSE
