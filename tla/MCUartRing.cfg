SPECIFICATION FairSpec
CONSTANTS
  Size = 3
  Requests = {1, 4}
  Timeouts = {0, 2}
  TickMod = 4
  MaxBytes = 6
INVARIANTS
  TypeOK
  PhantomOnlyWhenLapped
  OneLine
PROPERTIES
  TimeoutHonoured
  StreamSpec
  ReadReturns
CHECK_DEADLOCK FALSE
