SPECIFICATION FairSpec
CONSTANTS
  Last = 5
  Tries = 2
  MaxRings = 2
  MaxSteals = 2
INVARIANTS
  TypeOK
  InStep
  ConnectedIsSet
PROPERTIES
  Dials
CHECK_DEADLOCK FALSE
