SPECIFICATION Spec
CONSTANTS
  MaxBytes = 3
  Segments <- MC_Segments
  Requests = {0, 1, 2}
INVARIANTS
  MutexGivenBack
CHECK_DEADLOCK FALSE
