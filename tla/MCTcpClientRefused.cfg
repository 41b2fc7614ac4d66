SPECIFICATION Spec
CONSTANTS
  NumPcb = 2
  NumBlock = 2
  RetryLimit = 1
  Env = {"refuse"}
INVARIANTS
  CloseOnce
CHECK_DEADLOCK FALSE
