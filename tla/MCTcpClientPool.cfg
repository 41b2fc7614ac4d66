SPECIFICATION Spec
CONSTANTS
  NumPcb = 3
  NumBlock = 2
  RetryLimit = 1
  Env = {"noroute", "dns"}
INVARIANTS
  PoolIntact
CHECK_DEADLOCK FALSE
