SPECIFICATION Spec
CONSTANTS
  NumPcb = 2
  NumBlock = 2
  RetryLimit = 1
  Env = {"noroute", "dns", "refuse", "silent", "rst", "fin"}
INVARIANTS
  TypeOK
  CallbackBinding
  NeverDangling
PROPERTIES
  LeakCauses
CHECK_DEADLOCK FALSE
