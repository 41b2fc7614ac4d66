SPECIFICATION FairSpec
CONSTANTS
  NumPcb = 2
  NumBlock = 1
  RetryLimit = 1
  Env = {"refuse", "silent", "rst", "stuck"}
PROPERTIES
  ClientReturns
CHECK_DEADLOCK FALSE
