SPECIFICATION FairSpec
CONSTANTS
  RetryLimit = 1
  Inputs = {"up", "down", "connect", "at", "restart", "ring", "console"}
INVARIANTS
  TypeOK
  LinkMeansSession
  SurveillanceArmed
PROPERTIES
  LinkRecovers
  ModeServed
CHECK_DEADLOCK FALSE
