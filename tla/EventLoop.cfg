SPECIFICATION FairSpec
CONSTANTS
  TransactionTimeout = 2
  RefreshInterval = 3
  SetBack = 1
  Horizon = 10
  Request = {r1, r2}
INVARIANTS WakesForFirstExpiry GivenUpInTime
PROPERTIES EveryRequestEnds
CHECK_DEADLOCK FALSE
