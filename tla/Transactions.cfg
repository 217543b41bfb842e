SPECIFICATION FairSpec
CONSTANTS
  Capacity = 2
  TransactionTimeout = 2
  Horizon = 5
  Suffix = {s1, s2}
  NoSuffix = NoSuffix
  Request = {r1, r2, r3}
  NoRequest = NoRequest
INVARIANTS TypeOK SentOrder PartialSearchIsComplete ActiveCount ContextHeldOnce OwnReply
PROPERTIES ResolvedOnce NoEarlyTimeout EveryRequestResolved ImplementsPromise
CHECK_DEADLOCK FALSE
