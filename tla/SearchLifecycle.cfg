SPECIFICATION FairSpec
CONSTANTS
  Infohash = {i1, i2}
  Context = {c1, c2}
  NoContext = NoContext
  MaxTimeout = 1
  MaxQueue = 1
  MaxResult = 1
  MaxWaiting = 2
  MaxLost = 1
INVARIANTS HeldIsAlive DeletedWhenUnused
PROPERTIES OverIsRemoved
CHECK_DEADLOCK FALSE
