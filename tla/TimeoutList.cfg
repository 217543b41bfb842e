SPECIFICATION FairListSpec
CONSTANTS
  Node = {n1, n2, n3}
  RefreshInterval = 2
  MaxInserts = 4
INVARIANTS ListTypeOK OnlyNewcomersHide
PROPERTIES DueIsQueried
CHECK_DEADLOCK FALSE
