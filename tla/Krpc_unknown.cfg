SPECIFICATION Spec
CONSTANTS
  Kinds = {"ping", "r_find_node"}
  DbEntries = 2
CHECK_DEADLOCK FALSE
INVARIANTS
  UnknownIgnored
