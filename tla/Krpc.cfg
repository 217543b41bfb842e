SPECIFICATION Spec
CONSTANTS
  Kinds <- AllKinds
  DbEntries = 2
CHECK_DEADLOCK FALSE
INVARIANTS
  ReadsAsSent
  ArgumentsAreSent
  WithinMessage
  PublicCannotCommand
  ReplyWhole
PROPERTIES
  EveryMessageSettles
