SPECIFICATION Spec
CONSTANTS
  h1 = h1
  h2 = h2
  p1 = p1
  p2 = p2
  p3 = p3
  Host = {h1, h2}
  Port = {p1, p2, p3}
  Contact <- SomeContacts
  NoFile = NoFile
  MaxEntries = 2
  Room = 1
  MaxIndex = 3
  MaxTable = 1
  MaxFailures = 1
SYMMETRY Symmetry
INVARIANTS OnlyOldestUnread
PROPERTIES FilesKept ContactsKept
CHECK_DEADLOCK FALSE
