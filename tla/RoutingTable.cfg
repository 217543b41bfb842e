SPECIFICATION Spec
CONSTANTS
  Capacity = 3
  K = 1
  far = far
  far2 = far2
  far3 = far3
  mid = mid
  near = near
  Node <- MCNode
  Rank <- MCRank
  NoContact = NoContact
SYMMETRY FarSymmetry
INVARIANTS TreeWellFormed ContactsInPlace BadCount
PROPERTIES CloseContactsKept
CHECK_DEADLOCK FALSE
