SPECIFICATION Spec
CONSTANTS
  Capacity = 2
  K = 1
  far = far
  far2 = far2
  far3 = far3
  mid = mid
  near = near
  Node <- MCNode
  Rank <- MCRank
  NoContact = NoContact
SYMMETRY FarSymmetry
INVARIANTS StoredIsFound
CHECK_DEADLOCK FALSE
