SPECIFICATION Spec
CONSTANTS
  Nodes = {n1}
  Infohashes = {i1, i2, i3}
  Scrapes = {s1, s2}
  Slots = 2
  Hour = 2
  QueueSize = 1
  Enough = 2
  MaxTime = 4
  MaxActive = 1
SYMMETRY Symmetry
INVARIANTS
  EveryRequestCounted
PROPERTIES
  IntervalHonoured
  
