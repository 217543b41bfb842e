SPECIFICATION Spec
CONSTANTS
  Infohash = {i1, i2}
  Peer = {p1, p2}
  Address = {a1, a2, a3}
  p1 = p1
  p2 = p2
  a1 = a1
  a2 = a2
  a3 = a3
  HostOf <- Hosts
  NoAddress = NoAddress
  NoToken = NoToken
  Sender = {s1}
  PeerAge = 2
  KeyRefresh = 2
  EmptyCapacity = 1
  MaxLength = 3
SYMMETRY Symmetry
INVARIANTS LengthCoversTable FreshTokenAccepted
PROPERTIES OldPeersLeave YoungPeersStay
CHECK_DEADLOCK FALSE
