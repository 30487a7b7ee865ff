SPECIFICATION Spec
CONSTANTS
  Subscribers = {s1, s2}
  SnrDigits = {1, 2}
  MaxDownlinks = 2
  MaxBuf = 5
SYMMETRY Sym
INVARIANTS
  TypeOK
  NoDownlinkLeft
  Recognised
PROPERTIES
  FeedKept
