SPECIFICATION Spec
CONSTANTS
  Subscribers = {s1, s2}
  SnrDigits = {1, 2}
  MaxDownlinks = 2
  MaxBuf = 6
INVARIANTS
  PushedWhole
