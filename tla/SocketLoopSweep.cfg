SPECIFICATION Spec
CONSTANTS
  Sockets = {s1, s2, s3}
  NContexts = 2
  Secure = {}
  NULL = NULL
  Modulus = 3
  LongRatio = 2
  Budget = 1
  ShortTicks = {1, 2}
  LongMinutes = {1}
  MaxListen = 0
  MaxPaused = 2
  Immediates = FALSE
SYMMETRY Symmetry
INVARIANTS
  SweepSound
PROPERTIES
  FiresWhenDue
