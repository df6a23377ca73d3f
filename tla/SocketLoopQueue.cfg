SPECIFICATION FairSpec
CONSTANTS
  Sockets = {s1, s2}
  NContexts = 1
  Secure = {1}
  NULL = NULL
  Modulus = 1
  LongRatio = 1
  Budget = 1
  ShortTicks = {1}
  LongMinutes = {}
  MaxListen = 1
  MaxPaused = 2
  Immediates = TRUE
INVARIANTS
  ListsSound
  Polled
  LeaksOnlyLate
PROPERTIES
  QueueServed
