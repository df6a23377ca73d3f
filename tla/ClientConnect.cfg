SPECIFICATION FairSpec
CHECK_DEADLOCK FALSE
CONSTANTS
  NSlots = 2
  MaxAddresses = 2
  MaxFrames = 3
  Proxies = {"none", "plain", "tls"}
  Deadlines = {{"connect"}, {"connect", "handshake"}}
INVARIANTS
  NoDangling
  UserDataFreedOnce
PROPERTIES
  ImplementsConnects
  Answered
  Freed
