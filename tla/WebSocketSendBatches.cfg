SPECIFICATION Spec
CONSTANTS
  Sockets = {s1, s2}
  NoSocket = NoSocket
  CorkSize = 3
  EraseShare = 2
  Subscribed = {s1, s2}
  MaxBackpressure = 1
  Sizes = {0, 3}
  PublishSize = 0
  Header = 1
  CloseSize = 1
  PingSize = 1
  MaxBatch = 2
  MaxSent = 4
  MaxFrames = 3
  CorkCalls = {"send", "sendLong", "drain", "publish", "cork", "close"}
  DrainCalls = {"send", "drain", "cork", "end", "close"}
  DroppedCalls = {"send", "publish", "cork"}
SYMMETRY Symmetry
CHECK_DEADLOCK FALSE
INVARIANTS
  BytesAccounted
  CorkKept
  BackpressurePolled
PROPERTIES
  NothingAfterEnd
