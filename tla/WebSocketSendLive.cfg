SPECIFICATION FairSpec
CONSTANTS
  Sockets = {s1, s2}
  NoSocket = NoSocket
  CorkSize = 2
  EraseShare = 2
  Subscribed = {s1, s2}
  MaxBackpressure = 0
  Sizes = {0, 2}
  PublishSize = 0
  Header = 1
  CloseSize = 1
  PingSize = 1
  MaxBatch = 2
  MaxSent = 3
  MaxFrames = 1
  CorkCalls = {"send", "sendLong", "drain", "publish", "cork", "close"}
  DrainCalls = {"send", "drain", "cork", "end", "close"}
  DroppedCalls = {"send", "publish", "cork"}
CHECK_DEADLOCK FALSE
PROPERTIES
  ImplementsStreams
  EndedFinishes
