SPECIFICATION Spec
CHECK_DEADLOCK FALSE
CONSTANTS
  Sockets = {c1, c2}
  NoSocket = NoSocket
  MaxRequests = 2
  MaxBody = 2
  BodySize = 2
  MaxCalls = 3
  Calls = {"end", "endWithoutBody", "tryEnd", "write", "onWritable", "onAborted", "onData", "pause", "close", "cork", "upgrade", "appClose"}
  Scenarios = {}
SYMMETRY Symmetry
INVARIANTS
  Returned
  NoStaleHandle
  IdleTimed
  BodyToOwner
  DrainPolled
  CloseHonoured
PROPERTIES
  ImplementsExchanges
