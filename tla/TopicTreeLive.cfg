SPECIFICATION FairSpec
CONSTANTS
  Subscribers = {s1, s2}
  Topics = {t1, t2}
  NoSub = NoSub
  NoTopic = NoTopic
  MaxIndices = 1
  MaxOutgoing = 1
  MaxCalls = 2
  MaxDeferred = 2
  MaxHandlers = 2
  Applications = {{"publish"}, {"subscribe"}}
INVARIANTS
  DeliveredInCallOrder
PROPERTIES
  EverythingDrained
