SPECIFICATION Spec
CONSTANTS
  Subscribers = {s1, s2}
  Topics = {t1, t2}
  NoSub = NoSub
  NoTopic = NoTopic
  MaxIndices = 1
  MaxOutgoing = 9
  MaxCalls = 2
  MaxDeferred = 2
  MaxHandlers = 2
  Applications = {{"subscribe", "unsubscribe", "close"}, {"subscribe", "unsubscribe", "publish"}, {"publish", "close"}}
SYMMETRY Symmetry
INVARIANTS
  TypeOK
  NoDanglingPointer
  AtRest
  Coherent
PROPERTIES
  TopicPinned
  ImplementsMailboxes
