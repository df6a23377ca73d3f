SPECIFICATION Spec
CHECK_DEADLOCK FALSE
CONSTANTS
  Frames <- MCFrames
  MaxFrames = 3
  MaxPayload = 5
  Behaviors <- MCBehaviors
  Scenarios = {}
INVARIANTS
  Faithful
  Bounded
PROPERTIES
  NothingAfterEnd
