SPECIFICATION Spec
CHECK_DEADLOCK FALSE
CONSTANTS
  Frames <- MCFrames
  MaxFrames = 1
  MaxPayload = 5
  Behaviors <- MCBehaviors
  Scenarios = {"splitHead"}
INVARIANT
  RefusesOnlyInvalid
