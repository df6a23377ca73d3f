SPECIFICATION Spec
CHECK_DEADLOCK FALSE
CONSTANTS
  Base = 4
  SizeDigits = 2
  LengthDigits = 3
  MaxHead = 20
  MaxFields = 4
  MaxCollect = 3
  Faults = {"noHost", "twoHosts", "both", "control", "version", "fields", "long", "collides", "length", "longLength", "size", "bigSize", "terminator"}
INVARIANTS
  Faithful
  Bounded
  CollectedOnce
