SPECIFICATION Spec

CONSTANTS
  Activities = {i1, i2}
  i1 = i1
  i2 = i2
  Faults = {"late"}
  MaxVersion = 1
  MaxCrashes = 1

INVARIANTS
  ReplacedStaysAway
CHECK_DEADLOCK FALSE
