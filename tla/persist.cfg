SPECIFICATION Spec

CONSTANTS
  Activities = {i1, i2}
  i1 = i1
  i2 = i2
  Faults = {"transient", "permanent", "callback"}
  MaxVersion = 1
  MaxCrashes = 1

INVARIANTS
  Consistent
  ToldIsDurable
PROPERTIES
  LoadBringsLatest
  ChainsEnd
CHECK_DEADLOCK FALSE
