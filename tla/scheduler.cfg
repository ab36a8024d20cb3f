SPECIFICATION Spec

CONSTANTS
  Activities = {i1, i2}
  i1 = i1
  i2 = i2
  DayOne = 0
  SmartBase = 100
  Word = 65536
  Specs <- MCSpecs
  Zones <- MCZones
  Start = 1000
  Step = 300
  MaxClock = 1600
  MaxChanges = 1
  MaxRequests = 1
  Faults = {"time", "zone", "restart", "error"}

INVARIANTS
  Consistent
  DaemonAgrees
PROPERTIES
  CatchUpOnce
  DueStarts
CHECK_DEADLOCK FALSE
