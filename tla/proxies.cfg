SPECIFICATION Spec
CONSTANTS
  Activities = {a1}
  Statuses <- MCStatuses
  Percents = {20}
  Specs <- MCSpecs
  UpSets <- MCUpSets
  Faults = {"transient", "permanent", "query"}
  MaxChanges = 2
  MaxFailures = 1
  MaxRestarts = 1
INVARIANTS
  Consistent
  LastEventIsCurrent
  QuietAgrees
PROPERTIES
  CatchesUp
CHECK_DEADLOCK FALSE
