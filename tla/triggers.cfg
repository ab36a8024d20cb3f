SPECIFICATION Spec
CONSTANTS
  a1 = a1
  None = None
  Activities = {a1}
  Specs <- MCSpecs
  Updates <- MCUpdates
  Responses <- MCResponses
  Faults = {"transient", "permanent"}
  MaxChanges = 1
  MaxFailures = 1
  MaxCompletes = 2
  MaxWatches = 1
  MaxEvents = 3
INVARIANTS
  Consistent
PROPERTIES
  SerialNamesRun
  NothingMissed
  CalledAgain
CHECK_DEADLOCK FALSE
