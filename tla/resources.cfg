SPECIFICATION Spec

CONSTANTS
  Activities = {1, 2}
  Ids = {"e1", "e2"}
  Priorities = {1, 3}
  MaxSubscriptions = 2

INVARIANTS
  Consistent
  ToldIsCurrent
CHECK_DEADLOCK FALSE
