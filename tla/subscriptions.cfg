SPECIFICATION Spec

CONSTANTS
  Clients = {"x1", "x2"}
  Calls = {"c1", "c2", "c3"}
  MaxHeld = 2

INVARIANTS
  Consistent
PROPERTIES
  HeldInOrder
  ToldAfterCompletion
CHECK_DEADLOCK FALSE
