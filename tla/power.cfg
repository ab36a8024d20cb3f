SPECIFICATION Spec

CONSTANTS
  Faults = {"error", "restart", "local"}
  MaxRequests = 2

INVARIANTS
  LockedIsHeld
  ListedOnce
  UnlockedIsGivenBack
PROPERTIES
  ImplementsLock
