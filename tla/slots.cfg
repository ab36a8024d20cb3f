SPECIFICATION Spec

CONSTANTS
  a1 = a1
  a2 = a2
  i1 = i1
  s1 = s1
  None = None
  Activities = {a1, a2, i1}
  Subscribers = {s1}
  Immediate = {}
  UserInitiated = {i1}
  WithCallback = {a1, a2, i1}
  Persistent = {}
  Explicit = {}
  Powered = {}
  Triggered = {}
  Timed = {}
  Recurring = {}
  Requiring = {a2}
  InteractiveLevel = 2
  DefaultLevel = 1
  Levels = {0, 1}
  EnableBits = {"external", "ui"}
  Calls = {"start", "cancel", "develop", "disable"}
  Updates = {}

INVARIANTS
  NoIdleSlot
  QueuedIsStillWanted
  QueueMatchesFlags
PROPERTIES
  LimitRespected
CHECK_DEADLOCK FALSE
