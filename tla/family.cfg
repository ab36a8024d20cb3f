SPECIFICATION Spec

CONSTANTS
  a1 = a1
  s1 = s1
  s2 = s2
  s3 = s3
  None = None
  Activities = {a1}
  Subscribers = {s1, s2, s3}
  Immediate = {a1}
  UserInitiated = {}
  WithCallback = {a1}
  Persistent = {}
  Explicit = {a1}
  Powered = {a1}
  Triggered = {}
  Timed = {}
  Recurring = {}
  Requiring = {a1}
  InteractiveLevel = 1
  DefaultLevel = 1
  Levels = {1}
  EnableBits = {"external"}
  Calls = {"join", "adopt", "release", "cancel", "leave", "start", "pause", "complete", "restart", "refused"}
  Updates = {"nothing", "schedule", "noRequirement"}

SYMMETRY SubscriberSymmetry
INVARIANTS
  FamilySubscribes
PROPERTIES
  PowerIsALock
CHECK_DEADLOCK FALSE
