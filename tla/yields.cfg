SPECIFICATION FairSpec

CONSTANTS
  i1 = i1
  i2 = i2
  i3 = i3
  s1 = s1
  None = None
  Activities = {i1, i2, i3}
  Subscribers = {s1}
  Immediate = {}
  UserInitiated = {i1, i2, i3}
  WithCallback = {i1, i2}
  Persistent = {}
  Explicit = {}
  Powered = {i1}
  Triggered = {}
  Timed = {}
  Recurring = {}
  Requiring = {}
  InteractiveLevel = 1
  DefaultLevel = 1
  Levels = {1}
  EnableBits = {"external"}
  Calls = {"start", "cancel"}
  Updates = {}

PROPERTIES
  InteractiveGetsIn
CHECK_DEADLOCK FALSE
