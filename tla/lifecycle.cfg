SPECIFICATION FairSpec
CONSTANTS
  a1 = a1
  s1 = s1
  s2 = s2
  None = None
  Activities = {a1}
  Subscribers = {s1, s2}
  Immediate = {}
  UserInitiated = {}
  WithCallback = {a1}
  Persistent = {a1}
  Explicit = {}
  Powered = {a1}
  Triggered = {a1}
  Timed = {a1}
  Recurring = {a1}
  Requiring = {a1}
  InteractiveLevel = 1
  DefaultLevel = 1
  Levels = {1}
  EnableBits = {"external"}
  Calls = {"join", "start", "cancel", "complete", "restart", "leave", "stop", "callbackFails"}
  Updates = {"nothing", "trigger", "noTrigger", "schedule", "noSchedule", "callback", "requirement", "noRequirement"}
INVARIANTS
  TypeOK
  QueueMatchesFlags
  NoLostStart
  NoLeakedPower
  ReleasedIsQuiet
  NameFreedByFinalCommand
PROPERTIES
  EndIsForGood
  EndingEnds
CHECK_DEADLOCK FALSE
