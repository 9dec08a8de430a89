SPECIFICATION Spec
CONSTANTS
  Subs = {s1, s2}
  MaxEvents = 3
  ReplaySize = 3
  SendCap = 3
INVARIANT
  PublishNeverPanics
CHECK_DEADLOCK FALSE
