\* Two connections, three events, and buffers that cannot hold them all.
SPECIFICATION FairSpec
CONSTANTS
  Subs = {s1, s2}
  MaxEvents = 3
  ReplaySize = 2
  SendCap = 2
INVARIANTS
  TypeOK
  StreamIsSuffix
  FirstListenersSeeReplay
PROPERTIES
  StreamEnds
CHECK_DEADLOCK FALSE
