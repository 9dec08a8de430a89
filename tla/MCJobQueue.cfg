\* Three jobs compete for a map of two and a channel of one.
SPECIFICATION Spec
CONSTANTS
  JobIds = {j1, j2, j3}
  NoJob = NoJob
  Workers = {w1, w2}
  PendingCap = 1
  MaxJobs = 2
  ResultTTL = 1
  MaxTime = 2
SYMMETRY Symmetric
INVARIANTS
  JobsBounded
  SingleOwner
  ActiveJobsAreListed
  EventOrder
  AnnouncedOutcomeIsFinal
PROPERTIES
  RejectedOnlyWhenAllActive
  ImplementsBoard
CHECK_DEADLOCK FALSE
