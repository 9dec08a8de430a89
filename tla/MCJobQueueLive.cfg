\* Liveness: no symmetry, and the clock stands still.
SPECIFICATION FairSpec
CONSTANTS
  JobIds = {j1, j2}
  NoJob = NoJob
  Workers = {w1, w2}
  PendingCap = 1
  MaxJobs = 2
  ResultTTL = 1
  MaxTime = 0
PROPERTIES
  QueuedJobsFinish
  StartedJobsFinish
  StopReturns
CHECK_DEADLOCK FALSE
