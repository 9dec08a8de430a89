\* One schedule, whose next run waits for the slot of the last delivery; the
\* second goroutine is there to show that it never runs twice at once.
SPECIFICATION FairSpec
CONSTANTS
  Ids = {i1}
  NoId = NoId
  Runs = {r1, r2}
  Dispatches = {d1}
  Intervals = {1}
  Secrets = {}
  MaxDispatch = 1
  MaxAttempts = 2
  MaxLog = 1
  MaxTime = 2
INVARIANTS
  RunsAreExclusive
  SlotsMatchDeliveries
PROPERTIES
  DueSchedulesRun
  RequestedRunsHappen
\* A stopped scheduler whose schedules are all deleted has nothing left to do.
CHECK_DEADLOCK FALSE
