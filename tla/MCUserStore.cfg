\* One user of the environment with two requests at a time; local time is behind
\* UTC.
SPECIFICATION FairSpec
CONSTANTS
  Keys = {k1}
  EnvKeys = {k1}
  Admins = {}
  Absent = Absent
  Requests = {q1, q2}
  Limit = 1
  Zone = "behind"
  MaxRequests = 3
  MaxScans = 2
  MaxMonth = 2
  MaxFailures = 1
INVARIANTS
  TypeOK
  PeriodQuotaHolds
  NoUpdateLost
PROPERTIES
  StopFlushes
  UsageReachesDisk
\* A server whose users file is torn does not start.
CHECK_DEADLOCK FALSE
