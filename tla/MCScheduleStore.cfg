\* Two schedules, two concurrent mutators, one save that may fail.
SPECIFICATION FairSpec
CONSTANTS
  Ids = {i1, i2}
  Values = {v1}
  Absent = Absent
  Callers = {c1, c2}
  MaxLogged = 1
  MaxFailures = 1
INVARIANTS
  TypeOK
  NoMarkLost
PROPERTIES
  CloseFlushes
  FileIsASnapshot
  AddedReachesDisk
