SPECIFICATION FairSpec
CONSTANTS
  Ids = {i1}
  Values = {v1, v2}
  Absent = Absent
  Callers = {c1}
  MaxLogged = 0
  MaxFailures = 0
PROPERTY
  MutationsReachDisk
