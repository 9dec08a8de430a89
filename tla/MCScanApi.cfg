\* Two requests, of a user with a quota of one scan, of a JWT or of an address;
\* clients whose requests are refused try again.
SPECIFICATION Spec
CONSTANTS
  ApiKeys = {k1}
  Subjects = {s1}
  Addresses = {a1}
  NoUser = NoUser
  Rates = {1}
  Window = 2
  MaxTime = 2
  Requests = {r1, r2}
  JobIds = {j1, j2}
  NoJob = NoJob
  Capacity = 1
  Slots = 1
  Limit = 1
SYMMETRY Symmetric
INVARIANTS
  TypeOK
  AdmissionBounded
  WaitedAnswersAreWhole
  EveryScanIsPaid
CHECK_DEADLOCK FALSE
