\* One schedule whose owner sets a webhook secret.
SPECIFICATION Spec
CONSTANTS
  Ids = {i1}
  NoId = NoId
  Runs = {r1}
  Dispatches = {d1}
  Intervals = {1}
  Secrets = {TRUE}
  MaxDispatch = 1
  MaxAttempts = 1
  MaxLog = 1
  MaxTime = 1
INVARIANT
  DeliveriesAreSigned
CHECK_DEADLOCK FALSE
