\* Two workers and two pages for a cache of one; the entries expire, one save
\* may fail and the cache is cleared once.
SPECIFICATION Spec
CONSTANTS
  Pages = {p1, p2}
  Workers = {w1, w2}
  TTL = 2
  MaxSize = 1
  ScanLimit = 1
  MaxTime = 4
  MaxClears = 1
  MaxFailures = 1
SYMMETRY Symmetric
INVARIANTS
  CacheBounded
  HitsAreFresh
  ClearedStaysCleared
  FileMirrorsMemory
CHECK_DEADLOCK FALSE
