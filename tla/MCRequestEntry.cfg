SPECIFICATION Spec
CONSTANTS
  Threads = {t1, t2}
  MaxLag = 1
  MaxTime = 6
  Keys = {k1}
  limit = 2
  window_seconds = 3
  ttl_seconds = 3
CHECK_DEADLOCK FALSE
INVARIANTS
  TypeOK
  WindowHolds
  FreshEnough
PROPERTIES
  LoadsAreSpaced
