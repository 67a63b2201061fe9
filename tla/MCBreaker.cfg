SPECIFICATION LiveSpec
CONSTANTS
  Threads = {t1, t2, t3}
  failure_threshold = 2
  reset_seconds = 2
INVARIANTS
  TypeOK
  OpenIsEarned
  OneProbe
PROPERTIES
  Recovers
