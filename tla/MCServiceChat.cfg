SPECIFICATION Spec
CONSTANTS
  q1 = q1
  q2 = q2
  q3 = q3
  carol = carol
  Requests = {q1, q2, q3}
  Owner <- ChatOwner
  Key <- ChatKey
  Body <- ChatBody
  Api = api
  Nobody = nobody
  Employees = {}
  MaxHandoffs = 1
  MaxUnread = 0
  HasCredentials = FALSE
  DiskFails = TRUE
CHECK_DEADLOCK FALSE
INVARIANTS
  TypeOK
  DoneHasResult
  RetryStartsNothing
  NoOrphans
  AnswersOwnRequest
  HandoffIsReachable
  OneWorker
PROPERTIES
  SupersededStays
