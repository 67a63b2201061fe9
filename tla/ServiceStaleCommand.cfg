SPECIFICATION Spec
CONSTANTS
  q1 = q1
  q2 = q2
  q3 = q3
  carol = carol
  Requests = {q1}
  Owner <- ApiOwner
  Key <- ApiKey
  Body <- SameBody
  Api = api
  Nobody = nobody
  Employees = {e1, e2}
  MaxHandoffs = 2
  MaxUnread = 2
  HasCredentials = TRUE
  DiskFails = FALSE
CHECK_DEADLOCK FALSE
PROPERTY CommandsAnswerTheirHandoff
