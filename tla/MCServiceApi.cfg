SPECIFICATION StaffedSpec
CONSTANTS
  q1 = q1
  q2 = q2
  q3 = q3
  carol = carol
  Requests = {q1, q2}
  Owner <- ApiOwner
  Key <- ApiKey
  Body <- SameBody
  Api = api
  Nobody = nobody
  Employees = {e1}
  MaxHandoffs = 2
  MaxUnread = 1
  HasCredentials = FALSE
  DiskFails = FALSE
CHECK_DEADLOCK FALSE
PROPERTIES
  AllEnd
