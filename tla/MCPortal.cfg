SPECIFICATION Spec
CONSTANTS
  lee = lee
  okafor = okafor
  savings = savings
  checking = checking
  balance = balance
  hold = hold
  transfer = transfer
  Customers = {lee, okafor}
  Employees = {teller}
  Accounts = {savings, checking}
  Owned <- MCOwned
  Capabilities = {balance, hold, transfer}
  Needs <- MCNeeds
  Mutating = {hold, transfer}
  Configs <- MCConfigs
  MaxRequests = 4
  MaxInFlight = 2
  Nobody = Nobody
  None = None
  Text = Text
CHECK_DEADLOCK FALSE
INVARIANTS
  TypeOK
  RunsServeOneCustomer
  LaunchIsValidated
PROPERTIES
  SurfacesAreIndependent
