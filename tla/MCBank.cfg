SPECIFICATION Spec
CONSTANTS
  savings = savings
  checking = checking
  t1 = t1
  t2 = t2
  t3 = t3
  NaN = NaN
  Accounts = {savings, checking}
  Opening <- MCOpening
  Threads = {t1, t2, t3}
  Cent = 2
  Amounts = {0, 1, 4, NaN}
  MaxRequests = 3
SYMMETRY Symmetry
CHECK_DEADLOCK FALSE
INVARIANTS
  TypeOK
  HistoryHolds
  ClosedIsEmpty
