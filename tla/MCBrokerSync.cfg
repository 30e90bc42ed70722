SPECIFICATION Spec
CONSTANTS
  Accounts = {a1, a2}
  Numbers = {n1, n2}
  n1 = n1
  r1 = r1
  r2 = r2
  q1 = q1
  Requests = {s1, s2}
  Rows <- MCRows
  Positions = {q1}
  NumberOf <- MCNumberOf
  OrderDate <- MCOrderDate
  TradeDate <- MCTradeDate
  Named = {r1}
  Intervals <- MCIntervals
  MaxCalls = 3
  MaxFaults = 1
  MaxTurns = 1
  NONE = NONE
SYMMETRY Symmetry
INVARIANTS
  TypeOK
  StandsOnItsRows
  SettledWasReread
  FiledOnOneAccount
PROPERTIES
  RecordedOnce
CHECK_DEADLOCK FALSE
