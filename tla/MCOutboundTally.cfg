CONSTANTS
  operations = operations
  portfolio = portfolio
  Keys = {operations, portfolio}
  Spacing = 1
  Pause = 2
  FirstSendWait = 2
  UnresolvedAttempt = 3
  RefusalWindow = 3
  Closure = 5
  UnresolvedClosure = 5
  Day = 6
  DailyCeiling = 3
  BudgetLimit = 1
  BudgetWindow = 2
  RetryAfter = {3}
  MaxTime = 6
  MaxFaults = 2
SPECIFICATION Spec
SYMMETRY Methods
INVARIANTS TypeOK PendingIsTheLatest DeparturesAreCounted
PROPERTY KeepsTheContract
CHECK_DEADLOCK FALSE
