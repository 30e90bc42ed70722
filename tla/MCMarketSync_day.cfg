SPECIFICATION Spec
CONSTANTS
  Procs = {p1, p2}
  FirstEvent = 1
  FirstDay = 2
  CorrectionWindow = 1
  InitialPadding = 0
  MaxDay = 3
  MaxFaults = 1
  MaxManual = 0
PROPERTIES
  DayIsSpent
