SPECIFICATION Spec
CONSTANTS
  Procs = {p1, p2}
  FirstEvent = 1
  FirstDay = 2
  CorrectionWindow = 1
  InitialPadding = 0
  MaxDay = 2
  MaxFaults = 2
  MaxManual = 1
SYMMETRY Symmetry
INVARIANTS
  TypeOK
  OneRunAtATime
  PublishedIsWhole
  OneKnockADay
PROPERTIES
  ClosedRunsStayClosed
