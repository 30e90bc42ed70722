CONSTANTS
  Sessions = {s1, s2}
  Declarations = {march}
  Keys = {k1, k2}
  Lines = {l1}
  Sections = {figures}
  Subjects = {shop}
  Answers = {paid, fee}
  MaxRows = 2
  MaxRules = 2
  NONE = NONE
  Sources = {bank, channel}
  Origin <- MCOrigin
  Requests = {r1, r2}
  Workloads <- MCWorkloads
  shop = shop
  k1 = k1
  k2 = k2
  l1 = l1
  march = march
  bank = bank
  channel = channel
SYMMETRY Symmetric
SPECIFICATION Spec
CHECK_DEADLOCK FALSE
INVARIANTS
  TypeOK
  KeyedRowsAreWrittenOnce
  AssertionsStandOnRows
  RowsAnswerAsTheirQuestions
PROPERTY
  ClosedIsFinal
