CONSTANTS
  o1 = o1  o2 = o2  a1 = a1  a2 = a2  b1 = b1  s1 = s1  op1 = op1  k1 = k1  d1 = d1
  c1 = c1  c2 = c2
  NONE = NONE
  Owners = {o1, o2}
  Accounts = {a1, a2, b1}
  Sources = {s1}
  Operations = {op1}
  Keys = {k1}
  Days = {d1}
  Ids = {1, 2, 3, 4}
  Connections = {c1, c2}
  MaxSequence = 3
  AccountOwner <- MCAccountOwner
  Candidates <- MCCandidates
SYMMETRY Processes
SPECIFICATION TxSpec
INVARIANTS TxTypeOK OrderIsTotal IdentitiesAreHeldOnce NoLostPlace
PROPERTY AtomicJournal
