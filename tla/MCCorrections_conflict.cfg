CONSTANTS
  Ids = {e1, e2, e3}
  Accounts = {a1, a2}
  Imports = {march}
  Keys = {k1, k2, k3}
  Sources = {bank}
  Operations = {}
  Agents = {}
  Principals = {owner}
  Rows <- Legs
  Requests = {r1, r2}
  Acts = {"replacement"}
  Faults = TRUE
  NONE = NONE
  agent = agent
  owner = owner
  a1 = a1
  a2 = a2
  march = march
  k1 = k1
  k2 = k2
  k3 = k3
  bank = bank
  o1 = o1
SYMMETRY Symmetric
SPECIFICATION Spec
INVARIANT JournalResolves
