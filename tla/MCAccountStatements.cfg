SPECIFICATION Spec
CONSTANTS
  agent = agent
  Accounts = {a1, a2}
  Owner = owner
  Clients = {owner, agent}
  declared_by <- MCDeclaredBy
  Days = {1, 2}
  Today = 1
  MaxFacts = 2
  MaxRetirements = 1
  NONE = NONE
SYMMETRY Symmetry
INVARIANT
  UncoveredAccountsAreEmpty
