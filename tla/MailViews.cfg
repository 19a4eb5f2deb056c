SPECIFICATION Spec
CONSTANTS
  Accounts = {a, b}
  Ids = {1}
  Criteria = {c, d}
  Labels = {k, l}
  None = none
INVARIANTS ShownIsStored
PROPERTIES ClearsOnlyTheCategory ShownInTheEnd
