SPECIFICATION Spec
CONSTANTS
  Ids = {i1, i2}
  Addresses = {a, b}
  Readers = {sync, pane}
  None = none
  MaxFaults = 2
SYMMETRY Symmetry
INVARIANTS NoOrphanSecret AccountsPersist
