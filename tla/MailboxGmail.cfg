SPECIFICATION Spec
CONSTANTS
  Messages = {m1, m2}
  Providers = {"gmail"}
  InitialLimit = 1
  InboxCapacity = 1
  FindingsCapacity = 1
  ClassifierReady = TRUE
  Misread = {}
  MaxEvents = 4
  MaxFaults <- TwoFaults
SYMMETRY Symmetry
INVARIANTS SafeCursor ReferentialIntegrity
PROPERTIES CursorNeverRegresses OnlyNewsIsApplied ImplementsCursorContract
CHECK_DEADLOCK FALSE
