SPECIFICATION Spec
CONSTANTS
  Messages = {m1, m2}
  Providers = {"imap", "outlook"}
  InitialLimit = 1
  InboxCapacity = 1
  FindingsCapacity = 1
  ClassifierReady = TRUE
  Misread = {}
  MaxEvents = 4
  MaxFaults <- OneFault
SYMMETRY Symmetry
INVARIANTS SafeCursor
CHECK_DEADLOCK FALSE
