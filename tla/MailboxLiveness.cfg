SPECIFICATION FairSpec
CONSTANTS
  Messages = {m1, m2}
  Providers = {"gmail"}
  InitialLimit = 1
  InboxCapacity = 1
  FindingsCapacity = 1
  ClassifierReady = TRUE
  Misread = {}
  MaxEvents = 3
  MaxFaults <- OneFault
PROPERTIES MailIsStoredInTheEnd DeletionsArrive
CHECK_DEADLOCK FALSE
