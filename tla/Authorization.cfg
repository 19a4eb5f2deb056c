SPECIFICATION Spec
CONSTANTS
  Attempts = {n1, n2}
  Ports = {p1, p2}
  Keys = {k1, k2}
  Bundled = None
  None = None
  MaxWaiting = 1
  MaxEdits = 1
INVARIANTS StoppedListenersAreWoken CodeIsOwn KeysBelongTogether
PROPERTY ListenersEnd
