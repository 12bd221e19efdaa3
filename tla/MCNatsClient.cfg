CONSTANTS
  Main = Main
  Closer = Closer
  Dispatcher = Dispatcher
  PendingMessages = 1
  Faults = {"refused", "expiry", "rejected", "permission", "disconnect", "overflow"}
SPECIFICATION FairClientSpec
INVARIANTS ClientTypeOK EndIsClean
PROPERTIES ImplementsSession CloseCompletes
CHECK_DEADLOCK FALSE
