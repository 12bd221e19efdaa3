CONSTANTS
  Main = Main
  Watcher = Watcher
  Session = Session
  Signals = Signals
  Adapter = Adapter
  Callers <- MCCallers
  Mishaps = {"open", "write"}
  Count = 1
  MaxMessages = 1
SPECIFICATION FairSpec
PROPERTIES ObservationEnds
CHECK_DEADLOCK FALSE
