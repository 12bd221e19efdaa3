CONSTANTS
  Main = Main
  Watcher = Watcher
  Session = Session
  Signals = Signals
  Adapter = Adapter
  Callers <- MCCallers
  Mishaps = {"prepare", "open", "ready", "payload", "write", "report"}
  Count = 2
  MaxMessages = 3
SPECIFICATION Spec
INVARIANTS TypeOK StatusIsHonest
CHECK_DEADLOCK FALSE
