CONSTANTS
  Main = Main
  Watcher = Watcher
  Session = Session
  Signals = Signals
  Adapter = Adapter
  Callers <- MCCallers
  Mishaps = {"write"}
  Count = 1
  MaxMessages = 1
SPECIFICATION Spec
INVARIANTS TruncationFails
CHECK_DEADLOCK FALSE
