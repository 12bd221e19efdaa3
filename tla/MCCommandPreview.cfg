CONSTANTS
  Main = Main
  Watcher = Watcher
  Signals = Signals
  Callers <- MCCallers
  Mishaps = {}
SPECIFICATION MCSpec
INVARIANTS NoFileIsWritten
CHECK_DEADLOCK FALSE
