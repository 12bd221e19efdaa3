CONSTANTS
  Main = Main
  Watcher = Watcher
  Signals = Signals
  Callers <- MCCallers
  Mishaps = {"destination", "filter", "schema", "blocked", "decode", "projection", "encode", "writing"}
SPECIFICATION MCSpec
INVARIANTS CommandTypeOK EndIsProper Understood
PROPERTIES CommandEnds
CHECK_DEADLOCK FALSE
