CONSTANTS
  Main = Main
  Watcher = Watcher
  session = session
  adapter = adapter
  Callers <- MCCallers
SPECIFICATION FairStopSpec
INVARIANTS StopTypeOK DecisionIsActedOn SentenceHolds
PROPERTIES ImplementsDecision StopEnds
CHECK_DEADLOCK FALSE
