CONSTANTS
  MaxSeq = 3
  Selections <- MCSelections
  MaxChanges = 2
  BrokerFaults = {"lost", "error", "lies"}
SPECIFICATION MCSpec
INVARIANTS HistoryTypeOK DeliveryIsFaithful
PROPERTIES ImplementsSession InspectionEnds
CHECK_DEADLOCK FALSE
