CONSTANTS
  Bodies <- Bodies_
  Strings <- MCStrings
  Raw <- MCRaw
  Size <- MCSize
  Moments <- MCMoments
  Moment <- MCMoment
  ExtId = "5"
  Number <- MCNumber
  OrdinaryTrees <- MCOrdinary
  RichTrees <- MCRich
  DepthLimit = 4
  NodeLimit = 9
  TextLimit = 16
  RawLimit = 14
  OutputLimit = 15
  MaxItems = 5
SPECIFICATION JSONSpec
INVARIANTS MsgpackTypeOK ChargesHold ChargesAreExact RoundTrips
CHECK_DEADLOCK FALSE
