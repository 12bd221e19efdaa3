CONSTANTS
  direct = direct
  linked = linked
  other = other
  foreign = foreign
  f1 = f1
  f2 = f2
  a = a
  b = b
  big = big
  nan = nan
  None = None
  Unknown = "unknown"
  Values = {a, b, big, nan}
  Larger = {big}
  Unencodable = {nan}
  Paths = {direct, linked, other, foreign}
  Files = {f1, f2}
  Link <- MCLink
  Ext <- MCExt
  Where <- MCWhere
  Batches <- MCBatches
  Asked <- MCAsked
  Starts <- MCStarts
  Given = {"keepGoing"}
  MaxRuns = 1
SPECIFICATION BatchSpec
INVARIANTS SummaryLanded
CHECK_DEADLOCK FALSE
