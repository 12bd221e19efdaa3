CONSTANTS
  a = a
  b = b
  c = c
  d = d
  e = e
  ok = ok
  big = big
  nan = nan
  nul = nul
  whole = whole
  empty = empty
  folded = folded
  None = None
  Values = {a, b, c, d, e, ok, big, nan, nul, whole, folded, empty}
  Larger = {big}
  Unencodable = {nan}
  NotToml = {nul, whole, folded}
  Whole = whole
  Empty = empty
  Folded = folded
  Where <- MCWhere
  Query <- MCQuery
  Jobs <- MCJobs
  Streams <- MCStreams
  PeekLines = 2
  Named = {"auto"}
  Texts_ = {"json"}
  Out = {"same"}
  Given = {}
  MaxLines = 4
  MaxPiped = 0
  MaxBroken = 0
SPECIFICATION StdinSpec
INVARIANTS MultiLineDetected
CHECK_DEADLOCK FALSE
