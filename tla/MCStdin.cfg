CONSTANTS
  a = a
  b = b
  c = c
  d = d
  e = e
  ok = ok
  big = big
  nan = nan
  nul = nul
  whole = whole
  empty = empty
  folded = folded
  None = None
  Values = {a, b, c, d, e, ok, big, nan, nul, whole, folded, empty}
  Larger = {big}
  Unencodable = {nan}
  NotToml = {nul, whole, folded}
  Whole = whole
  Empty = empty
  Folded = folded
  Where <- MCWhere
  Query <- MCQuery
  Jobs <- MCJobs
  Streams <- MCStreams
  PeekLines = 2
  Named = {"auto", "json", "jsonl", "yaml", "toml"}
  Texts_ = {"json", "jsonl", "yaml", "toml"}
  Out = {"same", "jsonl", "yaml", "toml"}
  Given = {"keepGoing", "where", "create"}
  MaxLines = 3
  MaxPiped = 4
  MaxBroken = 1
SPECIFICATION StdinSpec
INVARIANTS StdinTypeOK StreamIsHonest PipesOn AnswersAtOnce
CHECK_DEADLOCK FALSE
