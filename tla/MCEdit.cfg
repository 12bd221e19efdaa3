CONSTANTS
  KeyOrder <- MCKeyOrder
  Spelling <- MCSpelling
  Originals <- MCOriginals
  Edits <- MCEdits
  MaxChanges = 2
  NoValue <- Null
  Walk <- WalkRoot
SPECIFICATION EditSpec
INVARIANTS EditTypeOK EditIsHonest Reproduces TouchesNoMore
CHECK_DEADLOCK FALSE
