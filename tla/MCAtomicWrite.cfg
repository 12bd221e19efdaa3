CONSTANTS
  Writers = {w1, w2}
  Dests = {f1, f2}
  Backup = TRUE
  Retarget = TRUE
  PowerCut = TRUE
SYMMETRY Symmetry
SPECIFICATION WriteSpec
INVARIANTS AtomicTypeOK NeverTorn NoLitter OriginalIsSafe
PROPERTIES ImplementsAtomicFile
CHECK_DEADLOCK FALSE
