SPECIFICATION Spec
CONSTANTS
  Sizes = {0, 1, 2, 6}
  Limits = {2, 5}
  Chunks = {c1, c2, c3, c4}
  GRANULARITY = 2
  NULL = NULL
  FREE = FREE
SYMMETRY Symmetry
INVARIANTS NoLeak
PROPERTIES ImplementsFifo
CHECK_DEADLOCK FALSE
