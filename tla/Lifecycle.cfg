SPECIFICATION Spec
CONSTANTS
  Threads = {t1, t2, t3}
  MAX_SOCKETS = 2
  Socks = {o1, o2}
  Eps = {e1}
  Ops <- AllOps
  Timeouts <- Infinite
  NULL = NULL
CHECK_DEADLOCK FALSE
SYMMETRY Symmetry
INVARIANTS FreeStack RefCount NoUseAfterFree TeardownOnce EpAlive TermClosesAll
PROPERTIES ImplementsHandle
