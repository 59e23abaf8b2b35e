SPECIFICATION FairSpec
CONSTANTS
  Threads = {t1, t2, t3}
  MAX_SOCKETS = 1
  Socks = {o1}
  Eps = {e1}
  Ops <- BlockedOps
  Timeouts <- FiniteAndInfinite
  NULL = NULL
CHECK_DEADLOCK FALSE
PROPERTIES CallsReturn
