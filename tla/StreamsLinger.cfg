SPECIFICATION Spec
CONSTANT Nets <- BothStop
INVARIANT StopReturns
CHECK_DEADLOCK FALSE
