SPECIFICATION FairSpec
CONSTANT Nets <- AllNets
INVARIANTS SessionsOwned OneReconnector StopFinal CallerSafe
PROPERTIES Reconnects StopReturns
CHECK_DEADLOCK FALSE
