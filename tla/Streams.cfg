SPECIFICATION FairSpec
CONSTANT Nets <- AllNets
INVARIANTS InOrder NoHiddenInput
PROPERTIES TakenArrives PingAnswered
CHECK_DEADLOCK FALSE
