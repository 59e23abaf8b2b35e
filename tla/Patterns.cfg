SPECIFICATION Spec
CONSTANTS
  RCVBUF = 2
  NoPipe = NoPipe
  Deadline = 1
  MaxSend = 4
  Topologies <- AllNets
INVARIANTS RouteToken RepliesComeHome DeliveredOnce  SubscriptionsExact
PROPERTIES HighestFirst ImplementsRequests
CHECK_DEADLOCK FALSE
