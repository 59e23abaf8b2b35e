CONSTANTS
  Hashes = 7
  VHash <- MCVHash
  VIRTUAL = 2
  NCAP = 1
  VCAP = 1
  Local = 9
  SUSPECT = 0
  DEAD = 1
  MaxLag = 1
  Nets <- MCNets
SPECIFICATION Spec
INVARIANTS StopWakes
PROPERTIES RoutesRight LeaveReturns Forgotten
CHECK_DEADLOCK FALSE
