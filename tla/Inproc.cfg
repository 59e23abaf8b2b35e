SPECIFICATION Spec
CONSTANTS
  s1 = s1
  s2 = s2
  c1 = c1
  c2 = c2
  Socks <- TwoSocks
  Callers <- TwoCallers
  Addrs = {a1}
  Ispeer <- AllButOne
  Cap <- OnePipe
  MaxEps = 3
  MaxOpen = 2
  MaxSess = 4
  MaxErrors = 1
SYMMETRY Alike
INVARIANTS Paired SessionsOwned EndpointsListed
CHECK_DEADLOCK FALSE
