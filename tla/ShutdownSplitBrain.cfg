SPECIFICATION Spec
CONSTANTS
  B1 = B1  B2 = B2  B3 = B3  j1 = j1  p1 = p1  p2 = p2
  Brokers = {B1, B2, B3}
  Jobs = {j1}
  Hint <- MCHint
  NoBroker = NoBroker
  Pollers = {p1, p2}
  TTL = 10
  Grace = 1
  Lag = 5
  Settings <- OnlyOneShutdown
INVARIANTS DrainKeepsOwnership
CHECK_DEADLOCK FALSE
