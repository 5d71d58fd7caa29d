SPECIFICATION FairSpec
CONSTANTS
  b1 = b1  b2 = b2  j1 = j1  j2 = j2  j3 = j3
  Brokers = {b1, b2}
  Jobs = {j1, j2, j3}
  NoBroker = NoBroker
  Max = 1
  RemotePool = TRUE
  Settings <- MCSettings
INVARIANTS StrictCap HeldIsListed LocalCap CountsExact
PROPERTIES SlotFreed
CHECK_DEADLOCK FALSE
