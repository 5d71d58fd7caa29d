SPECIFICATION FairSpec
CONSTANTS
  B1 = B1  B2 = B2  B3 = B3  j1 = j1  p1 = p1  p2 = p2
  Brokers = {B1, B2, B3}
  Jobs = {j1}
  Hint <- MCHint
  NoBroker = NoBroker
  Pollers = {p1, p2}
  TTL = 2
  Grace = 0
  Lag = 1
  Settings <- FaultyRivalsOrOneCrash
INVARIANTS PersistedNotLost SingleExecution
PROPERTIES LeaseGated LostOnlyWhenGone OrphanRecovered
CHECK_DEADLOCK FALSE
