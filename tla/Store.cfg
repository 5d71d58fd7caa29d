SPECIFICATION FairSpec
CONSTANTS
  b1 = b1
  b2 = b2
  b3 = b3
  NoBroker = NoBroker
  Brokers = {b1, b2, b3}
  Hint = b1
  Settings <- MCSettings
  MaxFaults = 1
  Site <- Home
  Env <- Zone
  Stamps <- MCStamps
  Randoms <- MCRandoms
INVARIANTS SlotsUnique IdNamesMinter ReserveListed
PROPERTIES KeepsContract CallReturns
CHECK_DEADLOCK FALSE
