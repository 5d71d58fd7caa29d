SPECIFICATION FairSpec
CONSTANTS
  Ids = {r1}
  Insts = {i1, i2}
  NoInst = NoInst
  Handlers = {h1, h2}
  MaxJobs = 1
  Persist = FALSE
  Flaky = {}
  Timeouts = TRUE
  RemotePool = TRUE
  CallerIds = FALSE
PROPERTIES ResultLeavesTable CallReturns
CHECK_DEADLOCK FALSE
