SPECIFICATION Spec
CONSTANTS
  Ids = {r1}
  Insts = {i1, i2, i3}
  NoInst = NoInst
  Handlers = {h1, h2}
  MaxJobs = 1
  Persist = TRUE
  Flaky = {}
  Timeouts = TRUE
  RemotePool = FALSE
  CallerIds = FALSE
SYMMETRY Symmetry
INVARIANTS SingleConsumer
CHECK_DEADLOCK FALSE
