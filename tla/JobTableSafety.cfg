SPECIFICATION Spec
CONSTANTS
  Ids = {r1, r2}
  Insts = {i1, i2}
  NoInst = NoInst
  Handlers = {h1, h2}
  MaxJobs = 1
  Persist = TRUE
  Flaky = {r1}
  Timeouts = TRUE
  RemotePool = FALSE
  CallerIds = FALSE
SYMMETRY Symmetry
INVARIANTS CountExact EnforcedWithinMax ResultConserved NoLostWakeup RunningStaysInTable RecordAccounted
CHECK_DEADLOCK FALSE
