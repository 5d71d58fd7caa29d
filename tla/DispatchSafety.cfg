SPECIFICATION Spec
CONSTANTS
  d1 = d1
  d2 = d2
  v1 = v1
  v2 = v2
  NoJob = NoJob
  Jobs = {d1, d2}
  Workers = {v1, v2}
  Capacity = 1
  Guard <- Checked
  Limited = {d1}
  Cancelling <- RemoteCancelling
  Leaving <- LocalLeaving
  MaxVisits = 1
  Droppable = {d1}
  Endless = {d1}
  Panicky = {d2}
  Outcomes = {"data"}
  Configs <- AllConfigs
SYMMETRY WorkerSymmetry
INVARIANTS PermitsExact DepthExact NoneAfterDrain JobKept
PROPERTIES AnsweredOnce
CHECK_DEADLOCK FALSE
