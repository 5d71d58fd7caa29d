SPECIFICATION Spec
CONSTANTS
  d1 = d1
  d2 = d2
  v1 = v1
  v2 = v2
  NoJob = NoJob
  Jobs = {d1, d2}
  Workers = {v1}
  Capacity = 1
  Guard <- Unguarded
  Limited = {}
  Cancelling <- NoneCancelling
  Leaving <- LocalLeaving
  MaxVisits = 0
  Droppable = {}
  Endless = {d1}
  Panicky = {}
  Outcomes = {"data"}
  Configs <- WeightedPool
INVARIANT JobNotLost
CHECK_DEADLOCK FALSE
