SPECIFICATION FairSpec
CONSTANTS
  d1 = d1
  d2 = d2
  v1 = v1
  v2 = v2
  NoJob = NoJob
  Jobs = {d1, d2}
  Workers = {v1}
  Capacity = 1
  Guard <- Unguarded
  Limited = {d1}
  Cancelling <- NoneCancelling
  Leaving <- LocalLeaving
  MaxVisits = 0
  Droppable = {}
  Endless = {d1}
  Panicky = {d2}
  Outcomes = {"data"}
  Configs <- LosesNothing
PROPERTIES KeepsContract DispatchReturns AbandonedLeaves
CHECK_DEADLOCK FALSE
