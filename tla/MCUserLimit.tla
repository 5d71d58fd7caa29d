---------------------------- MODULE MCUserLimit ----------------------------
EXTENDS UserLimit, TLC

CONSTANTS b1, b2, j1, j2, j3

\* The hard cap: three jobs race on two replicas; one meets store errors.
StrictShared ==
  [shared |-> TRUE, threshold |-> 3, jobs |-> {j1, j2, j3}, late |-> {},
   flaky |-> {j3}, redispatch |-> FALSE]

\* The local gate with reconciliation: one replica joins late, any store call
\* may fail, jobs of a dead broker are dispatched again.
LazyShared ==
  [shared |-> TRUE, threshold |-> 0, jobs |-> {j1, j2}, late |-> {b2},
   flaky |-> {j1, j2}, redispatch |-> TRUE]

\* No store: every replica is on its own.
Unshared ==
  [shared |-> FALSE, threshold |-> 3, jobs |-> {j1, j2, j3}, late |-> {},
   flaky |-> {}, redispatch |-> FALSE]

MCSettings == {StrictShared, LazyShared, Unshared}
=============================================================================
