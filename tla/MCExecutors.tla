----------------------------- MODULE MCExecutors -----------------------------
(* Small instances of Executors for TLC. *)
EXTENDS Executors, TLC

CONSTANTS d1, d2, v1, v2

\* d2 is a target call, d1 a check or transform call (or one without a guard).
Checked == [j \in Jobs |-> IF j = d2 THEN "CancelledOrClientGone" ELSE "Cancelled"]
Unguarded == [j \in Jobs |-> IF j = d2 THEN "CancelledOrClientGone" ELSE "None"]

LocalLeaving == [local |-> {d2}, remote |-> {}]
RemoteCancelling == [local |-> {}, remote |-> {d1}]
NoneCancelling == [local |-> {}, remote |-> {}]

RemoteWeighted == [executor |-> "remote", queue |-> "weighted"]
AllConfigs == [executor: {"local", "remote"}, queue: {"fifo", "weighted"}]
LosesNothing == AllConfigs \ {RemoteWeighted}
WeightedPool == {RemoteWeighted}

WorkerSymmetry == Permutations(Workers)
=============================================================================
