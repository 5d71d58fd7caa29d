--------------------------- MODULE DispatchContract ---------------------------
(***************************************************************************)
(* What a dispatcher promises about the calls it is given, whatever queue  *)
(* and executor it is built with: a call is refused or accepted, at most   *)
(* Capacity accepted calls wait, each is claimed and started at most once, *)
(* a call that is withdrawn is never started, and nothing is accepted once *)
(* the dispatcher is closing.                                              *)
(***************************************************************************)
EXTENDS Naturals, FiniteSets

CONSTANTS Jobs, Capacity

VARIABLES
  phase,   \* "idle", "queued", "claimed", "running" or "done" for each call
  open     \* the dispatcher is not closing

Queued == {j \in Jobs : phase[j] = "queued"}
Move(j, from, to) == phase[j] = from /\ phase' = [phase EXCEPT ![j] = to]

Init == phase = [j \in Jobs |-> "idle"] /\ open = TRUE

Refuse(j) == Move(j, "idle", "done") /\ UNCHANGED open

Accept(j) ==
  /\ open /\ Cardinality(Queued) < Capacity
  /\ Move(j, "idle", "queued")
  /\ UNCHANGED open

Claim(j) == Move(j, "queued", "claimed") /\ UNCHANGED open
Start(j) == Move(j, "claimed", "running") /\ UNCHANGED open
Settle(j) == (Move(j, "claimed", "done") \/ Move(j, "running", "done")) /\ UNCHANGED open

\* Queued calls leave without being claimed: withdrawn, or swept by close.
Withdraw ==
  /\ \E S \in SUBSET Queued :
       phase' = [j \in Jobs |-> IF j \in S THEN "done" ELSE phase[j]]
  /\ UNCHANGED open

Shut == open /\ open' = FALSE /\ UNCHANGED phase

Next ==
  \/ \E j \in Jobs : Refuse(j) \/ Accept(j) \/ Claim(j) \/ Start(j) \/ Settle(j)
  \/ Withdraw
  \/ Shut

Spec == Init /\ [][Next]_<<phase, open>>
=============================================================================
