---------------------------- MODULE StoreContract ----------------------------
(***************************************************************************)
(* What the runtime relies on from a persistence store, for one durable    *)
(* job record and one broker-slot counter: every call takes effect at one  *)
(* instant between its start and its answer.  A request whose answer is    *)
(* lost may still take effect, once, at any later time, or never.          *)
(***************************************************************************)
EXTENDS Naturals

CONSTANTS Brokers, NoBroker, Hint

VARIABLES
  owner,    \* broker_id of the durable record, NoBroker without a record
  next,     \* next broker slot to hand out
  answer,   \* what the last call of a broker returned, Pending until it has
  unsure    \* the requests of unknown fate: who made each (by) and what it asks (op)

vars == <<owner, next, answer, unsure>>

MaxSlot == 65535
NoAnswer == [res |-> "none"]
Pending == [res |-> "pending"]

Init ==
  /\ owner \in Brokers \cup {NoBroker}
  /\ next \in Nat
  /\ answer = [b \in Brokers |-> NoAnswer]
  /\ unsure = {}

Begin(b) == answer' = [answer EXCEPT ![b] = Pending] /\ UNCHANGED <<owner, next, unsure>>

\* The call under way returns a.
Returns(b, a) == answer[b] = Pending /\ answer' = [answer EXCEPT ![b] = a]

Answer(b, a) == Returns(b, a) /\ UNCHANGED unsure

\* A request for one of ops leaves b, and its answer is lost.
Loses(b, ops) == \E w \in unsure' : w.by = b /\ w.op \in ops /\ unsure' = unsure \cup {w}

\* Ownership moves from the hinted broker to the claimant, or not at all.
Claim(b) ==
  /\ UNCHANGED next
  /\ \/ owner = NoBroker /\ Answer(b, [res |-> "NotFound"]) /\ UNCHANGED owner
     \/ owner = b /\ Answer(b, [res |-> "Claimed"]) /\ UNCHANGED owner
     \/ owner = Hint /\ owner' = b /\ Answer(b, [res |-> "Claimed"])
     \/ owner \notin {NoBroker, b} /\ Answer(b, [res |-> "Active", owner |-> owner])
        /\ UNCHANGED owner
     \/ Answer(b, [res |-> "Conflict"]) /\ UNCHANGED owner

\* durable_job_present: looks, and never takes the record.
Present(b) ==
  /\ IF owner = NoBroker THEN Answer(b, [res |-> "NotFound"])
     ELSE Answer(b, [res |-> "Active", owner |-> owner])
  /\ UNCHANGED <<owner, next>>

Upsert(b) == owner' = b /\ Answer(b, [res |-> "Ok"]) /\ UNCHANGED next
Delete(b) == owner' = NoBroker /\ Answer(b, [res |-> "Ok"]) /\ UNCHANGED next

\* Slots are handed out once each, in order, up to the last u16.
Allocate(b) ==
  /\ \/ next <= MaxSlot /\ next' = next + 1 /\ Answer(b, [res |-> "Slot", slot |-> next])
     \/ next > MaxSlot /\ UNCHANGED next /\ Answer(b, [res |-> "SlotExhausted"])
  /\ UNCHANGED owner

Fail(b) ==
  /\ Returns(b, [res |-> "Backend"])
  /\ UNCHANGED unsure \/ Loses(b, {"claim", "upsert", "delete", "alloc"})
  /\ UNCHANGED <<owner, next>>

\* A removal is asked for again inside a call, the first request's fate unknown.
Repeat(b) ==
  /\ answer[b] = Pending
  /\ Loses(b, {"delete"})
  /\ UNCHANGED <<owner, next, answer>>

\* A request of unknown fate arrives and is spent, or proves to have been lost.
Land(w) ==
  /\ unsure' = unsure \ {w}
  /\ \/ UNCHANGED <<owner, next>>
     \/ w.op = "claim" /\ owner = Hint /\ owner' = w.by /\ UNCHANGED next
     \/ w.op = "upsert" /\ owner' = w.by /\ UNCHANGED next
     \/ w.op = "delete" /\ owner' = NoBroker /\ UNCHANGED next
     \/ w.op = "alloc" /\ next' = next + 1 /\ UNCHANGED owner
  /\ UNCHANGED answer

Next ==
  \/ \E b \in Brokers :
       \/ Begin(b) \/ Claim(b) \/ Present(b) \/ Upsert(b) \/ Delete(b) \/ Allocate(b)
       \/ Fail(b) \/ Repeat(b)
  \/ \E w \in unsure : Land(w)

Spec == Init /\ [][Next]_vars
=============================================================================
