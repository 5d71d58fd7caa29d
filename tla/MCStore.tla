------------------------------- MODULE MCStore -------------------------------
(* Small instances of Store for TLC. *)
EXTENDS Store

CONSTANTS b1, b2, b3

Put(v) == [op |-> "put", val |-> v, rev |-> 1]
Tombstone == [op |-> "del", val |-> NoBroker, rev |-> 1]

From(backend, key, kvs, made, brokers, n) ==
  {[backend |-> backend, key |-> key, kv |-> e, bucket |-> made,
    brokers |-> brokers, calls |-> n] : e \in kvs}

Counters == {Missing, Put(255), Put(U16Max - 1)}
Records == {Missing, Put(b1)}

\* The slot counter: three brokers starting up.
SlotSettings ==
  From("memory", "slot", Counters, "absent", Brokers, 3)
    \cup From("tikv", "slot", Counters, "absent", Brokers, 3)
    \cup From("nats", "slot", Counters \cup {Tombstone}, "current", Brokers, 3)

\* A job record: enough calls for a claim to lose all its attempts.
JobSettings ==
  From("memory", "job", Records, "absent", Brokers, 3)
    \cup From("tikv", "job", Records, "absent", {b1, b2}, 4)
    \cup From("nats", "job", {Missing}, "absent", {b1, b2}, 4)
    \cup From("nats", "job", {Put(b1)}, "stale", {b1, b2}, 5)

UserSettings ==
  From("memory", "user", {Missing}, "absent", Brokers, 3)
    \cup From("tikv", "user", {Missing}, "absent", {b1}, 1)
    \cup From("nats", "user", {Missing}, "stale", {b1, b2}, 4)
    \cup From("nats", "user", {Tombstone}, "current", Brokers, 2)

MCSettings ==
  SlotSettings \cup JobSettings \cup UserSettings
    \cup From("memory", "id", {Missing}, "absent", {}, 0)

Home == <<1, 35>>
Zone == <<0, 10, 20>>
MCStamps == {<<0, 0>>, <<65535, 256>>}
MCRandoms == {<<0, 0, 0, 0, 0>>, <<255, 255, 255, 255, 255>>}
=============================================================================
