-------------------------------- MODULE Store --------------------------------
(***************************************************************************)
(* The three persistence backends (db/memory.rs, db/nats.rs, db/tikv.rs),  *)
(* one key at a time: the broker-slot counter of a site and env, a durable *)
(* job record, or the slot of a job in the shared per-user count.          *)
(* Operations on different keys do not meet in the store, except that      *)
(* reclaim reads the leases, which are kept here as the set of brokers     *)
(* with a live one.                                                        *)
(*                                                                         *)
(* MemoryStore runs an operation under one mutex.  NATS and TiKV are       *)
(* reached over the network: an operation is a sequence of requests, each  *)
(* of which the server applies at once, and between which other brokers'   *)
(* requests come.  A request may fail, and a write whose answer is lost    *)
(* may be applied at any later time, or never.                             *)
(***************************************************************************)
EXTENDS RequestId, FiniteSets

CONSTANTS
  Brokers, NoBroker,
  Hint,        \* the broker in the job's id, the expected owner of a claim
  Settings,    \* [backend, key, kv, bucket, brokers, calls]: what a behaviour
               \* starts from; bound: the calls made in all
  MaxFaults,   \* bound: requests that fail
  Site, Env,   \* the tags of the brokers
  Stamps, Randoms   \* timestamps and random bytes ids are minted with

Entries == [op: {"none", "put", "del"}, val: Brokers \cup {NoBroker} \cup Nat, rev: Nat]

ASSUME StoreAssumption ==
  /\ Hint \in Brokers /\ NoBroker \notin Brokers
  /\ MaxFaults \in Nat
  /\ {Site, Env} \subseteq [1..1 -> 0..35] \cup [1..2 -> 0..35] \cup [1..3 -> 0..35]
  /\ Stamps \subseteq (0..U16Max) \X (0..U16Max)
  /\ Randoms \subseteq [1..5 -> 0..255]
  /\ \A s \in Settings :
       /\ s.backend \in {"memory", "nats", "tikv"}
       /\ s.key \in {"slot", "job", "user", "id"}
       /\ s.kv \in Entries
       /\ s.kv.op = "put" =>
            s.kv.rev > 0 /\ s.kv.val \in (IF s.key = "slot" THEN Nat ELSE Brokers)
       /\ s.bucket \in {"absent", "stale", "current"}
       /\ s.brokers \subseteq Brokers /\ s.calls \in Nat

VARIABLES
  setting,   \* the backend and the key
  bucket,    \* NATS bucket: "absent", or with a "stale" or the "current" config
  conn,      \* brokers whose client is initialised (the OnceCell is filled)
  kv,        \* the entry of the key
  rev,       \* the last revision of the bucket, or commit timestamp
  late,      \* writes whose answer was lost and which may still be applied
  call,      \* the running call of a broker
  answer,    \* what the last call of a broker returned
  slot,      \* the broker slot a broker was given, NoSlot before
  lease,     \* brokers with an unexpired lease
  calls, faults,  \* calls and faults left
  public_id  \* the string a client polls with

vars == <<setting, bucket, conn, kv, rev, late, call, answer, slot, lease, calls, faults, public_id>>

NoSlot == U16Max + 1
MAX_CAS_ATTEMPTS == IF setting.backend = "nats" THEN 3 ELSE 2

Missing == [op |-> "none", val |-> NoBroker, rev |-> 0]
NoAnswer == [res |-> "none"]
Pending == [res |-> "pending"]
NoCall == [op |-> "none", pc |-> "idle", seen |-> Missing, tries |-> 0, live |-> {}, hit |-> FALSE]

Memory == setting.backend = "memory"
Nats == setting.backend = "nats"

\* UserLimitStore is not implemented for TiKV: its calls return Backend.
Unsupported == setting.backend = "tikv" /\ setting.key = "user"

\* The operations on each kind of key; "id" is a public id being read.
OpsOf ==
  [slot |-> {"alloc"},
   job  |-> {"upsert", "delete", "claim", "probe"},
   user |-> {"reserve", "release", "list", "reclaim"},
   id   |-> {}]

Removes == {"delete", "release", "reclaim"}

\* The strings one character away from an id some broker minted.
Garbled ==
  {[encode_with_fixed_random(Site, Env, s, t, r) EXCEPT ![i] = d] :
     s \in {0, 256, U16Max}, t \in Stamps, r \in Randoms,
     i \in 1..ID_LEN, d \in {0, 8, 31, 99}}

Init ==
  /\ \E s \in Settings :
       /\ setting = [backend |-> s.backend, key |-> s.key, brokers |-> s.brokers]
       /\ kv = s.kv /\ rev = s.kv.rev /\ bucket = s.bucket /\ calls = s.calls
  /\ conn = {} /\ late = {}
  /\ call = [b \in Brokers |-> NoCall]
  /\ answer = [b \in Brokers |-> NoAnswer]
  /\ slot = [b \in Brokers |-> NoSlot]
  /\ lease = Brokers \ {Hint}
  /\ faults = MaxFaults
  /\ public_id \in IF setting.key = "id" THEN Garbled ELSE {Err}

-----------------------------------------------------------------------------
(* Entries *)

Live == kv.op = "put"
next_slot(e) == IF e.op = "put" THEN e.val ELSE 0

\* Fault: the revision read is not sent with the write.
AppliesBlindly(w) == TRUE

\* Whether the server accepts write w: kv create needs a key without a value,
\* kv update the revision that was read, a TiKV commit that nothing was
\* committed to the key since the transaction began.  put and purge are blind.
Applies(w) ==
  IF Nats /\ w.op \in {"upsert"} \cup Removes THEN TRUE
  ELSE IF Nats /\ (w.op = "reserve" \/ w.seen.op = "none") THEN ~Live
  ELSE kv.rev = w.seen.rev

\* What an accepted write leaves: NATS keeps a tombstone for a removed key.
Written(w) ==
  [op |-> IF w.op \in Removes THEN (IF Nats THEN "del" ELSE "none") ELSE "put",
   val |-> IF w.op \in Removes THEN NoBroker
           ELSE IF w.op = "alloc" THEN next_slot(w.seen) + 1 ELSE w.by,
   rev |-> rev + 1]

\* History: the entry was removed since a broker last started a call.
Marked == [b \in Brokers |-> [call[b] EXCEPT !.hit = TRUE]]

Apply(w) == kv' = Written(w) /\ rev' = rev + 1

\* nth tells a request from an equal one of the same broker that may still land:
\* a broker loses no two requests with as many calls and faults left.
WriteOf(b) ==
  LET w == [by |-> b, op |-> call[b].op, seen |-> call[b].seen, nth |-> 0] IN
  IF w \in late THEN [w EXCEPT !.nth = 1 + calls + faults] ELSE w

-----------------------------------------------------------------------------
(* Calls *)

First(op) ==
  IF op = "reclaim" /\ ~Unsupported THEN "leases"
  ELSE IF Memory \/ Unsupported THEN "run"
  ELSE IF op = "list" THEN "probe"
  ELSE IF Nats /\ op = "upsert" THEN "write"
  ELSE IF Nats /\ op \in Removes THEN "purge"
  ELSE "read"

Start(b, op) ==
  /\ call[b].pc = "idle" /\ calls > 0
  /\ op \in OpsOf[setting.key]
  /\ op = "alloc" => slot[b] = NoSlot
  /\ call' = [call EXCEPT ![b] = [NoCall EXCEPT !.op = op,
       !.pc = IF Memory \/ Unsupported \/ b \in conn THEN First(op) ELSE "connect"]]
  /\ answer' = [answer EXCEPT ![b] = NoAnswer]
  /\ calls' = calls - 1
  /\ UNCHANGED <<setting, public_id, bucket, conn, kv, rev, late, slot, lease, faults>>

Returns(b, a, base) ==
  /\ call' = [base EXCEPT ![b] = [NoCall EXCEPT !.hit = base[b].hit]]
  /\ answer' = [answer EXCEPT ![b] = a]
  /\ slot' = IF a.res = "Slot" THEN [slot EXCEPT ![b] = a.slot] ELSE slot

Answer(b, a) == Returns(b, a, call)

Goto(b, pc) == call' = [call EXCEPT ![b].pc = pc] /\ UNCHANGED <<answer, slot>>

\* get_or_create_bucket: create, else update an existing bucket's config, else
\* use the bucket as it is.
get_or_create_bucket ==
  IF bucket = "stale" THEN bucket' \in {"stale", "current"} ELSE bucket' = "current"

\* stores() / client(): the first call connects.  A failure leaves the cell
\* empty for the next call (Fail).
Connect(b) ==
  /\ call[b].pc = "connect"
  /\ conn' = conn \cup {b}
  /\ get_or_create_bucket
  /\ Goto(b, First(call[b].op))
  /\ UNCHANGED <<setting, public_id, kv, rev, late, lease, calls, faults>>

-----------------------------------------------------------------------------
(* Reads.  A call returns what the entry allows it to, or goes on to write. *)

\* allocate_*_broker_slot
AllocFrom(e) ==
  IF next_slot(e) > U16Max THEN [res |-> "SlotExhausted"] ELSE NoAnswer

\* durable_job_present claims for a broker, from an owner, that do not exist.
Claimant(b) == IF call[b].op = "probe" THEN NoBroker ELSE b
Expected(b) == IF call[b].op = "probe" THEN NoBroker ELSE Hint

\* claim_if_owner
ClaimFrom(e, b) ==
  IF e.op # "put" THEN [res |-> "NotFound"]
  ELSE IF e.val = Claimant(b) THEN [res |-> "Claimed"]
  ELSE IF e.val # Expected(b) THEN [res |-> "Active", owner |-> e.val]
  ELSE NoAnswer

\* reserve_user_slot: an existing entry keeps its revision.
ReserveFrom(e) == IF e.op = "put" THEN [res |-> "Seq", seq |-> e.rev] ELSE NoAnswer

FromEntry(b) ==
  IF call[b].op = "alloc" THEN AllocFrom(kv)
  ELSE IF call[b].op \in {"claim", "probe"} THEN ClaimFrom(kv, b)
  ELSE IF call[b].op = "reserve" THEN ReserveFrom(kv)
  ELSE NoAnswer

Read(b) ==
  /\ call[b].pc = "read"
  /\ IF FromEntry(b) # NoAnswer THEN Answer(b, FromEntry(b))
     ELSE /\ call' = [call EXCEPT ![b].pc = "write", ![b].seen = kv]
          /\ UNCHANGED <<answer, slot>>
  /\ UNCHANGED <<setting, public_id, bucket, conn, kv, rev, late, lease, calls, faults>>

-----------------------------------------------------------------------------
(* Writes *)

\* An accepted write's answer.
Done(w) ==
  IF w.op = "alloc" THEN [res |-> "Slot", slot |-> next_slot(w.seen)]
  ELSE IF w.op = "claim" THEN [res |-> "Claimed"]
  ELSE IF w.op = "reserve" THEN [res |-> "Seq", seq |-> rev + 1]
  ELSE [res |-> "Ok"]

Write(b) ==
  /\ call[b].pc = "write" /\ Applies(WriteOf(b))
  /\ Apply(WriteOf(b))
  /\ Returns(b, Done(WriteOf(b)), IF call[b].op \in Removes THEN Marked ELSE call)
  /\ UNCHANGED <<setting, public_id, bucket, conn, late, lease, calls, faults>>

\* The loop of allocate_*_broker_slot.
AllocRetry(b) == Goto(b, "read")

\* The attempts of claim_if_owner: NATS looks once more when they are used up.
ClaimRetry(b) ==
  IF call[b].tries + 1 < MAX_CAS_ATTEMPTS
  THEN call' = [call EXCEPT ![b].pc = "read", ![b].tries = @ + 1] /\ UNCHANGED <<answer, slot>>
  ELSE IF Nats THEN Goto(b, "reread") ELSE Answer(b, [res |-> "Conflict"])

\* A write the server refuses: another broker's came first.
Refused(b) ==
  /\ call[b].pc = "write" /\ ~Applies(WriteOf(b))
  /\ \/ call[b].op = "alloc" /\ AllocRetry(b)
     \/ call[b].op = "claim" /\ ClaimRetry(b)
     \/ call[b].op = "reserve" /\ Goto(b, "reread")
     \/ call[b].op \in {"upsert", "delete"} /\ Answer(b, [res |-> "Backend"])
  /\ UNCHANGED <<setting, public_id, bucket, conn, kv, rev, late, lease, calls, faults>>

\* claim_if_owner after the last attempt: Active names whoever owns the record.
LookAgain(b) ==
  IF ~Live THEN [res |-> "NotFound"]
  ELSE IF kv.val = b THEN [res |-> "Claimed"]
  ELSE [res |-> "Active", owner |-> kv.val]

\* reserve_user_slot returns the revision of the key, of a tombstone too, and
\* 0 without one.
Reread(b) ==
  /\ call[b].pc = "reread"
  /\ Answer(b, IF call[b].op = "claim" THEN LookAgain(b) ELSE [res |-> "Seq", seq |-> kv.rev])
  /\ UNCHANGED <<setting, public_id, bucket, conn, kv, rev, late, lease, calls, faults>>

\* purge_expiring: purge_with_ttl; when it fails, on a bucket with a stale
\* config or for any other reason, a plain purge ("write").
Purge(b) ==
  /\ call[b].pc = "purge"
  /\ \/ /\ bucket = "current"
        /\ Apply(WriteOf(b))
        /\ Returns(b, Done(WriteOf(b)), Marked)
        /\ UNCHANGED <<late, faults>>
     \/ /\ bucket = "stale" /\ Goto(b, "write")
        /\ UNCHANGED <<kv, rev, late, faults>>
     \/ /\ bucket = "current" /\ faults > 0 /\ faults' = faults - 1
        /\ late' = late \cup {WriteOf(b)}
        /\ Goto(b, "write")
        /\ UNCHANGED <<kv, rev>>
  /\ UNCHANGED <<setting, public_id, bucket, conn, lease, calls>>

-----------------------------------------------------------------------------
(* Scans of the bucket: list_user_slots and reclaim_user_slots *)

\* The brokers with a live lease, read before the entries.
Leases(b) ==
  /\ call[b].pc = "leases"
  /\ call' = [call EXCEPT ![b].live = lease, ![b].pc = IF Memory THEN "run" ELSE "probe"]
  /\ UNCHANGED <<setting, public_id, bucket, conn, kv, rev, late, answer, slot, lease, calls, faults>>

\* The STREAM.INFO probe: a tombstone is a match.
Probe(b) ==
  /\ call[b].pc = "probe"
  /\ IF kv.op = "none" THEN Answer(b, [res |-> "Ok"]) ELSE Goto(b, "watch")
  /\ UNCHANGED <<setting, public_id, bucket, conn, kv, rev, late, lease, calls, faults>>

Dead(b) == Live /\ kv.val \notin call[b].live

\* watch_with_history delivers nothing while no key matches.
Watch(b) ==
  /\ call[b].pc = "watch" /\ kv.op # "none"
  /\ IF call[b].op = "reclaim" /\ Dead(b)
     THEN call' = [call EXCEPT ![b].pc = "purge", ![b].seen = kv] /\ UNCHANGED <<answer, slot>>
     ELSE Answer(b, [res |-> "Ok"])
  /\ UNCHANGED <<setting, public_id, bucket, conn, kv, rev, late, lease, calls, faults>>

-----------------------------------------------------------------------------
\* MemoryStore: the whole operation under its mutex.
Run(b) ==
  LET w == [WriteOf(b) EXCEPT !.seen = kv] IN
  /\ call[b].pc = "run"
  /\ IF Unsupported THEN Answer(b, [res |-> "Backend"]) /\ UNCHANGED <<kv, rev>>
     ELSE IF FromEntry(b) # NoAnswer THEN Answer(b, FromEntry(b)) /\ UNCHANGED <<kv, rev>>
     ELSE IF call[b].op = "list" \/ (call[b].op = "reclaim" /\ ~Dead(b))
     THEN Answer(b, [res |-> "Ok"]) /\ UNCHANGED <<kv, rev>>
     ELSE Apply(w) /\ Returns(b, Done(w), IF call[b].op \in Removes THEN Marked ELSE call)
  /\ UNCHANGED <<setting, public_id, bucket, conn, late, lease, calls, faults>>

\* Fault: the scans are awaited without a limit.
NeverGivesUp(b) == FALSE

\* The callers of list_user_slots and reclaim_user_slots drop the call after
\* LIST_SLOTS_TIMEOUT and RECLAIM_TIMEOUT.
GiveUp(b) ==
  /\ call[b].op \in {"list", "reclaim"} /\ call[b].pc \in {"leases", "probe", "watch", "purge", "write"}
  /\ ~Memory
  /\ late' = IF call[b].pc \in {"purge", "write"} THEN late \cup {WriteOf(b)} ELSE late
  /\ Answer(b, [res |-> "Backend"])
  /\ UNCHANGED <<setting, public_id, bucket, conn, kv, rev, lease, calls, faults>>

Step(b) ==
  \/ Connect(b) \/ Read(b) \/ Write(b) \/ Refused(b) \/ Reread(b)
  \/ Purge(b) \/ Leases(b) \/ Probe(b) \/ Watch(b) \/ Run(b)
  \/ GiveUp(b)

-----------------------------------------------------------------------------
(* The environment *)

\* A request fails.  The fate of a write is then unknown.
Fail(b) ==
  /\ call[b].pc \in {"connect", "read", "write", "reread", "leases", "probe", "watch"}
  /\ ~Memory
  /\ faults > 0 /\ faults' = faults - 1
  /\ late' = IF call[b].pc = "write" THEN late \cup {WriteOf(b)} ELSE late
  /\ Answer(b, [res |-> "Backend"])
  /\ UNCHANGED <<setting, public_id, bucket, conn, kv, rev, lease, calls>>

\* A write given up on reaches the server after all.
Land(w) ==
  /\ w \in late /\ late' = late \ {w}
  /\ IF Applies(w)
     THEN Apply(w) /\ call' = IF w.op \in Removes THEN Marked ELSE call
     ELSE UNCHANGED <<kv, rev, call>>
  /\ UNCHANGED <<setting, public_id, bucket, conn, answer, slot, lease, calls, faults>>

\* The TTL of a tombstone: the key is gone without a trace.
TombstoneExpires ==
  /\ kv.op = "del"
  /\ kv' = Missing
  /\ UNCHANGED <<setting, public_id, bucket, conn, rev, late, call, answer, slot, lease, calls, faults>>

\* upsert_broker_lease, and the end of a lease (expired or deleted).
upsert_broker_lease(b) ==
  /\ setting.key = "user" /\ b \notin lease /\ calls > 0
  /\ lease' = lease \cup {b} /\ calls' = calls - 1
  /\ UNCHANGED <<setting, public_id, bucket, conn, kv, rev, late, call, answer, slot, faults>>

LeaseEnds(b) ==
  /\ setting.key = "user" /\ b \in lease /\ calls > 0
  /\ lease' = lease \ {b} /\ calls' = calls - 1
  /\ UNCHANGED <<setting, public_id, bucket, conn, kv, rev, late, call, answer, slot, faults>>

Next ==
  \/ \E b \in setting.brokers :
       \/ \E op \in OpsOf[setting.key] : Start(b, op)
       \/ Step(b) \/ Fail(b) \/ upsert_broker_lease(b) \/ LeaseEnds(b)
  \/ \E w \in late : Land(w)
  \/ TombstoneExpires

Spec == Init /\ [][Next]_vars

\* A call under way goes on or is given up; nothing is assumed of the
\* environment.
FairSpec == Spec /\ \A b \in Brokers : WF_vars(Step(b))

-----------------------------------------------------------------------------
(* Properties *)

Ops == {"alloc", "upsert", "delete", "claim", "probe", "reserve", "release", "list", "reclaim"}
Pcs == {"idle", "connect", "run", "read", "write", "reread", "purge", "leases", "probe", "watch"}

TypeOK ==
  /\ bucket \in {"absent", "stale", "current"}
  /\ conn \subseteq Brokers /\ lease \subseteq Brokers
  /\ kv \in Entries /\ rev \in Nat
  /\ late \subseteq [by: Brokers, op: Ops, seen: Entries, nth: Nat]
  /\ call \in [Brokers -> [op: Ops \cup {"none"}, pc: Pcs, seen: Entries, tries: 0..2,
                           live: SUBSET Brokers, hit: BOOLEAN]]
  /\ slot \in [Brokers -> 0..NoSlot]
  /\ calls \in Nat /\ faults \in 0..MaxFaults

\* No two brokers are given the same slot, and none a slot that does not fit
\* the id's 16 bits: the slot names the broker in every id it mints, so two
\* brokers with one slot would answer for each other's jobs.
SlotsUnique ==
  \A b, c \in Brokers :
    slot[b] # NoSlot => slot[b] \in 0..U16Max /\ (b # c => slot[b] # slot[c])

\* An id leads back to its minter and has one spelling.  Whatever the time and
\* the random bytes, slot_from_job_id of an id a broker mints is that broker, and
\* no other's; and since job keys are made of public ids, a string that decode
\* accepts is what its fields encode to.
IdNamesMinter ==
  /\ \A b \in Brokers, t \in Stamps, r \in Randoms :
       slot[b] # NoSlot =>
         LET id == encode_with_fixed_random(Site, Env, slot[b], t, r) IN
         /\ decode(id) = <<Site, Env, t, slot[b], r>>
         /\ {c \in Brokers : slot[c] # NoSlot /\ slot_from_job_id(id) = <<Site, Env, slot[c]>>} = {b}
  /\ (setting.key = "id" /\ decode(public_id) # Err) =>
       LET d == decode(public_id) IN
       encode_with_fixed_random(d[1], d[2], d[4], d[3], d[5]) = public_id

\* A reserved user slot is in the list under the sequence number its caller
\* ranks itself by, until the slot is released or reclaimed: whoever else
\* reserves for the same job meets that entry and does not replace it.
ReserveListed ==
  \A b \in Brokers :
    (answer[b].res = "Seq" /\ ~call[b].hit) => (Live /\ kv.rev = answer[b].seq)

\* Every store call returns to its caller, however many writes of other
\* brokers it loses to, and also when the last match of a scan expires
\* between its probe and its watch.
CallReturns == \A b \in Brokers : call[b].pc # "idle" ~> call[b].pc = "idle"

Contract == INSTANCE StoreContract WITH
  owner <- IF setting.key = "job" /\ Live THEN kv.val ELSE NoBroker,
  next <- IF setting.key = "slot" THEN next_slot(kv) ELSE 0,
  answer <- [b \in Brokers |-> IF setting.key = "user" THEN NoAnswer
                               ELSE IF call[b].pc = "idle" THEN answer[b] ELSE Pending],
  unsure <- IF setting.key = "user" THEN {} ELSE late

\* The three backends keep the store's contract: claims and slot allocations
\* are atomic, over the network and with lost answers too.
KeepsContract == Contract!Spec
=============================================================================
