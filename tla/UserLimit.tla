------------------------------ MODULE UserLimit ------------------------------
(***************************************************************************)
(* The per-user admission cap of one dispatcher that several brokers run:  *)
(* UserLimiter::admit with its strict and lazy modes, the guard that gives *)
(* the slot back, the shared store's per-user entries, and the sweeper's   *)
(* reclaim of entries left behind by dead brokers.  One (scope, user) pair *)
(* is modelled; pairs do not interact.                                     *)
(***************************************************************************)
EXTENDS Naturals, FiniteSets

CONSTANTS
  Brokers,     \* replicas of the dispatcher
  Jobs,        \* request ids of the user's jobs
  NoBroker,
  Max,         \* the resolved ceiling
  RemotePool,  \* the dispatcher's executor is a remote worker pool
  Settings     \* the deployments considered: records with the fields
               \*   shared      a store is configured (UserLimiter::store)
               \*   threshold   STRICT_MAX_THRESHOLD
               \*   jobs        the jobs submitted
               \*   late        brokers that start after the others
               \*   flaky       jobs whose store calls may fail, time out or, for
               \*               the release, not be made
               \*   redispatch  a dead broker's job is recovered and dispatched again

ASSUME LimitAssumption ==
  /\ IsFiniteSet(Jobs)
  /\ NoBroker \notin Brokers
  /\ Max \in Nat /\ RemotePool \in BOOLEAN
  /\ \A s \in Settings :
       /\ s.shared \in BOOLEAN /\ s.redispatch \in BOOLEAN /\ s.threshold \in Nat
       /\ s.flaky \subseteq s.jobs /\ s.jobs \subseteq Jobs /\ s.late \subseteq Brokers

VARIABLES
  setting,   \* the deployment; never changes
  alive,     \* "off" (not started), "up" or "down"
  lease,     \* brokers with an unexpired lease
  entry,     \* the store's entry per job; seq 0 means there is none
  user_seq,  \* the store's sequence (MemoryStore::user_seq, NATS revision)
  adm,       \* progress of each job's admission and dispatch
  counts,    \* UserLimiter::counts of each broker
  cached,    \* UserLimiter::cached_count of each broker
  releases,  \* spawned release_user_slot calls of each broker
  reclaim    \* progress of each broker's reclaim_user_slots

vars == <<setting, alive, lease, entry, user_seq, adm, counts, cached, releases, reclaim>>

-----------------------------------------------------------------------------
Entry == [seq: Nat, owner: Brokers \cup {NoBroker}]
NoEntry == [seq |-> 0, owner |-> NoBroker]
Entries == {j \in Jobs : entry[j].seq # 0}

\* "rank": strict, about to list; "gated": lazy, past the local gate; "count":
\* lazy, about to look at the synced count; "held": admitted, guard in the work
\* future; "remote": with a worker, work future dropped; "lost": its broker died.
AdmPc == {"new", "rank", "gated", "count", "held", "remote", "lost", "over"}
Admission == [pc: AdmPc, at: Brokers \cup {NoBroker}, seq: Nat]
Guarded == {"rank", "gated", "count", "held"}

Strict == setting.shared /\ Max <= setting.threshold

Reclaim == [pc: {"idle", "sweep"}, live: SUBSET Brokers]
Cached == [n: Nat, fresh: BOOLEAN]

Init ==
  /\ setting \in Settings
  /\ alive = [b \in Brokers |-> IF b \in setting.late THEN "off" ELSE "up"]
  /\ lease = Brokers \ setting.late
  /\ entry = [j \in Jobs |-> NoEntry]
  /\ user_seq = 0
  /\ adm = [j \in Jobs |-> [pc |-> "new", at |-> NoBroker, seq |-> 0]]
  /\ counts = [b \in Brokers |-> 0]
  /\ cached = [b \in Brokers |-> [n |-> 0, fresh |-> FALSE]]
  /\ releases = [b \in Brokers |-> {}]
  /\ reclaim = [b \in Brokers |-> [pc |-> "idle", live |-> {}]]

-----------------------------------------------------------------------------
(* The store *)

\* reserve_user_slot: idempotent per job, an existing entry is left as it is.
ReserveSlot(j, b) ==
  IF j \in Entries
  THEN UNCHANGED <<entry, user_seq>>
  ELSE /\ user_seq' = user_seq + 1
       /\ entry' = [entry EXCEPT ![j] = [seq |-> user_seq + 1, owner |-> b]]

ReservedSeq(j) == IF j \in Entries THEN entry[j].seq ELSE user_seq + 1

\* Position of (seq, job) in the sorted list; 0 if it is not in the list.
Rank(j, seq) ==
  IF j \in Entries /\ entry[j].seq = seq
  THEN Cardinality({k \in Entries : entry[k].seq < seq})
  ELSE 0

-----------------------------------------------------------------------------
(* UserLimiter::admit.  With a ceiling of 0 nothing below is enabled. *)

Incr(b) == counts' = [counts EXCEPT ![b] = @ + 1]

\* Fault: only the store's entry is given back.
DropGuardStoreOnly(j) ==
  /\ releases' = [releases EXCEPT ![adm[j].at] = @ \cup {j}]
  /\ UNCHANGED counts

\* Fault: only the local slot is given back.
DropGuardLocalOnly(j) ==
  /\ counts' = [counts EXCEPT ![adm[j].at] = IF @ = 0 THEN 0 ELSE @ - 1]
  /\ UNCHANGED releases

\* Drop for UserLimitGuard: the local slot at once, the entry by a spawned task.
\* A guard dropped outside a tokio runtime has no one to spawn it on: its entry
\* is left to the reclaim.
DropGuard(j) ==
  LET b == adm[j].at IN
  /\ counts' = [counts EXCEPT ![b] = IF @ = 0 THEN 0 ELSE @ - 1]
  /\ \/ setting.shared /\ releases' = [releases EXCEPT ![b] = @ \cup {j}]
     \/ (~setting.shared \/ j \in setting.flaky) /\ UNCHANGED releases

\* Strict: reserve, then the guard is created.
StrictReserve(j, b) ==
  /\ Strict /\ Max > 0
  /\ adm[j].pc = "new" /\ alive[b] = "up"
  /\ ReserveSlot(j, b)
  /\ Incr(b)
  /\ adm' = [adm EXCEPT ![j] = [pc |-> "rank", at |-> b, seq |-> ReservedSeq(j)]]
  /\ UNCHANGED <<setting, alive, lease, cached, releases, reclaim>>

\* A failed reserve admits the job, whether or not the entry was written.
StrictReserveFails(j, b) ==
  /\ j \in setting.flaky
  /\ Strict /\ Max > 0
  /\ adm[j].pc = "new" /\ alive[b] = "up"
  /\ ReserveSlot(j, b) \/ UNCHANGED <<entry, user_seq>>
  /\ Incr(b)
  /\ adm' = [adm EXCEPT ![j] = [pc |-> "held", at |-> b, seq |-> 0]]
  /\ UNCHANGED <<setting, alive, lease, cached, releases, reclaim>>

\* Fault: ranks are taken to start at 1.
StrictDecideOffByOne(j) ==
  /\ adm[j].pc = "rank"
  /\ \/ /\ j \in setting.flaky \/ Rank(j, adm[j].seq) <= Max
        /\ adm' = [adm EXCEPT ![j].pc = "held"]
        /\ UNCHANGED <<counts, releases>>
     \/ /\ Rank(j, adm[j].seq) > Max
        /\ adm' = [adm EXCEPT ![j].pc = "over"]
        /\ DropGuard(j)
  /\ UNCHANGED <<setting, alive, lease, entry, user_seq, cached, reclaim>>

\* list_user_slots and the FIFO rank; a failed list admits the job.
StrictDecide(j) ==
  /\ adm[j].pc = "rank"
  /\ \/ /\ j \in setting.flaky \/ Rank(j, adm[j].seq) < Max
        /\ adm' = [adm EXCEPT ![j].pc = "held"]
        /\ UNCHANGED <<counts, releases>>
     \/ /\ Rank(j, adm[j].seq) >= Max
        /\ adm' = [adm EXCEPT ![j].pc = "over"]
        /\ DropGuard(j)
  /\ UNCHANGED <<setting, alive, lease, entry, user_seq, cached, reclaim>>

\* Fault: the gate compares with <=.
LocalGateOffByOne(j, b) ==
  /\ ~Strict
  /\ adm[j].pc = "new" /\ alive[b] = "up"
  /\ counts[b] <= Max
  /\ Incr(b)
  /\ adm' = [adm EXCEPT ![j] =
       [pc |-> IF setting.shared THEN "gated" ELSE "held", at |-> b, seq |-> 0]]
  /\ UNCHANGED <<setting, alive, lease, entry, user_seq, cached, releases, reclaim>>

\* Without a store, and in lazy mode, try_admit_local decides first; at the cap
\* the job is refused and nothing changes.
LocalGate(j, b) ==
  /\ ~Strict
  /\ adm[j].pc = "new" /\ alive[b] = "up"
  /\ counts[b] < Max
  /\ Incr(b)
  /\ adm' = [adm EXCEPT ![j] =
       [pc |-> IF setting.shared THEN "gated" ELSE "held", at |-> b, seq |-> 0]]
  /\ UNCHANGED <<setting, alive, lease, entry, user_seq, cached, releases, reclaim>>

LazyReserve(j) ==
  LET b == adm[j].at IN
  /\ adm[j].pc = "gated"
  /\ \/ /\ ReserveSlot(j, b)
        /\ adm' = [adm EXCEPT ![j].pc = "count"]
     \/ /\ j \in setting.flaky
        /\ ReserveSlot(j, b) \/ UNCHANGED <<entry, user_seq>>
        /\ adm' = [adm EXCEPT ![j].pc = "held"]
  /\ UNCHANGED <<setting, alive, lease, counts, cached, releases, reclaim>>

\* The synced count: the cached one while fresh, else a new list (a failed one
\* admits the job).
LazyDecide(j) ==
  LET b == adm[j].at
      synced == IF cached[b].fresh THEN cached[b].n ELSE Cardinality(Entries) IN
  /\ adm[j].pc = "count"
  /\ \/ /\ cached' = [cached EXCEPT ![b] = [n |-> synced, fresh |-> TRUE]]
        /\ IF synced > Max
           THEN adm' = [adm EXCEPT ![j].pc = "over"] /\ DropGuard(j)
           ELSE adm' = [adm EXCEPT ![j].pc = "held"] /\ UNCHANGED <<counts, releases>>
     \/ /\ j \in setting.flaky /\ ~cached[b].fresh
        /\ adm' = [adm EXCEPT ![j].pc = "held"]
        /\ UNCHANGED <<cached, counts, releases>>
  /\ UNCHANGED <<setting, alive, lease, entry, user_seq, reclaim>>

\* LAZY_RECONCILE_INTERVAL elapses.
CacheExpires(b) ==
  /\ cached[b].fresh
  /\ cached' = [cached EXCEPT ![b].fresh = FALSE]
  /\ UNCHANGED <<setting, alive, lease, entry, user_seq, adm, counts, releases, reclaim>>

-----------------------------------------------------------------------------
(* The admitted job *)

\* The work future resolves, or is dropped while queued.
Finish(j) ==
  /\ adm[j].pc = "held"
  /\ adm' = [adm EXCEPT ![j].pc = "over"]
  /\ DropGuard(j)
  /\ UNCHANGED <<setting, alive, lease, entry, user_seq, cached, reclaim>>

\* handle_get_work: a worker takes the job, and the local work future, which
\* owns the guard, is dropped.
PickUp(j) ==
  /\ RemotePool
  /\ adm[j].pc = "held"
  /\ adm' = [adm EXCEPT ![j].pc = "remote"]
  /\ DropGuard(j)
  /\ UNCHANGED <<setting, alive, lease, entry, user_seq, cached, reclaim>>

RemoteFinish(j) ==
  /\ adm[j].pc = "remote"
  /\ adm' = [adm EXCEPT ![j].pc = "over"]
  /\ UNCHANGED <<setting, alive, lease, entry, user_seq, counts, cached, releases, reclaim>>

\* release_user_slot is keyed by the job alone; an error is only logged.
ReleaseLands(b, j) ==
  /\ j \in releases[b]
  /\ releases' = [releases EXCEPT ![b] = @ \ {j}]
  /\ entry' = [entry EXCEPT ![j] = NoEntry] \/ (j \in setting.flaky /\ UNCHANGED entry)
  /\ UNCHANGED <<setting, alive, lease, user_seq, adm, counts, cached, reclaim>>

-----------------------------------------------------------------------------
(* Brokers and the reclaim sweep *)

\* A broker serves as soon as it is up; its lease appears with the first
\* heartbeat.
StartBroker(b) ==
  /\ alive[b] = "off"
  /\ alive' = [alive EXCEPT ![b] = "up"]
  /\ UNCHANGED <<setting, lease, entry, user_seq, adm, counts, cached, releases, reclaim>>

FirstHeartbeat(b) ==
  /\ alive[b] = "up"
  /\ b \notin lease
  /\ lease' = lease \cup {b}
  /\ UNCHANGED <<setting, alive, entry, user_seq, adm, counts, cached, releases, reclaim>>

Crash(b) ==
  /\ alive[b] = "up"
  /\ alive' = [alive EXCEPT ![b] = "down"]
  /\ adm' = [j \in Jobs |->
       IF adm[j].at = b /\ adm[j].pc \in Guarded \cup {"remote"}
       THEN [adm[j] EXCEPT !.pc = "lost"] ELSE adm[j]]
  /\ counts' = [counts EXCEPT ![b] = 0]
  /\ cached' = [cached EXCEPT ![b] = [n |-> 0, fresh |-> FALSE]]
  /\ releases' = [releases EXCEPT ![b] = {}]
  /\ reclaim' = [reclaim EXCEPT ![b] = [pc |-> "idle", live |-> {}]]
  /\ UNCHANGED <<setting, lease, entry, user_seq>>

LeaseExpires(b) ==
  /\ alive[b] = "down"
  /\ b \in lease
  /\ lease' = lease \ {b}
  /\ UNCHANGED <<setting, alive, entry, user_seq, adm, counts, cached, releases, reclaim>>

\* A persisted job of the dead broker is claimed and dispatched again.
Recover(j) ==
  /\ setting.redispatch
  /\ adm[j].pc = "lost"
  /\ adm[j].at \notin lease
  /\ adm' = [adm EXCEPT ![j] = [pc |-> "new", at |-> NoBroker, seq |-> 0]]
  /\ UNCHANGED <<setting, alive, lease, entry, user_seq, counts, cached, releases, reclaim>>

\* Fault: the sweeping broker is missing from its own list of live owners.
ReclaimScanOthers(b) ==
  /\ setting.shared
  /\ alive[b] = "up"
  /\ reclaim[b].pc = "idle"
  /\ reclaim' = [reclaim EXCEPT ![b] = [pc |-> "sweep", live |-> lease \ {b}]]
  /\ UNCHANGED <<setting, alive, lease, entry, user_seq, adm, counts, cached, releases>>

\* reclaim_user_slots collects the live owners first ...
ReclaimScan(b) ==
  /\ setting.shared
  /\ alive[b] = "up"
  /\ reclaim[b].pc = "idle"
  /\ reclaim' = [reclaim EXCEPT ![b] = [pc |-> "sweep", live |-> lease]]
  /\ UNCHANGED <<setting, alive, lease, entry, user_seq, adm, counts, cached, releases>>

\* ... and then removes the entries of all others, unless a delete fails or
\* RECLAIM_TIMEOUT cuts it short.
ReclaimSweep(b) ==
  LET dead == {j \in Entries : entry[j].owner \notin reclaim[b].live} IN
  /\ reclaim[b].pc = "sweep"
  /\ \E D \in {D \in SUBSET dead : dead \ setting.flaky \subseteq D} :
       entry' = [j \in Jobs |-> IF j \in D THEN NoEntry ELSE entry[j]]
  /\ reclaim' = [reclaim EXCEPT ![b] = [pc |-> "idle", live |-> {}]]
  /\ UNCHANGED <<setting, alive, lease, user_seq, adm, counts, cached, releases>>

-----------------------------------------------------------------------------
Admit(j) ==
  \/ \E b \in Brokers : StrictReserve(j, b) \/ StrictReserveFails(j, b) \/ LocalGate(j, b)
  \/ StrictDecide(j) \/ LazyReserve(j) \/ LazyDecide(j)

JobStep(j) == Finish(j) \/ PickUp(j) \/ RemoteFinish(j) \/ Recover(j)

BrokerStep(b) ==
  \/ CacheExpires(b) \/ StartBroker(b) \/ FirstHeartbeat(b) \/ Crash(b) \/ LeaseExpires(b)
  \/ ReclaimScan(b) \/ ReclaimSweep(b)
  \/ \E j \in Jobs : ReleaseLands(b, j)

Next ==
  \/ \E j \in setting.jobs : Admit(j) \/ JobStep(j)
  \/ \E b \in Brokers : BrokerStep(b)

Spec == Init /\ [][Next]_vars

\* Fairness: spawned releases run, the sweeper thread is scheduled, and the
\* lease of a dead broker runs out.
Fairness ==
  /\ \A b \in Brokers : WF_vars(ReclaimScan(b)) /\ WF_vars(ReclaimSweep(b))
  /\ \A b \in Brokers : WF_vars(LeaseExpires(b)) /\ WF_vars(FirstHeartbeat(b))
  /\ \A b \in Brokers, j \in Jobs : WF_vars(ReleaseLands(b, j))

FairSpec == Spec /\ Fairness

-----------------------------------------------------------------------------
(* Properties *)

\* Every variable keeps its shape.
TypeOK ==
  /\ alive \in [Brokers -> {"off", "up", "down"}]
  /\ lease \in SUBSET Brokers
  /\ entry \in [Jobs -> Entry]
  /\ user_seq \in Nat
  /\ adm \in [Jobs -> Admission]
  /\ counts \in [Brokers -> Nat]
  /\ cached \in [Brokers -> Cached]
  /\ releases \in [Brokers -> SUBSET Jobs]
  /\ reclaim \in [Brokers -> Reclaim]

Held == {j \in Jobs : adm[j].pc = "held"}

\* Strict mode: across all brokers together, never more than max jobs of the
\* user hold an admission, in whatever order they reserve, list and release.
\* Jobs admitted because their store calls failed come on top.
StrictCap == Strict => Cardinality(Held \ setting.flaky) <= Max

\* A broker's local count is the number of guards it has outstanding.
CountsExact ==
  \A b \in Brokers :
    counts[b] = Cardinality({j \in Jobs : adm[j].at = b /\ adm[j].pc \in Guarded})

\* The local gate (no store, or lazy mode) tolerates over-use across brokers,
\* never on one broker: whatever the store answers or loses, a broker has at
\* most max jobs of the user admitted.
LocalCap ==
  ~Strict => \A b \in Brokers : Cardinality({j \in Held : adm[j].at = b}) <= Max

\* An admitted job keeps its entry, in its own name, for as long as it holds the
\* guard, so other replicas count it (unless the store failed on it).
HeldIsListed ==
  setting.shared =>
    \A j \in Held \ setting.flaky : entry[j].seq # 0 /\ entry[j].owner = adm[j].at

\* A slot is not lost: once its job is over, the entry goes away, by the
\* guard's release or, as the backstop, by some live broker's reclaim.
SlotFreed ==
  \A j \in Jobs :
    (j \in setting.jobs \ setting.flaky /\ adm[j].pc \in {"lost", "over"} /\ j \in Entries)
      ~> (j \notin Entries \/ \A b \in Brokers : alive[b] # "up")

=============================================================================
