------------------------------ MODULE Recovery ------------------------------
(***************************************************************************)
(* Brokers that share a durable store: broker leases and their heartbeat,  *)
(* durable job records, Bits::poll with its proxy and claim-and-recover    *)
(* paths, broker crashes and graceful shutdown.                            *)
(*                                                                         *)
(* What one broker does with its own table is module JobTable's subject;   *)
(* here a broker's table holds, per job, where its execution stands.  A    *)
(* restarted process allocates a new slot, hence a new broker id, so a     *)
(* broker that is down never comes back.  Time passes in ticks; a lease is *)
(* described by its age, the time since its last renewal, which stops      *)
(* counting once the lease has expired (a missing lease has that age too). *)
(* A broker serves from the moment it is built, before the first renewal   *)
(* of its heartbeat thread, so it starts without a lease.                  *)
(***************************************************************************)
EXTENDS Naturals, FiniteSets

CONSTANTS
  Brokers,     \* broker ids
  Jobs,        \* request ids
  Hint,        \* the broker whose slot an id encodes: slot_from_job_id
  NoBroker,
  Pollers,     \* poll requests in progress
  TTL,         \* broker_lease_ttl
  Grace,       \* lease_grace_duration
  Lag,         \* a timely broker's lease is renewed within this time
  Settings     \* fault settings: which brokers there are and what may go wrong

ASSUME RecoveryAssumption ==
  /\ Jobs # {} /\ Hint \in [Jobs -> Brokers]
  /\ NoBroker \notin Brokers
  /\ TTL \in Nat \ {0} /\ Grace \in Nat /\ Lag \in Nat
  /\ \A s \in Settings :
       /\ s.brokers \subseteq Brokers /\ s.polls \subseteq Pollers \X Brokers
       /\ s.mortal \subseteq Brokers /\ s.timely \subseteq Brokers
       /\ s.shutdowns \in BOOLEAN /\ s.storeFails \in BOOLEAN

VARIABLES
  setting,    \* which faults may happen; chosen once
  up,         \* "up", "draining" (Drop for Bits is running), "drained" (its
              \* heartbeat thread is done) or "down"
  age,        \* age of a broker's lease
  drain,      \* how long a broker has been draining
  local,      \* a broker's table: where each job's execution stands
  persisted,  \* jobs in a broker's table with Job::persisted set
  rec,        \* owner (broker_id) of each durable record, or NoBroker
  upserts,    \* upsert_job calls on their way to the store
  deletes,    \* delete_job calls of a broker on their way to the store
  poll,       \* progress of each poll
  issued,     \* ids handed out
  written,    \* history: jobs that have had a durable record
  consumed,   \* history: jobs whose result was taken by a poll, or swept
  exposed     \* history: jobs whose broker has been in service without a lease

brokerVars == <<setting, up, age, drain>>
tableVars == <<local, persisted>>
storeVars == <<rec, upserts, deletes>>
history == <<issued, written, consumed, exposed>>
vars == <<brokerVars, tableVars, storeVars, poll, history>>

-----------------------------------------------------------------------------
\* "late": the persist_after timer has fired (or the job was restored).
LocalState == {"none", "run", "upsert", "late", "ready"}
Executing == {"run", "upsert", "late"}

PollPc == {"idle", "local", "lease", "claim", "restore", "repoll", "owner", "proxy"}
PollFields == [pc: PollPc, at: Brokers \cup {NoBroker}, job: Jobs, owner: Brokers \cup {NoBroker}]

Expired == TTL + Grace
\* lease_is_active_with_grace
Active(b) == age[b] < Expired

AnyJob == CHOOSE j \in Jobs : TRUE
Idle == [pc |-> "idle", at |-> NoBroker, job |-> AnyJob, owner |-> NoBroker]

Goto(p, pc) == poll' = [poll EXCEPT ![p].pc = pc]
Answer(p) == poll' = [poll EXCEPT ![p] = Idle]

Init ==
  /\ setting \in Settings
  /\ up = [b \in Brokers |-> IF b \in setting.brokers THEN "up" ELSE "down"]
  /\ age = [b \in Brokers |-> Expired]
  /\ drain = [b \in Brokers |-> 0]
  /\ local = [b \in Brokers |-> [j \in Jobs |-> "none"]]
  /\ persisted = [b \in Brokers |-> {}]
  /\ rec = [j \in Jobs |-> NoBroker]
  /\ upserts = {}
  /\ deletes = [b \in Brokers |-> {}]
  /\ poll = [p \in Pollers |-> Idle]
  /\ issued = {} /\ written = {} /\ consumed = {} /\ exposed = {}

-----------------------------------------------------------------------------
(* A job on a broker *)

SetLocal(b, j, s) == local' = [local EXCEPT ![b][j] = s]

\* The broker whose slot the new id encodes accepts the job.
Submit(j) ==
  /\ j \notin issued
  /\ up[Hint[j]] = "up"
  /\ issued' = issued \cup {j}
  /\ exposed' = IF Active(Hint[j]) THEN exposed ELSE exposed \cup {j}
  /\ SetLocal(Hint[j], j, "run")
  /\ UNCHANGED <<brokerVars, persisted, storeVars, poll, written, consumed>>

\* persist_after elapses; upsert_job is sent.  Only a job that was not restored
\* gets here, and it is on the broker of its hint.
PersistTimer(j) ==
  /\ local[Hint[j]][j] = "run"
  /\ SetLocal(Hint[j], j, "upsert")
  /\ upserts' = upserts \cup {j}
  /\ UNCHANGED <<brokerVars, persisted, rec, deletes, poll, history>>

\* The write reaches the store, whether or not its sender is still alive.  It
\* replaces whatever record there is.
UpsertLands(j) ==
  LET b == Hint[j] IN
  /\ j \in upserts
  /\ upserts' = upserts \ {j}
  /\ rec' = [rec EXCEPT ![j] = b]
  /\ written' = written \cup {j}
  /\ IF local[b][j] = "upsert"
     THEN /\ SetLocal(b, j, "late")
          /\ persisted' = [persisted EXCEPT ![b] = @ \cup {j}]
     ELSE UNCHANGED tableVars
  /\ UNCHANGED <<brokerVars, deletes, poll, issued, consumed, exposed>>

\* The call returns an error: the job goes on without the persisted flag, and
\* the write is lost or is still to land.
UpsertFails(j) ==
  LET b == Hint[j] IN
  /\ setting.storeFails
  /\ local[b][j] = "upsert"
  /\ SetLocal(b, j, "late")
  /\ upserts' \in {upserts, upserts \ {j}}
  /\ UNCHANGED <<brokerVars, persisted, rec, deletes, poll, history>>

\* Fault: the record is deleted when the job finishes, not when it is consumed.
FinishDeletes(b, j) ==
  /\ local[b][j] \in {"run", "late"}
  /\ SetLocal(b, j, "ready")
  /\ deletes' = IF j \in persisted[b] THEN [deletes EXCEPT ![b] = @ \cup {j}] ELSE deletes
  /\ UNCHANGED <<brokerVars, persisted, rec, upserts, poll, history>>

Finish(b, j) ==
  /\ local[b][j] \in {"run", "late"}
  /\ SetLocal(b, j, "ready")
  /\ UNCHANGED <<brokerVars, persisted, storeVars, poll, history>>

\* A result leaves the table: remove_job, then the delete of a persisted job's
\* record is handed to the cleanup worker.
Consume(b, j) ==
  /\ SetLocal(b, j, "none")
  /\ persisted' = [persisted EXCEPT ![b] = @ \ {j}]
  /\ deletes' = IF j \in persisted[b] THEN [deletes EXCEPT ![b] = @ \cup {j}] ELSE deletes
  /\ consumed' = consumed \cup {j}

\* The sweeper removes a finished job whose client is gone.
Sweep(b, j) ==
  /\ up[b] = "up"
  /\ local[b][j] = "ready"
  /\ Consume(b, j)
  /\ UNCHANGED <<brokerVars, rec, upserts, poll, issued, written, exposed>>

\* delete_job is unconditional: it removes the record whoever owns it now.
DeleteLands(b, j) ==
  /\ j \in deletes[b]
  /\ deletes' = [deletes EXCEPT ![b] = @ \ {j}]
  /\ rec' = [rec EXCEPT ![j] = NoBroker]
  /\ UNCHANGED <<brokerVars, tableVars, upserts, poll, history>>

\* An error of delete_job is only logged.
DeleteFails(b, j) ==
  /\ setting.storeFails
  /\ j \in deletes[b]
  /\ deletes' = [deletes EXCEPT ![b] = @ \ {j}]
  /\ UNCHANGED <<brokerVars, tableVars, rec, upserts, poll, history>>

-----------------------------------------------------------------------------
(* Bits::poll *)

StartPoll(p, b, j) ==
  /\ <<p, b>> \in setting.polls     \* the load balancer's choices
  /\ poll[p].pc = "idle"
  /\ up[b] = "up"
  /\ j \in issued
  /\ poll' = [poll EXCEPT ![p] = [pc |-> "local", at |-> b, job |-> j, owner |-> NoBroker]]
  /\ UNCHANGED <<brokerVars, tableVars, storeVars, history>>

\* poll_local finds the job: it takes the result, or times out on a job that
\* is still executing.  In either case the poll is over.
PollFound(p) ==
  LET b == poll[p].at
      j == poll[p].job IN
  /\ poll[p].pc \in {"local", "repoll"}
  /\ \/ local[b][j] = "ready" /\ Consume(b, j)
     \/ local[b][j] \in Executing /\ UNCHANGED <<tableVars, deletes, consumed>>
  /\ Answer(p)
  /\ UNCHANGED <<brokerVars, rec, upserts, issued, written, exposed>>

\* A local miss.  For its own ids a broker goes straight to the claim; after a
\* recovery the answer is "queued".
PollMissed(p) ==
  LET b == poll[p].at
      j == poll[p].job IN
  /\ poll[p].pc \in {"local", "repoll"}
  /\ local[b][j] = "none"
  /\ IF poll[p].pc = "repoll" THEN Answer(p)
     ELSE Goto(p, IF Hint[j] = b THEN "claim" ELSE "lease")
  /\ UNCHANGED <<brokerVars, tableVars, storeVars, history>>

\* Fault: the claim is not gated by the lease.
LookupHintUngated(p) ==
  /\ poll[p].pc = "lease"
  /\ Goto(p, "claim")
  /\ UNCHANGED <<brokerVars, tableVars, storeVars, history>>

\* lookup_owner_lease for the hint; an error (Unknown) answers "queued".
LookupHint(p) ==
  LET a == Hint[poll[p].job] IN
  /\ poll[p].pc = "lease"
  /\ \/ Active(a) /\ poll' = [poll EXCEPT ![p].pc = "proxy", ![p].owner = a]
     \/ ~Active(a) /\ Goto(p, "claim")
     \/ setting.storeFails /\ Answer(p)
  /\ UNCHANGED <<brokerVars, tableVars, storeVars, history>>

\* Fault: the store does not compare the owner before replacing it.
ClaimUnconditional(p) ==
  LET b == poll[p].at
      j == poll[p].job IN
  /\ poll[p].pc = "claim"
  /\ \/ /\ rec[j] = NoBroker
        /\ Answer(p)
        /\ UNCHANGED rec
     \/ /\ rec[j] # NoBroker
        /\ rec' = [rec EXCEPT ![j] = b]
        /\ Goto(p, "restore")
  /\ UNCHANGED <<brokerVars, tableVars, upserts, deletes, history>>

\* Fault: the owner expected by the claim is the claimant, not the hint.
ClaimOwnOnly(p) ==
  LET b == poll[p].at
      j == poll[p].job IN
  /\ poll[p].pc = "claim"
  /\ \/ /\ rec[j] # b
        /\ Answer(p)
     \/ /\ rec[j] = b
        /\ Goto(p, "restore")
  /\ UNCHANGED <<brokerVars, tableVars, storeVars, history>>

\* claim_with_backoff: claim_if_owner(id, hint, self), atomic in the store; a
\* backend error is retried until the deadline.  The attempt that failed last
\* may still have been applied.
Claim(p) ==
  LET b == poll[p].at
      j == poll[p].job IN
  /\ poll[p].pc = "claim"
  /\ \/ /\ rec[j] = NoBroker     \* NotFound / JobLost
        /\ Answer(p)
        /\ UNCHANGED rec
     \/ /\ rec[j] \in {b, Hint[j]}     \* Claimed
        /\ rec' = [rec EXCEPT ![j] = b]
        /\ Goto(p, "restore")
     \/ /\ rec[j] \notin {NoBroker, b, Hint[j]}     \* Active
        /\ poll' = [poll EXCEPT ![p].pc = "owner", ![p].owner = rec[j]]
        /\ UNCHANGED rec
     \/ /\ setting.storeFails     \* Backend error, past the deadline
        /\ Answer(p)
        /\ UNCHANGED rec \/ (rec[j] = Hint[j] /\ rec' = [rec EXCEPT ![j] = b])
  /\ UNCHANGED <<brokerVars, tableVars, upserts, deletes, history>>

\* submit_with_state(Job::restore(record), true); a duplicate is left alone.
Restore(p) ==
  LET b == poll[p].at
      j == poll[p].job IN
  /\ poll[p].pc = "restore"
  /\ IF local[b][j] = "none"
     THEN /\ SetLocal(b, j, "late")
          /\ persisted' = [persisted EXCEPT ![b] = @ \cup {j}]
     ELSE UNCHANGED tableVars
  /\ Goto(p, "repoll")
  /\ UNCHANGED <<brokerVars, storeVars, history>>

\* The record's owner is another broker: proxy to it if its lease is active,
\* otherwise answer "queued".
LookupOwner(p) ==
  /\ poll[p].pc = "owner"
  /\ \/ Active(poll[p].owner) /\ Goto(p, "proxy")
     \/ (setting.storeFails \/ ~Active(poll[p].owner)) /\ Answer(p)
  /\ UNCHANGED <<brokerVars, tableVars, storeVars, history>>

\* try_proxy_with_lease: the owner's poll endpoint runs the same poll there.
\* An unreachable owner or a timeout answers "queued".
Proxy(p) ==
  LET o == poll[p].owner IN
  /\ poll[p].pc = "proxy"
  /\ \/ up[o] = "up" /\ poll' = [poll EXCEPT ![p].pc = "local", ![p].at = o, ![p].owner = NoBroker]
     \/ Answer(p)
  /\ UNCHANGED <<brokerVars, tableVars, storeVars, history>>

-----------------------------------------------------------------------------
(* Broker lifetimes *)

\* The heartbeat thread's upsert_broker_lease succeeds, the first or a later
\* one.  One that fails changes nothing: the thread tries once more and then
\* waits for its next tick, so a broker in service may go without a lease.
Heartbeat(b) ==
  /\ up[b] = "up"
  /\ age[b] > 0
  /\ age' = [age EXCEPT ![b] = 0]
  /\ UNCHANGED <<setting, up, drain, tableVars, storeVars, poll, history>>

\* A broker's process ends: its table and its handlers are gone.
Stop(b) ==
  /\ up' = [up EXCEPT ![b] = "down"]
  /\ drain' = [drain EXCEPT ![b] = 0]
  /\ local' = [local EXCEPT ![b] = [j \in Jobs |-> "none"]]
  /\ persisted' = [persisted EXCEPT ![b] = {}]
  /\ poll' = [p \in Pollers |-> IF poll[p].at = b THEN Idle ELSE poll[p]]

\* A crash loses the queued deletes, except for one already on its way.
Crash(b) ==
  /\ b \in setting.mortal
  /\ up[b] = "up"
  /\ Stop(b)
  /\ \E D \in SUBSET deletes[b] :
       /\ Cardinality(D) <= 1
       /\ deletes' = [deletes EXCEPT ![b] = D]
  /\ UNCHANGED <<setting, age, rec, upserts, history>>

\* Graceful shutdown: requests have been drained, renewal stops.
Shutdown(b) ==
  /\ setting.shutdowns
  /\ b \in setting.mortal
  /\ up[b] = "up"
  /\ \A p \in Pollers : poll[p].at # b
  /\ up' = [up EXCEPT ![b] = "draining"]
  /\ UNCHANGED <<setting, age, drain, tableVars, storeVars, poll, history>>

\* drain_and_delete, on the heartbeat thread: wait for in-flight jobs, at most a
\* TTL, then delete the lease.  An error of the delete is only logged.
DeleteLease(b) ==
  /\ up[b] = "draining"
  /\ drain[b] >= TTL \/ \A j \in Jobs : local[b][j] \notin Executing
  /\ up' = [up EXCEPT ![b] = "drained"]
  /\ \/ age' = [age EXCEPT ![b] = Expired]
     \/ setting.storeFails /\ UNCHANGED age
  /\ UNCHANGED <<setting, drain, tableVars, storeVars, poll, history>>

\* Drop for Bits has joined the heartbeat thread and the cleanup worker, whose
\* deletes ran beside the drain.
Exit(b) ==
  /\ up[b] = "drained"
  /\ deletes[b] = {}
  /\ Stop(b)
  /\ UNCHANGED <<setting, age, storeVars, history>>

\* Time passes.  A drain ends at its deadline; timely brokers renew within Lag,
\* others may let their lease lapse, which exposes the jobs they were given.
Tick ==
  /\ \A b \in setting.timely : up[b] = "up" => age[b] < Lag
  /\ \A b \in Brokers : up[b] = "draining" => drain[b] < TTL
  /\ age' = [b \in Brokers |-> IF age[b] < Expired THEN age[b] + 1 ELSE age[b]]
  /\ drain' = [b \in Brokers |-> IF up[b] = "draining" THEN drain[b] + 1 ELSE drain[b]]
  /\ exposed' = exposed \cup {j \in issued : up[Hint[j]] = "up" /\ age'[Hint[j]] = Expired}
  /\ UNCHANGED <<setting, up, tableVars, storeVars, poll, issued, written, consumed>>

-----------------------------------------------------------------------------
PollStep(p) ==
  \/ PollFound(p) \/ PollMissed(p) \/ LookupHint(p) \/ Claim(p)
  \/ Restore(p) \/ LookupOwner(p) \/ Proxy(p)

JobStep(j) ==
  \/ Submit(j) \/ PersistTimer(j) \/ UpsertLands(j) \/ UpsertFails(j)
  \/ \E b \in Brokers : Finish(b, j) \/ Sweep(b, j) \/ DeleteLands(b, j) \/ DeleteFails(b, j)

BrokerStep(b) == Heartbeat(b) \/ Crash(b) \/ Shutdown(b) \/ DeleteLease(b) \/ Exit(b)

Next ==
  \/ \E j \in Jobs : JobStep(j)
  \/ \E p \in Pollers : PollStep(p)
  \/ \E p \in Pollers, b \in Brokers, j \in Jobs : StartPoll(p, b, j)
  \/ \E b \in Brokers : BrokerStep(b)
  \/ Tick

Spec == Init /\ [][Next]_vars

\* No store errors and no graceful shutdowns: the setting progress is claimed for.
Calm == ~setting.storeFails /\ ~setting.shutdowns

\* Fairness: handlers and timers make progress, time passes, and the client of
\* a job keeps polling through whatever brokers the load balancer picks.
Fairness ==
  /\ \A p \in Pollers : WF_vars(Calm /\ PollStep(p))
  /\ \A b \in Brokers, j \in Jobs : SF_vars(Calm /\ \E p \in Pollers : StartPoll(p, b, j))
  /\ \A b \in Brokers : WF_vars(Calm /\ Heartbeat(b))
  /\ \A b \in Brokers, j \in Jobs : WF_vars(Calm /\ Finish(b, j)) /\ WF_vars(Calm /\ DeleteLands(b, j))
  /\ \A j \in Jobs : WF_vars(Calm /\ UpsertLands(j))
  /\ WF_vars(Calm /\ Tick)

FairSpec == Spec /\ Fairness

-----------------------------------------------------------------------------
(* Properties *)

\* Every variable keeps its shape, and a drain is over within a TTL.
TypeOK ==
  /\ up \in [Brokers -> {"up", "draining", "drained", "down"}]
  /\ age \in [Brokers -> 0..Expired]
  /\ drain \in [Brokers -> 0..TTL]
  /\ local \in [Brokers -> [Jobs -> LocalState]]
  /\ persisted \in [Brokers -> SUBSET Jobs]
  /\ rec \in [Jobs -> Brokers \cup {NoBroker}]
  /\ upserts \in SUBSET Jobs
  /\ deletes \in [Brokers -> SUBSET Jobs]
  /\ poll \in [Pollers -> PollFields]
  /\ issued \in SUBSET Jobs /\ written \in SUBSET Jobs
  /\ consumed \in SUBSET Jobs /\ exposed \in SUBSET Jobs

\* No split-brain: two brokers in service never execute the same job at the same
\* time, however crashes, delayed store calls and concurrent claims interleave.
\* The price of a job's broker serving without a lease is one more execution,
\* next to that broker's own: no third broker ever joins.
SingleExecution ==
  \A j \in Jobs, b, c \in Brokers :
    up[b] = "up" /\ up[c] = "up"
      /\ local[b][j] \in Executing /\ local[c][j] \in Executing
      => b = c \/ (j \in exposed /\ Hint[j] \in {b, c})

\* A broker that never missed a renewal and now drains keeps the jobs it is still
\* executing until its drain deadline: before that no broker in service executes
\* them.
DrainKeepsOwnership ==
  \A j \in Jobs \ exposed, b, c \in Brokers :
    up[b] = "draining" /\ drain[b] < TTL /\ up[c] = "up"
      /\ local[b][j] \in Executing => local[c][j] \notin Executing

\* Reclaim is lease-gated: a record changes hands only while the lease of the
\* owner that loses it is missing or expired, however old the claimant's
\* lookup is by the time its claim reaches the store.  Only an owner that was in
\* service without a lease before can lose a record after it has renewed.
LeaseGated ==
  [][\A j \in Jobs :
       rec[j] # NoBroker /\ rec'[j] \notin {NoBroker, rec[j]}
         => ~Active(rec[j]) \/ j \in exposed]_vars

\* A persisted job is never lost: from its first durable record on, the record
\* stays in the store until a result was taken by a poll or swept.
PersistedNotLost == \A j \in written : j \in consumed \/ rec[j] # NoBroker

\* A client is told that its job is lost (or unknown) only when the result was
\* taken before, or no broker in service has the job: not while some other
\* broker executes it, however many claims, proxies and deletes are under way.
\* The exception is a job whose own broker has been in service without a lease,
\* before its first renewal or after missed ones.
LostOnlyWhenGone ==
  [][\A p \in Pollers :
       LET j == poll[p].job IN
       poll[p].pc = "claim" /\ poll'[p].pc = "idle" /\ up'[poll[p].at] = "up"
         /\ rec[j] = NoBroker /\ j \notin consumed \cup exposed
         => \A b \in Brokers : up[b] = "up" => local[b][j] = "none"]_vars

\* Without store errors and shutdowns, a persisted job whose owner's lease has
\* expired is recovered: a live broker takes the record over, or the job is
\* finished and the record deleted.
OrphanRecovered ==
  \A j \in Jobs :
    (Calm /\ rec[j] # NoBroker /\ ~Active(rec[j])) ~> (rec[j] = NoBroker \/ Active(rec[j]))

=============================================================================
