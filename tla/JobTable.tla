------------------------------ MODULE JobTable ------------------------------
(***************************************************************************)
(* The in-memory job table of one broker: Bits::submit, Bits::poll,        *)
(* Bits::poll_submit, the task spawned for every accepted job, the         *)
(* completed-job sweeper thread, the durable-cleanup thread and the        *)
(* broker's own durable records.                                           *)
(*                                                                         *)
(* An id is a request id.  An instance is one Arc<Job>: the table maps an  *)
(* id to at most one instance, but handlers and tasks hold instances that  *)
(* have already left the table, and recovery puts a second instance under  *)
(* an id that was used before.  One step is what happens between two       *)
(* points at which another thread can see or change the shared state.      *)
(*                                                                         *)
(* The ids are ids this broker issued (the owner hint of poll is this      *)
(* broker); several brokers sharing a store are module Recovery's subject. *)
(***************************************************************************)
EXTENDS Naturals, FiniteSets, Sequences

CONSTANTS
  Ids,          \* request ids
  Insts,        \* Arc<Job> values that may be created
  NoInst,       \* "no entry"
  Handlers,     \* concurrent HTTP handlers calling submit / poll
  MaxJobs,      \* SubmitContext::max_jobs
  Persist,      \* a store and persist_after are configured
  Flaky,        \* the ids whose store calls may return an error
  Timeouts,     \* polls carry a timeout (poll(id, Some(t)))
  RemotePool,   \* jobs go to a remote worker pool (the only caller of mark_processing)
  CallerIds     \* callers of Bits::submit choose ids (HTTP submissions never do)

ASSUME TableAssumption ==
  /\ IsFiniteSet(Ids) /\ Ids # {}
  /\ IsFiniteSet(Handlers)
  /\ NoInst \notin Insts
  /\ MaxJobs \in Nat
  /\ Persist \in BOOLEAN
  /\ Flaky \subseteq Ids
  /\ Timeouts \in BOOLEAN
  /\ RemotePool \in BOOLEAN
  /\ CallerIds \in BOOLEAN

VARIABLES
  jobs,       \* SubmitContext::jobs
  job_count,  \* SubmitContext::job_count
  job,        \* the fields of every Arc<Job>
  runner,     \* progress of the task spawned for an instance
  handler,    \* progress and locals of a handler
  sweeper,    \* progress and locals of the sweeper thread
  store,      \* ids with a durable record (owned by this broker)
  cleanup,    \* ids sent to the cleanup worker, not yet deleted
  delivered   \* history: how often an instance's result was handed to a poll

vars == <<jobs, job_count, job, runner, handler, sweeper, store, cleanup, delivered>>

-----------------------------------------------------------------------------
(* Shapes of the state *)

\* enforced is a history field: the instance passed the max_jobs gate.
\* grace: now < reconnect_deadline.  status "claimed": mark_processing has
\* stored Processing and has not yet notified.
JobFields ==
  [id: Ids, enforced: BOOLEAN, result: {"none", "ok", "fail"}, persisted: BOOLEAN,
   status: {"queued", "claimed", "processing"}, pollers: Nat, grace: BOOLEAN]

RunnerPc == {"unborn", "run", "upsert", "late", "notify", "done"}
Running == {"run", "upsert", "late"}

HandlerPc == {"idle", "insert", "lookup", "connect", "take", "wait", "retake",
              "remove", "decrement", "cleanup", "disconnect", "claim", "bypass"}

\* mode: which call the handler is in ("repoll" is the poll_local after a claim).
HandlerFields ==
  [pc: HandlerPc, mode: {"submit", "poll", "repoll"}, id: Ids,
   inst: Insts \cup {NoInst}, wake: {"unarmed", "armed", "woken"}]

SweeperFields ==
  [pc: {"sleep", "remove", "decrement", "delete"}, expired: SUBSET Ids,
   inst: Insts \cup {NoInst}]

client_present(i) == job[i].pollers > 0 \/ job[i].grace

\* Fills the id field of instances and handlers that are not in use yet.
AnyId == CHOOSE id \in Ids : TRUE

Idle == [pc |-> "idle", mode |-> "poll", id |-> AnyId, inst |-> NoInst, wake |-> "unarmed"]

Goto(h, pc) == handler' = [handler EXCEPT ![h].pc = pc]
Return(h) == handler' = [handler EXCEPT ![h] = Idle]

\* Bound on the model: a request starts only while there is an instance left
\* for every handler that may still create one.
MayCreate(h) ==
  \/ handler[h].pc \in {"insert", "bypass", "claim"}
  \/ (handler[h].pc = "lookup" /\ handler[h].mode = "poll")
SpareInst ==
  Cardinality({i \in Insts : runner[i] = "unborn"}) > Cardinality({h \in Handlers : MayCreate(h)})

\* Notify::notify_waiters: wakes the waits armed on instance i.
Woken(i) == [h \in Handlers |->
  IF handler[h].inst = i /\ handler[h].wake = "armed"
  THEN [handler[h] EXCEPT !.wake = "woken"] ELSE handler[h]]

Init ==
  /\ jobs = [id \in Ids |-> NoInst]
  /\ job_count = 0
  /\ job = [i \in Insts |-> [id |-> AnyId, enforced |-> FALSE, result |-> "none",
                persisted |-> FALSE, status |-> "queued", pollers |-> 0, grace |-> FALSE]]
  /\ runner = [i \in Insts |-> "unborn"]
  /\ handler = [h \in Handlers |-> Idle]
  /\ sweeper = [pc |-> "sleep", expired |-> {}, inst |-> NoInst]
  /\ store = {}
  /\ cleanup = <<>>
  /\ delivered = [i \in Insts |-> 0]

-----------------------------------------------------------------------------
(* SubmitContext::submit *)

\* new_job_id: an id not issued before.  A caller's own valid id is kept.
Fresh(id) ==
  /\ \A i \in Insts : runner[i] # "unborn" => job[i].id # id
  /\ \A h \in Handlers : handler[h].pc # "idle" => handler[h].id # id

\* Fault: the gate compares with <= and lets one job too many in.
SubmitOffByOne(h, id) ==
  /\ handler[h].pc = "idle"
  /\ CallerIds \/ Fresh(id)
  /\ SpareInst
  /\ job_count <= MaxJobs
  /\ job_count' = job_count + 1
  /\ handler' = [handler EXCEPT ![h].pc = "insert", ![h].mode = "submit", ![h].id = id]
  /\ UNCHANGED <<jobs, job, runner, sweeper, store, cleanup, delivered>>

\* EnforceLimit: the compare-exchange loop reserves one unit of job_count; at
\* max_jobs the call returns Overloaded and nothing changes.
Submit(h, id) ==
  /\ handler[h].pc = "idle"
  /\ CallerIds \/ Fresh(id)
  /\ SpareInst
  /\ job_count < MaxJobs
  /\ job_count' = job_count + 1
  /\ handler' = [handler EXCEPT ![h].pc = "insert", ![h].mode = "submit", ![h].id = id]
  /\ UNCHANGED <<jobs, job, runner, sweeper, store, cleanup, delivered>>

\* BypassLimitAlreadyPersisted: a recovered job is counted without a check.
BypassLimit(h) ==
  /\ handler[h].pc = "bypass"
  /\ job_count' = job_count + 1
  /\ Goto(h, "insert")
  /\ UNCHANGED <<jobs, job, runner, sweeper, store, cleanup, delivered>>

\* Vacant entry: the job becomes visible with a fresh reconnect deadline and
\* its task is spawned, which marks a recovered job as already persisted.
\* The caller goes on to poll_submit (a submission) or poll_local (a recovery).
Accept(h, i) ==
  LET id == handler[h].id IN
  /\ handler[h].pc = "insert"
  /\ jobs[id] = NoInst
  /\ runner[i] = "unborn"
  /\ jobs' = [jobs EXCEPT ![id] = i]
  /\ job' = [job EXCEPT ![i] =
       [id |-> id, enforced |-> handler[h].mode = "submit", result |-> "none",
        persisted |-> handler[h].mode = "repoll", status |-> "queued",
        pollers |-> 0, grace |-> TRUE]]
  /\ runner' = [runner EXCEPT ![i] = "run"]
  /\ Goto(h, "lookup")
  /\ UNCHANGED <<job_count, sweeper, store, cleanup, delivered>>

\* Occupied entry: the reservation is given back and the call is Overloaded;
\* a recovery treats that as "already present" and polls anyway.
RejectDuplicate(h) ==
  /\ handler[h].pc = "insert"
  /\ jobs[handler[h].id] # NoInst
  /\ job_count' = job_count - 1
  /\ IF handler[h].mode = "submit" THEN Return(h) ELSE Goto(h, "lookup")
  /\ UNCHANGED <<jobs, job, runner, sweeper, store, cleanup, delivered>>

-----------------------------------------------------------------------------
(* Bits::poll, poll_local and poll_submit *)

StartPoll(h, id) ==
  /\ handler[h].pc = "idle"
  /\ Persist => SpareInst
  /\ handler' = [handler EXCEPT ![h].pc = "lookup", ![h].mode = "poll", ![h].id = id]
  /\ UNCHANGED <<jobs, job_count, job, runner, sweeper, store, cleanup, delivered>>

\* jobs.get(id) clones the Arc.  On a miss a first poll_local falls through to
\* the claim (NotFound without a store); the others return.
Lookup(h) ==
  LET i == jobs[handler[h].id] IN
  /\ handler[h].pc = "lookup"
  /\ \/ /\ i # NoInst
        /\ handler' = [handler EXCEPT ![h].pc = "connect", ![h].inst = i]
     \/ /\ i = NoInst
        /\ IF handler[h].mode = "poll" /\ Persist THEN Goto(h, "claim") ELSE Return(h)
  /\ UNCHANGED <<jobs, job_count, job, runner, sweeper, store, cleanup, delivered>>

\* Fault: the wait is not armed before the result slot is inspected.
ConnectUnarmed(h) ==
  /\ handler[h].pc = "connect"
  /\ job' = [job EXCEPT ![handler[h].inst].pollers = @ + 1]
  /\ Goto(h, "take")
  /\ UNCHANGED <<jobs, job_count, runner, sweeper, store, cleanup, delivered>>

\* ConnectedGuard::new, then the wait is armed before any state is inspected.
Connect(h) ==
  /\ handler[h].pc = "connect"
  /\ job' = [job EXCEPT ![handler[h].inst].pollers = @ + 1]
  /\ handler' = [handler EXCEPT ![h].pc = "take", ![h].wake = "armed"]
  /\ UNCHANGED <<jobs, job_count, runner, sweeper, store, cleanup, delivered>>

\* What the two calls do with the result slot: poll_local takes any result,
\* poll_submit takes a failure and leaves a deliverable result in place.
Takes(h) ==
  LET i == handler[h].inst IN
  \/ job[i].result = "fail"
  \/ (job[i].result = "ok" /\ handler[h].mode # "submit")

\* poll_submit stops waiting: a deliverable result, or a worker has the job.
Leaves(i) == job[i].result = "ok" \/ job[i].status # "queued"

\* Fault: the result is read and left in the slot.
InspectPeeks(h) ==
  LET i == handler[h].inst IN
  /\ handler[h].pc \in {"take", "retake"}
  /\ IF Takes(h)
     THEN /\ delivered' = [delivered EXCEPT ![i] = @ + 1]
          /\ Goto(h, "remove")
     ELSE /\ Goto(h, IF \/ handler[h].pc = "retake"
                        \/ (handler[h].mode = "submit" /\ Leaves(i))
                     THEN "disconnect" ELSE "wait")
          /\ UNCHANGED delivered
  /\ UNCHANGED <<jobs, job_count, job, runner, sweeper, store, cleanup>>

\* The inspection under the result lock.  Without a result to take, poll_submit
\* returns on a deliverable result or Processing, poll_local returns if this is
\* the inspection after the wake-up; otherwise the handler waits.
Inspect(h) ==
  LET i == handler[h].inst IN
  /\ handler[h].pc \in {"take", "retake"}
  /\ IF Takes(h)
     THEN /\ job' = [job EXCEPT ![i].result = "none"]
          /\ delivered' = [delivered EXCEPT ![i] = @ + 1]
          /\ Goto(h, "remove")
     ELSE /\ Goto(h, IF \/ handler[h].pc = "retake"
                        \/ (handler[h].mode = "submit" /\ Leaves(i))
                     THEN "disconnect" ELSE "wait")
          /\ UNCHANGED <<job, delivered>>
  /\ UNCHANGED <<jobs, job_count, runner, sweeper, store, cleanup>>

\* The wait completes.  poll_submit re-arms and inspects again in its loop;
\* poll_local inspects once more and returns.
Wake(h) ==
  /\ handler[h].pc = "wait"
  /\ handler[h].wake = "woken"
  /\ handler' = IF handler[h].mode = "submit"
                THEN [handler EXCEPT ![h].pc = "take", ![h].wake = "armed"]
                ELSE [handler EXCEPT ![h].pc = "retake"]
  /\ UNCHANGED <<jobs, job_count, job, runner, sweeper, store, cleanup, delivered>>

\* Fault: poll_submit waits without its deadline.
TimeOutPollOnly(h) ==
  /\ handler[h].pc = "wait"
  /\ Timeouts /\ handler[h].mode # "submit"
  /\ Goto(h, "disconnect")
  /\ UNCHANGED <<jobs, job_count, job, runner, sweeper, store, cleanup, delivered>>

\* The poll times out, or its connection goes away and the future is dropped.
\* poll_submit always has a deadline; poll_local only when given one.
TimeOut(h) ==
  /\ handler[h].pc = "wait"
  /\ Timeouts \/ handler[h].mode = "submit"
  /\ Goto(h, "disconnect")
  /\ UNCHANGED <<jobs, job_count, job, runner, sweeper, store, cleanup, delivered>>

\* Fault: the counter is decremented even if the id was not in the table.
RemoveJobUnchecked(h) ==
  /\ handler[h].pc = "remove"
  /\ jobs' = [jobs EXCEPT ![handler[h].id] = NoInst]
  /\ Goto(h, "decrement")
  /\ UNCHANGED <<job_count, job, runner, sweeper, store, cleanup, delivered>>

\* remove_job: whatever instance the id maps to leaves the table ...
RemoveJob(h) ==
  /\ handler[h].pc = "remove"
  /\ jobs' = [jobs EXCEPT ![handler[h].id] = NoInst]
  /\ Goto(h, IF jobs[handler[h].id] # NoInst THEN "decrement" ELSE "cleanup")
  /\ UNCHANGED <<job_count, job, runner, sweeper, store, cleanup, delivered>>

\* ... and, if there was one, the counter is decremented (checked_sub).
Decrement(h) ==
  /\ handler[h].pc = "decrement"
  /\ job_count' = IF job_count = 0 THEN 0 ELSE job_count - 1
  /\ Goto(h, "cleanup")
  /\ UNCHANGED <<jobs, job, runner, sweeper, store, cleanup, delivered>>

\* schedule_durable_cleanup
ScheduleCleanup(h) ==
  /\ handler[h].pc = "cleanup"
  /\ cleanup' = IF job[handler[h].inst].persisted THEN Append(cleanup, handler[h].id) ELSE cleanup
  /\ Goto(h, "disconnect")
  /\ UNCHANGED <<jobs, job_count, job, runner, sweeper, store, delivered>>

\* Fault: the dropped guard keeps its client counted as present.
DisconnectLeaks(h) ==
  /\ handler[h].pc = "disconnect"
  /\ job' = [job EXCEPT ![handler[h].inst].grace = TRUE]
  /\ Return(h)
  /\ UNCHANGED <<jobs, job_count, runner, sweeper, store, cleanup, delivered>>

\* Drop for ConnectedGuard: the deadline moves before the poller count falls.
Disconnect(h) ==
  /\ handler[h].pc = "disconnect"
  /\ job' = [job EXCEPT ![handler[h].inst].grace = TRUE, ![handler[h].inst].pollers = @ - 1]
  /\ Return(h)
  /\ UNCHANGED <<jobs, job_count, runner, sweeper, store, cleanup, delivered>>

\* claim_with_backoff for an id this broker issued: its own record is Claimed,
\* no record is NotFound; an error answers "queued".
Claim(h) ==
  /\ handler[h].pc = "claim"
  /\ \/ /\ handler[h].id \in store
        /\ handler' = [handler EXCEPT ![h].pc = "bypass", ![h].mode = "repoll"]
     \/ /\ handler[h].id \notin store \ Flaky
        /\ Return(h)
  /\ UNCHANGED <<jobs, job_count, job, runner, sweeper, store, cleanup, delivered>>

-----------------------------------------------------------------------------
(* The task of an accepted job (runtime/runner.rs) *)

\* A remote worker claims the job: Job::mark_processing, swap then notify.
MarkProcessing(i) ==
  /\ RemotePool
  /\ runner[i] \in Running
  /\ job[i].status = "queued"
  /\ job' = [job EXCEPT ![i].status = "claimed"]
  /\ UNCHANGED <<jobs, job_count, runner, handler, sweeper, store, cleanup, delivered>>

NotifyProcessing(i) ==
  /\ job[i].status = "claimed"
  /\ job' = [job EXCEPT ![i].status = "processing"]
  /\ handler' = Woken(i)
  /\ UNCHANGED <<jobs, job_count, runner, sweeper, store, cleanup, delivered>>

\* persist_after elapses before the dispatch finished.
PersistTimer(i) ==
  /\ Persist
  /\ runner[i] = "run"
  /\ runner' = [runner EXCEPT ![i] = IF job[i].persisted \/ job[i].result # "none"
                                     THEN "late" ELSE "upsert"]
  /\ UNCHANGED <<jobs, job_count, job, handler, sweeper, store, cleanup, delivered>>

\* Fault: a successful write does not set the persisted flag.
UpsertUnflagged(i) ==
  /\ runner[i] = "upsert"
  /\ store' \in {store \cup {job[i].id}} \cup (IF job[i].id \in Flaky THEN {store} ELSE {})
  /\ runner' = [runner EXCEPT ![i] = "late"]
  /\ UNCHANGED <<jobs, job_count, job, handler, sweeper, cleanup, delivered>>

\* upsert_job; an error is logged, whether or not the write took effect.
Upsert(i) ==
  /\ runner[i] = "upsert"
  /\ \/ /\ store' = store \cup {job[i].id}
        /\ job' = [job EXCEPT ![i].persisted = TRUE]
     \/ /\ job[i].id \in Flaky
        /\ store' \in {store, store \cup {job[i].id}}
        /\ UNCHANGED job
  /\ runner' = [runner EXCEPT ![i] = "late"]
  /\ UNCHANGED <<jobs, job_count, handler, sweeper, cleanup, delivered>>

\* The dispatch finished: the result slot is set, then pollers are notified.
Publish(i, r) ==
  /\ runner[i] \in {"run", "late"}
  /\ job' = [job EXCEPT ![i].result = r]
  /\ runner' = [runner EXCEPT ![i] = "notify"]
  /\ UNCHANGED <<jobs, job_count, handler, sweeper, store, cleanup, delivered>>

NotifyResult(i) ==
  /\ runner[i] = "notify"
  /\ handler' = Woken(i)
  /\ runner' = [runner EXCEPT ![i] = "done"]
  /\ UNCHANGED <<jobs, job_count, job, sweeper, store, cleanup, delivered>>

-----------------------------------------------------------------------------
(* Time, the sweeper thread and the cleanup worker *)

\* The deadline of an instance is read through the table only.
GraceExpires(i) ==
  /\ job[i].grace
  /\ jobs[job[i].id] = i
  /\ job' = [job EXCEPT ![i].grace = FALSE]
  /\ UNCHANGED <<jobs, job_count, runner, handler, sweeper, store, cleanup, delivered>>

\* Fault: a job is swept whether or not it has finished.
SweepableUnfinished(id) ==
  LET i == jobs[id] IN i # NoInst /\ ~client_present(i)

Sweepable(id) ==
  LET i == jobs[id] IN i # NoInst /\ job[i].result # "none" /\ ~client_present(i)

SweepScan ==
  /\ sweeper.pc = "sleep"
  /\ \E id \in Ids : Sweepable(id)
  /\ sweeper' = [sweeper EXCEPT !.pc = "remove", !.expired = {id \in Ids : Sweepable(id)}]
  /\ UNCHANGED <<jobs, job_count, job, runner, handler, store, cleanup, delivered>>

\* Where the sweeper goes when it is done with id.
AfterId(id) ==
  [pc |-> IF sweeper.expired \ {id} = {} THEN "sleep" ELSE "remove",
   expired |-> sweeper.expired \ {id}, inst |-> NoInst]

\* remove_if re-checks under the shard lock, because a client may be back.
SweepRemove(id) ==
  /\ sweeper.pc = "remove"
  /\ id \in sweeper.expired
  /\ IF Sweepable(id)
     THEN /\ jobs' = [jobs EXCEPT ![id] = NoInst]
          /\ sweeper' = [sweeper EXCEPT !.pc = "decrement", !.inst = jobs[id]]
     ELSE /\ sweeper' = AfterId(id)
          /\ UNCHANGED jobs
  /\ UNCHANGED <<job_count, job, runner, handler, store, cleanup, delivered>>

SweepDecrement ==
  LET i == sweeper.inst IN
  /\ sweeper.pc = "decrement"
  /\ job_count' = IF job_count = 0 THEN 0 ELSE job_count - 1
  /\ sweeper' = IF job[i].persisted THEN [sweeper EXCEPT !.pc = "delete"] ELSE AfterId(job[i].id)
  /\ UNCHANGED <<jobs, job, runner, handler, store, cleanup, delivered>>

\* delete_job; callers only log a failure.
DeleteRecord(id) ==
  \/ store' = store \ {id}
  \/ id \in Flaky /\ UNCHANGED store

SweepDelete ==
  LET id == job[sweeper.inst].id IN
  /\ sweeper.pc = "delete"
  /\ DeleteRecord(id)
  /\ sweeper' = AfterId(id)
  /\ UNCHANGED <<jobs, job_count, job, runner, handler, cleanup, delivered>>

\* start_cleanup_worker: one delete_job per id received.
CleanupDelete ==
  /\ cleanup # <<>>
  /\ DeleteRecord(Head(cleanup))
  /\ cleanup' = Tail(cleanup)
  /\ UNCHANGED <<jobs, job_count, job, runner, handler, sweeper, delivered>>

-----------------------------------------------------------------------------
HandlerStep(h) ==
  \/ \E i \in Insts : Accept(h, i)
  \/ RejectDuplicate(h) \/ BypassLimit(h)
  \/ Lookup(h) \/ Connect(h) \/ Inspect(h) \/ Wake(h) \/ TimeOut(h)
  \/ RemoveJob(h) \/ Decrement(h) \/ ScheduleCleanup(h) \/ Disconnect(h)
  \/ Claim(h)

Request(h, id) == Submit(h, id) \/ StartPoll(h, id)

RunnerStep(i) ==
  \/ PersistTimer(i) \/ Upsert(i) \/ NotifyResult(i) \/ NotifyProcessing(i)
  \/ \E r \in {"ok", "fail"} : Publish(i, r)

SweeperStep ==
  \/ SweepScan \/ SweepDecrement \/ SweepDelete
  \/ \E id \in Ids : SweepRemove(id)

Next ==
  \/ \E h \in Handlers : HandlerStep(h)
  \/ \E h \in Handlers, id \in Ids : Request(h, id)
  \/ \E i \in Insts : RunnerStep(i) \/ MarkProcessing(i) \/ GraceExpires(i)
  \/ SweeperStep
  \/ CleanupDelete

Spec == Init /\ [][Next]_vars

\* Fairness: Tokio runs every handler and every job task that can go on, timers
\* fire, dispatched work finishes, and the two maintenance threads are scheduled.
Fairness ==
  /\ \A h \in Handlers : WF_vars(HandlerStep(h))
  /\ \A i \in Insts : WF_vars(RunnerStep(i)) /\ WF_vars(GraceExpires(i))
  /\ WF_vars(SweeperStep)
  /\ WF_vars(CleanupDelete)

FairSpec == Spec /\ Fairness

-----------------------------------------------------------------------------
(* Properties *)

\* Every variable keeps its shape; in particular active_pollers (an
\* AtomicUsize) never falls below zero.
TypeOK ==
  /\ jobs \in [Ids -> Insts \cup {NoInst}]
  /\ job_count \in Nat
  /\ job \in [Insts -> JobFields]
  /\ runner \in [Insts -> RunnerPc]
  /\ handler \in [Handlers -> HandlerFields]
  /\ sweeper \in SweeperFields
  /\ store \in SUBSET Ids
  /\ cleanup \in Seq(Ids)
  /\ delivered \in [Insts -> Nat]

InTable == {id \in Ids : jobs[id] # NoInst}
At(pc) == {h \in Handlers : handler[h].pc = pc}
SweeperOwes == IF sweeper.pc = "decrement" THEN 1 ELSE 0

\* job_count is never off: it is the number of table entries, plus the
\* reservations made by submit before its insert, plus the decrements that
\* remove_job and the sweeper still owe after their removal.
CountExact ==
  job_count = Cardinality(InTable) + Cardinality(At("insert"))
                + Cardinality(At("decrement")) + SweeperOwes

EnforcedInTable == {id \in InTable : job[jobs[id]].enforced}
EnforcedReserved == {h \in At("insert") : handler[h].mode = "submit"}

\* However submissions, recoveries and removals interleave, at most max_jobs
\* jobs that went through the max_jobs gate of submit are held at any time.
EnforcedWithinMax ==
  Cardinality(EnforcedInTable) + Cardinality(EnforcedReserved) <= MaxJobs

\* A result is neither lost nor duplicated: once the task of an instance has
\* published it, it is in the result slot or was handed to exactly one poll.
ResultConserved ==
  \A i \in Insts :
    runner[i] \in {"notify", "done"}
      => delivered[i] = IF job[i].result = "none" THEN 1 ELSE 0

\* No lost wake-up: a handler that waits although the result slot is filled has
\* been woken, or the task is about to notify.
NoLostWakeup ==
  \A h \in Handlers :
    handler[h].pc = "wait" /\ job[handler[h].inst].result # "none"
      => handler[h].wake = "woken" \/ runner[handler[h].inst] = "notify"

\* A submitted job whose task is still running is the table's entry for its id,
\* so a client that polls the id finds it: neither the sweeper, nor a poll of an
\* earlier or a later instance, nor a recovery takes its place.
RunningStaysInTable ==
  \A i \in Insts : runner[i] \in Running /\ job[i].enforced => jobs[job[i].id] = i

\* A durable record never outlives its job unnoticed: unless the store failed on
\* it, the id is in the table, or some thread is on its way to deleting it.
RecordAccounted ==
  \A id \in store \ Flaky :
    \/ jobs[id] # NoInst
    \/ \E n \in 1..Len(cleanup) : cleanup[n] = id
    \/ \E h \in Handlers : handler[h].id = id /\ handler[h].pc \in {"remove", "decrement", "cleanup"}
    \/ (sweeper.pc \in {"decrement", "delete"} /\ job[sweeper.inst].id = id)

\* Jobs are single-consumer: one result per request id is handed out.
SingleConsumer ==
  \A i, k \in Insts :
    i # k /\ job[i].id = job[k].id => delivered[i] = 0 \/ delivered[k] = 0

\* A published result does not stay in the table for ever: a poll takes it, or
\* the sweeper removes it once the client is gone.
ResultLeavesTable ==
  \A i \in Insts, id \in Ids :
    (jobs[id] = i /\ job[i].result # "none") ~> (jobs[id] # i)

\* Every submit or poll call returns.
CallReturns == \A h \in Handlers : (handler[h].pc # "idle") ~> (handler[h].pc = "idle")

=============================================================================
