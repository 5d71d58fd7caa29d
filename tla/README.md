# A TLA+ model of the BITS broker

BITS is a job broker written in Rust on Tokio. Clients submit a request over
HTTP, get an id, and long-poll the id until a result is handed out. A job runs
through checks, transforms and a target, is scheduled by dispatchers (a queue
plus an executor, local or a pool of remote workers), may be capped per user,
and, when it takes long, is written to a durable store from which another
broker can recover it if its owner dies.

This directory holds the specifications of the broker, the TLC configurations
that check them on small instances, and proofs, checked by TLAPS, of the safety
properties for every value of the constants. Paths below are relative to
`bits/src/`. `PROJECT.json` lists components, runs, hazards and theorems, and
maps every definition to the lines it models.

## The system and what is modelled

| Part | Source | Module |
| --- | --- | --- |
| Job table, submit, poll, job task | `bits.rs`, `runtime/submission.rs`, `runtime/runner.rs`, `job.rs` | `JobTable` |
| Sweeper and durable-cleanup threads | `runtime/maintenance.rs`, `bits.rs` | `JobTable` (jobs), `UserLimit` (slot reclaim) |
| Leases, proxying, claim and recovery, drain | `runtime/recovery.rs`, `bits.rs` | `Recovery` |
| Memory, NATS and TiKV stores | `db/` | `Store`; what they promise: `StoreContract` |
| Request ids and broker slots | `request_id.rs`, `runtime/recovery.rs` | `RequestId`, `Store` |
| Per-user admission limit | `dispatcher/mod.rs` | `UserLimit`; which ceiling applies: `Routing` |
| Dispatcher | `dispatcher/mod.rs` | `Dispatcher`; what it promises: `DispatchContract` |
| Queues | `dispatcher/queue/` | hand-over and close in `Dispatcher` |
| Async and thread pools | `dispatcher/executor/async_pool.rs`, `thread_pool.rs` | `LocalPool` |
| Remote worker pool | `dispatcher/executor/remote_pool.rs`, `worker_server.rs` | `RemotePool`; registration and listener: `Startup` |
| A dispatcher with its executor and queue | `dispatcher/` | `Executors` |
| Configuration and start of a broker, `add_route` | `config.rs`, `bits.rs`, `worker_server.rs` | `Configuration`, `RouteSteps`, `RouteTree`, `Startup` |
| Routing of a job | `routing/`, `actions/` | `Routing` |
| Results, errors and their conversions | `result.rs`, `error.rs`, `server.rs`, `actions/`, `bits-py/` | `Outcomes` |
| A broker from its configuration to the client's answer | all of the above | `Pipeline` |

The modules cut the system along the places where its parts meet. `JobTable`
takes one broker apart and sees of the store only its own records. `Recovery`
keeps of each broker's table just where the execution of a job stands and takes
the traffic between brokers and the store apart. `UserLimit` is about one
dispatcher that runs on several brokers and its entries in the store. These
three use atomic store operations; `Store` shows that each backend provides them,
request by request. `Executors` opens what `JobTable` sees as one dispatched
piece of work and what `UserLimit` sees as a held admission. `Pipeline` composes
`Startup` and `Routing` and follows one job from the configuration of its broker
to what its client is told; there polls are atomic.

Definitions that begin with "Fault:" or describe a wrong variant in their comment
are mutated forms of the definition that follows them. No specification uses
them: they exist so that each checked property can be shown to fail when the code
is wrong in that way.

### JobTable

State: `jobs` and `job_count` are the fields of `SubmitContext`; `job` holds the
fields of every `Arc<Job>` (an *instance*), also of those that have left the
table while a handler or a task still holds them; `runner`, `handler` and
`sweeper` are program counters with locals; `store` and `cleanup` are the
durable records and the cleanup worker's channel. `delivered` and the field
`enforced` are history.

A step is what happens between two points at which another thread can
interfere: an access to the sharded map, an atomic, the result mutex, a
`Notify`, a store call. A handler walks through

    insert -> lookup -> connect -> take -> wait -> (retake)
           -> remove -> decrement -> cleanup -> disconnect

with early returns where the code has them, and through `claim` and `bypass`
when a poll misses the table and recovers the job from the broker's own record.
`wake` is the state of the `Notified` future: `Connect` arms it before `Inspect`
looks at the slot, and `Woken` is `notify_waiters`. Results are abstracted to
`ok` and `fail`, which is the distinction `poll_submit` makes (it leaves a
deliverable result in place for the following poll). Cancellation, panics and a
vanished client are ways for the dispatched work to end and appear as `Publish`
of `fail`.

Three pairs of adjacent operations are one step: the result check and the status
load of `poll_submit`, the deadline store and the decrement in the drop of
`ConnectedGuard`, and the increment of `ConnectedGuard::new` with the arming of
the wait.

### Recovery

State: per broker, whether it is up, draining, drained or down, the age of its
lease, its table and its `persisted` flags; the owner of each durable record; the
`upsert_job` and `delete_job` calls on their way to the store, which may land
after their sender has died; the progress of each poll. `StartPoll` to `Proxy`
are the branches of `Bits::poll`: local miss, lease lookup of the broker encoded
in the id, `claim_if_owner`, restore and resubmit, and the lookup of the record's
owner and the proxy. A shutdown is `Shutdown` (renewal stops), `DeleteLease` (the
heartbeat thread has waited for the jobs in flight, at most a TTL, and deletes the
lease) and `Exit` (the cleanup worker has been joined, too).

Time passes in `Tick`; a lease is described by its age, capped at `TTL + Grace`,
which is also the age of a lease that is missing. A broker accepts requests as
soon as it is built, and its heartbeat thread writes the first lease some time
later, so `Init` has no leases. A renewal that fails is tried once more and then
waits for the next tick, so a lease may lapse under a broker that is in service;
only the brokers in `timely` renew within `Lag`. A renewal takes effect at once or
not at all. `exposed` is history: the jobs whose own broker (the one in the id)
has been in service without a lease since it accepted them. What the lease gate
promises is stated for the others. A broker that went down does not come back: a
restarted process allocates a new slot. `setting` is chosen in `Init`, so that one
run covers several fleets.

### Store, StoreContract, RequestId

`Store` has the three backends, one key at a time: the slot counter of a site and
env, a durable job record, or a job's entry in the shared per-user count. A
memory operation is one step under the mutex (its reclaim two, because the leases
are read first). A NATS or TiKV operation is a sequence of requests, between which
requests of other brokers come: `Connect` and `get_or_create_bucket`, `Read`,
`Write` with the revision that was read, the bounded retries after a lost
compare-and-swap (`ClaimRetry`, `AllocRetry`), `LookAgain`, `Reread`, the probe
and watch of a scan, `Purge`. A request may fail (`Fail`); a write whose answer is
lost stays in `late` and is applied once, at any later time (`Land`), or never.
Tombstones expire. `Applies` and `Written` say what the servers accept and keep;
they are external, modelled from how the code uses them.

`StoreContract` says what the runtime relies on: a claim or an allocation takes
effect at one instant between its start and its answer, and a request whose answer
was lost takes effect at most once, at any later time. The mapping in `Store` reads
the owner or the counter off the entry, the calls under way (`Pending`) off their
program counters and the requests of unknown fate off `late`.

`RequestId` is the codec bit for bit: tags in base 37, sixteen bytes, 26 base32
digits, the canonical check. `Store` uses it for the ids that brokers mint from the
slots they were given.

### UserLimit

State: per broker the limiter's local count, its cached count and its spawned
release calls; the store's entries and sequence; per job where its admission
stands; per broker whether its reclaim has collected the live owners. `admit`
is split at its store calls: `StrictReserve`/`StrictDecide` (FIFO rank) for
ceilings up to `STRICT_MAX_THRESHOLD`, `LocalGate`/`LazyReserve`/`LazyDecide`
otherwise. Every failing store call admits the job, as in the code. `DropGuard`
spawns the release, or skips it where the guard is dropped outside a runtime (for
the jobs in `flaky`). `PickUp` is
the remote pool's `handle_get_work`, which drops the work future and the guard
inside it. One (scope, user) pair is modelled, since pairs share nothing.

### Dispatcher, LocalPool, RemotePool, Executors

`Dispatcher` has the fields of the Rust struct (`pending`, `permits` for the
semaphore, `closing`), the buffer of the queue, the `queue_depth` metric, the
program counter of every `dispatch` call and of `close`, and the client state a
queued call watches. A call goes through

    new -> permit -> insert -> enqueue -> arm -> check -> park -> wait | timed
                                           ^------------------------|
                                  check -> withdraw -> (last)

where `arm` creates the `Notified` future, `check` computes `queued_error`,
`withdraw` is the critical section that re-checks and removes, `park` picks one
of the two `select!`s and `last` awaits only the reply. The client's flag and
the `notify_waiters` after it are two steps. `close` is five steps. A permit has
no variable of its own: it belongs to a call before the insertion and to the
pending entry after it.

Every executor starts an iteration in the same way (`Fetch`): dequeue, resolve
the pending entry, drop the permit, test the guard. The FIFO hands a job over in
one step; the weighted queues do it in three (`Ask`, `Serve`, `Take`), because
the send into the oneshot channel and its receipt are on different threads. The
order in which jobs come out is left open. `LocalPool` continues with work that
ends, panics or never ends. `RemotePool` continues with the in-progress entry,
heartbeats, completions, the reaper and the outcome task; the remote worker
itself is external and may die, fall silent, complete late or complete twice.
The critical section that inserts the entry and the `mark_processing` after it
are one step, and so is the reaper's drain.

A member of `Jobs` is one call of `dispatch`. `config` is chosen in `Init`, so
one run covers several pairs of executor and queue. `Contract` in `Executors`
maps calls to the phases of `DispatchContract`.

### Configuration, RouteSteps, RouteTree, Startup

`config` is a configuration together with the environment it meets: whether the
store connects at first, whether the port of the worker server is free, who
submits. `RouteSteps` is one step of the parser of routes: references and inline
actions, targets shared through a cache by name, dispatcher blocks and their user
limits, and the validation of a list of routes. `RouteTree` walks the tree with it:
`parse_routes`, `close_all` and the set of all actions. `Startup` is
`parse_bootstrap` section by section with the order of its errors, the bounded
retries of the store's initialisation, the slot, and `add_route` from several
threads: each copies the cache, parses without the lock, merges afterwards,
registers its pools and starts the worker server, with a flag that is set before
the listener is bound.

The walks of `RouteTree` are recursive operators, which the prover does not accept,
so they are constants of `Startup` (`ParseRoutes`, `CloseAll`, `ActionsOf`).
`Pipeline.cfg` assigns the operators of `RouteTree` to them. `Sound` at the end of
`Startup`, `Routable` and `Limited` at the end of `Routing`, say what the proofs ask
of the parser; `ParserAssumption` in `MCPipeline` has TLC evaluate all three for
every configuration of the run, from an empty cache and from the caches that
earlier calls leave.

### Routing, Outcomes, Pipeline

`Routing` runs one job through a router. Each switch being tried is a frame with
the route and action it is at, the transforms the job had on entry and has now,
and the rejections to report; nested switches stack frames. `Gate` reads the
cancellation flag before an action, `Turned` is a dispatcher that refuses or a
target that is not called, `Perform` acts on the answer. `resolve` picks the
ceiling of a user. `Outcomes` has the conversions an answer goes through: what
Python, HTTP and remote actions return, `JobResult`, the outcome of a poll, the
HTTP response, what a relaying broker makes of that response, the dictionary of a
Python caller. `Pipeline` lets a client poll over HTTP, through another broker, or
from Python, until it is told an end.

`RoutingSpec` is `Routing` on its own, with a client that may leave, poll and take
the result at any moment. The actions of `Pipeline` that touch the routing
variables are actions of `RoutingSpec` with further guards, so `Pipeline`
implements `Routing` (`PipelineRoutes`).

## Runs

| Run | What it checks | Result |
| --- | --- | --- |
| `JobTableSafety` | exact `job_count`, the `max_jobs` cap, conservation of results, no lost wake-up, running jobs stay in the table, records accounted for | holds, 1.35 M states |
| `JobTableLive` | finished jobs leave the table, every call returns | holds, 35 k states |
| `ConsumedTwice` | jobs are single-consumer | violated |
| `Recovery` | persisted jobs are not lost, an orphan is recovered after one crash; unless its own broker served without a lease, no two brokers in service execute a job, its record changes hands only under an expired lease and its client is told "lost" only when it is gone | holds, 869 k states |
| `ShutdownSplitBrain` | a draining broker that renewed on time keeps its running jobs until its drain deadline | violated |
| `SecondCrash` | an orphan is recovered after two crashes | violated |
| `UserLimit` | the strict cap across brokers, admitted jobs stay listed, the cap of one broker, exact local counts, slots are freed | holds, 388 k states |
| `DispatchSafety` | exact permits and queue depth, nothing pending after the drain, pending jobs stay reachable, answers are final | holds, 1.35 M states |
| `DispatchLive` | the dispatcher implements `DispatchContract`, calls return, calls whose client stays away leave the queue | holds, 101 k states |
| `LostHandOff` | a pending job is in the queue or in a worker's hands | violated |
| `Store` | slots are unique, an id leads back to its minter and has one spelling, a reserved user slot stays listed, the backends implement `StoreContract`, store calls return | holds, 350 k states |
| `Pipeline` | a broker that comes up is usable, a named target is one target, no remote target is without a listener unless a caller was told, no transform leaks into a later route, exact rejections, cancellation is heeded, the most generous ceiling wins, no client is misled, every call is answered | holds, 33 k states |

The type invariants are in no run: they are proved.

### What the violated runs show

- `ConsumedTwice`: the durable record of a consumed job is deleted later by
  another thread. A poll in between misses the table, claims the broker's own
  record and runs the job again. `docs/src/troubleshooting.md:91` promises
  `NotFound`.
- `ShutdownSplitBrain`: the heartbeat stops when the drain starts, the lease may
  then be half a TTL old, the grace is at most a tenth of the TTL, and the drain may
  last a whole TTL: the lease can expire first.
  `docs/src/troubleshooting.md:587` describes duplicate execution only for jobs
  that outlast the drain.
- `SecondCrash`: `claim_if_owner` is called with the broker encoded in the id.
  Once the job has been recovered the record names another broker; when that one
  dies every poll is answered "queued". `design.md:336` says the record's
  authoritative owner field is used.
- `LostHandOff`: a weighted queue re-inserts a job when its send into a dequeue
  request fails. When the send succeeds and the remote worker's poll then ends
  (its timeout fires, its connection closes) before the job is received, the job
  is dropped with the channel; its call stays queued with its permit until it is
  cancelled, its client leaves or the dispatcher closes. Every other pair of
  executor and queue is free of this (`JobKept`, `DispatchReturns`).

Other behaviours are visible in the models and have no run of their own.

Job table and recovery:

- An instance recovered from a record can be evicted from the table while it
  runs. The sweeper removes a finished job between a poll's lookup and its
  connect, a recovery inserts a new instance under the id, and the poll's
  `remove_job`, which removes by id, then evicts that one. `RunningStaysInTable`
  is therefore stated for submitted instances.
- A poll without a timeout that finds the job between another poll's take and
  its `remove_job` waits for a notification that has already happened
  (`CallReturns` is therefore stated for polls with a timeout).
- Before a broker's first renewal, or after renewals that failed, a peer that is
  polled for one of its jobs takes it for dead: it answers that the job is lost
  (`docs/src/troubleshooting.md:84` has this answer for owners that are gone), or claims a
  persisted job and executes it next to its broker. `exposed` marks these jobs;
  `SingleExecution` says that it stays at one such execution.
- A result is lost to its client when the owner has taken it for a proxied poll
  whose answer does not arrive (`NeverMisled` names this case).
- A delayed `delete_job` of a consumed job removes the record also when another
  broker has claimed it meanwhile (`PersistedNotLost` is about jobs that were not
  consumed).
- The list of active jobs can show "failed" for a cancelled job that then ends
  in success.

User limit and stores:

- A job that a remote worker has taken no longer counts against its user: the
  work future is dropped with the guard in it (`PickUp`), although the comment
  in `dispatch` speaks of the queued and in-flight span.
- With `redispatch` a recovered job finds its entry from before the crash, which
  still names the dead broker; reclaim removes it while the job is admitted, and
  `StrictCap` fails.
- A release that fails, or is skipped because the guard is dropped outside a
  runtime, on a broker that stays up is not made good by reclaim (`SlotFreed` is
  stated for jobs outside `flaky`).
- An entry of a broker that reserves before its first heartbeat can be reclaimed
  (`HeldIsListed` fails with a broker in `late`).
- TiKV has no user-limit operations, so strict admission on it fails open
  (`dispatcher/mod.rs` 278-296); its write conflicts in upsert and delete come
  back as `Backend` (`db/mod.rs` 121-122).
- NATS: a scan whose last match expires between probe and watch waits until its
  caller's timeout (`db/nats.rs` 561-597); a reservation after `AlreadyExists` may
  return the revision of a tombstone, or 0; of two concurrent reclaims one can
  purge an entry that a live broker has created again; a claim that has lost all
  its attempts may answer `Active` with the owner it expected.

Startup, routing and answers:

- Calls of `add_route` that overlap and resolve one target each build a dispatcher
  of their own for it, and the second `register_pool` replaces the first one's pool
  (`TargetShared` excepts a target that several calls resolved).
- `started` is set before the listener is bound: after a bind that failed, later
  calls of `add_route` return Ok and there is no listener. `ListenerUp` says that
  one caller was told. `add_route` lists its router before that start can fail.
- An executor with `concurrency: 0` is accepted and its queue never served
  (`Staffed` excludes it); an entry of one registry may name an action of another
  kind.
- A result of kind Failed, Overloaded or RateLimited, or a redirect whose last
  path segment is the id of the job, is consumed at the owner when another broker
  relays the poll, and reaches the client as a redirect to poll again, then as
  not found (`NeverMisled` names these cases).
- A panic in an action ends the pool worker that ran it, and a `get_work`
  handler that claims after the reaper's last drain leaves its caller waiting.
  `Stuck` names both and `DispatchReturns` excuses them.

### Bounds

- `JobTable`: two ids, two instances, two handlers, `max_jobs` 1. Two handlers
  are needed for every race between polls, two instances for a recovery that
  meets a poll of the instance before it, two ids for the cap. A request starts
  only while an unused instance is left (`SpareInst`). Store calls about one id
  fail and about the other do not (`Flaky`), so one run shows both.
- `Recovery`: one job, TTL 2, no grace, renewal of timely brokers within one tick.
  Two brokers with every fault, of which the job's own may let its lease lapse;
  three brokers (an owner, a claimant and a rival) of which the owner may crash or
  lapse while both others are polled; and two brokers of which one crashes, for
  progress. The grace only shifts the moment of expiry, and the records of different
  jobs do not interact. `ShutdownSplitBrain` has the proportions of the code: TTL
  10, grace 1, renewal within 5.
- `Store`: two or three brokers and up to five calls on one key, one failing
  request, for each backend; counters that are missing, at the byte boundary and
  one short of the last slot. Five calls let a claim lose all its attempts. Ids
  are read with any one of their characters replaced.
- `UserLimit`: two brokers; three jobs against a strict ceiling of 1, where the
  store calls of one job may fail; two jobs against a lazy ceiling of 1 with all
  faults enabled; three jobs without a store.
- `Executors`: two calls against one permit and two workers (one in the liveness
  run), so that calls compete for the permit and workers for the jobs. Of the
  calls one may be refused by the limiter or dropped by its caller, is cancelled
  on the remote pool and may never end on a local one; the other is a target
  call whose client leaves and returns (`MaxVisits`) and whose action may panic. In
  the liveness run calls are abandoned by a client that leaves a local pool and not
  by cancellation: the wait is the same `select!` with one notification for both, and
  with cancellation the properties hold too, on twice the states.
  One worker outcome is enough, since the completion handlers differ only in the
  data they pass on.
- `Pipeline`: about 180 configurations: each section of the configuration wrong
  or at the edge of right, each way for a route or a dispatcher block to be
  refused, ceilings and users, two routes with a nested switch under cancellation
  and clients that leave, two threads that add a route to one remote target.
- Deadlock is not checked: all requests may have been answered and no new one
  may come.

### Fairness

Tokio polls every task that can go on and both maintenance threads are
scheduled, which is weak fairness of `HandlerStep`, `RunnerStep`, `SweeperStep`
and `CleanupDelete`; dispatched work is assumed to finish, and deadlines pass.
`Recovery` and `SecondCrash` add a client that keeps polling through every broker
(strong fairness of `StartPoll`), since recovery in this system is driven by
polls alone; fairness is only asked for in calm settings (`Calm`), the ones that
`OrphanRecovered` is about. `UserLimit` needs the spawned releases, the sweeper
thread, first heartbeats and the expiry of dead leases. `Store` asks that a call
under way goes on, and nothing of the environment. `DispatchLive` assumes that
calls, `close` once begun, pool workers, the reaper and outcome tasks go on, that
deadlines pass, and that a remote worker completes its job or falls silent. The
receipt of a reply is strongly fair, because `select!` picks a ready branch at
random. Nothing is assumed of clients, of the start of `close`, or of work in
`Endless`. `Pipeline` assumes that threads run, actions answer, the cleanup worker
works its queue, the client comes back, and not every relayed answer is lost.

## Proofs

Eight modules hold theorems. Every leaf is checked by TLAPS; nothing is assumed
beyond the `ASSUME`s of the modules, which TLC evaluates in the runs, and the
hypotheses that the theorems about routers state. The sets of
ids, instances, handlers, brokers, jobs, calls and workers, the ceilings and
capacities, the durations and the number of faults are arbitrary.

| Module | Theorem | Statement |
| --- | --- | --- |
| `JobTableProofs` | `TypeCorrect`, `CountCorrect`, `CapCorrect`, `ResultCorrect`, `WakeupCorrect` | `Spec => []P` for `TypeOK`, `CountExact`, `EnforcedWithinMax`, `ResultConserved`, `NoLostWakeup` |
| | `RunningCorrect`, `RecordCorrect` | where the broker issues the ids: `RunningStaysInTable`, `RecordAccounted` |
| `StoreProofs` | `TypeCorrect`, `Slots`, `ReserveCorrect`, `IdCorrect` | `TypeOK`, `SlotsUnique`, `ReserveListed`, `IdNamesMinter` |
| | `ContractCorrect` | `Spec => KeepsContract`: each backend implements `StoreContract` |
| `RequestIdProofs` | `RoundTrip`, `Spelling` | `decode` inverts `encode_with_fixed_random`; a string that `decode` accepts is what its fields encode to |
| `UserLimitProofs` | `TypeCorrect`, `CountsCorrect`, `LocalCapCorrect` | `TypeOK`, `CountsExact`, `LocalCap` |
| | `ListedCorrect`, `StrictCapCorrect` | in steady deployments: `HeldIsListed`, `StrictCap` |
| `RecoveryProofs` | `TypeCorrect`, `SingleExecutionCorrect`, `PersistedCorrect` | `TypeOK`, `SingleExecution`, `PersistedNotLost` |
| | `LeaseGatedCorrect`, `LostCorrect` | the action properties `LeaseGated`, `LostOnlyWhenGone` |
| `ExecutorsProofs` | `TypeCorrect`, `PermitsCorrect`, `DepthCorrect`, `DrainedCorrect`, `JobKeptCorrect` | `TypeOK`, `PermitsExact`, `DepthExact`, `NoneAfterDrain`, `JobKept` |
| | `AnsweredCorrect` | the action property `AnsweredOnce` |
| | `ContractCorrect` | `Spec => KeepsContract`: the dispatcher implements `DispatchContract` with any executor and queue |
| `PipelineProofs` | `CancelCorrect`, `NoLeakCorrect`, `ReasonsCorrect`, `LimitCorrect` | `RoutingSpec => []P` for `CancelHeeded`, `NoLeak`, `ReasonsExact`, `LimitGenerous` |
| | `PipelineRoutes`, `PipelineJobs` | `Pipeline` implements `RoutingSpec`, hence these four hold of the jobs of a broker, if the routers it hands out (`Handed`) are `Routable` and `Limited` |
| | `NeverMisledCorrect` | `Spec => []NeverMisled` |
| `StartupProofs` | `UpCorrect` | `Spec => []UpIsUsable` |
| | `TargetCorrect` | `Spec /\ []ParserSound => []TargetShared`, where the parser is `Sound` |
| | `ListenerCorrect` | `Spec /\ []ParserSound => []ListenerUp` |

Each module proves one or two inductive invariants with a lemma per action and
frames for actions that only move a program counter.

**JobTableProofs** (`TableAssumption`: `Ids` and `Handlers` are finite). None of
the properties is inductive alone. The type invariant needs `PollersExact` (the
poller count of an instance is the number of handlers holding a guard on it), or
the decrement in `Disconnect` might go below zero. `CountExact` needs the id of the
instance a handler works on to agree with the table (`TableBorn`,
`HandlerSound`). `ResultConserved` needs that a slot is empty before its task
publishes (`SlotEmptyBefore`), and `NoLostWakeup` that a handler is armed from
`Connect` on. `CapCorrect` uses `CountExact`: the enforced jobs are part of what
`job_count` counts, so the comparison in `Submit` bounds them. Arguments about
counters rest on a lemma that changing one element of a finite set changes the
cardinality by one.

For the life of a job there is a second invariant, `LInv`: the table maps an id
to a job of that id, a handler removes only after it took a published result, an
id that `submit` has reserved has no job yet and one submitter (`ReservedFresh`),
and while the task of a submitted job runs there is no other job of its id
(`FirstAlone`). The persisted flag is set on every job whose id has a record
(`Flagged`), which is what makes a poll or the sweeper schedule the deletion.
`RunningCorrect` and `RecordCorrect` assume `~CallerIds`: with ids chosen by
callers a second submission can take the place of the first.

**StoreProofs**. For the slots: every slot handed out is below the counter
(`SlotsBelow`), and what an allocation has read still has its value if it still
has its revision (`Good`), also for writes given up on. For the contract: a claim
that is about to write, or whose write is late, read the hinted broker as owner,
and the record is unchanged if its revision is (`ClaimGood`); then every step maps
to a step of `StoreContract` or to none. A request whose answer is lost becomes one
element of `unsure` (`nth` tells equal requests apart), which `Land` spends. `ReserveListed` needs to know where a call
on a user slot can be (`UserPlace`) and that a reservation that met an entry finds
it live when it reads the revision, unless a removal came between (`Found`). For
the ids: slots are unique and fit 16 bits, so `RoundTrip` applies.
`StoreAssumption` says that tags are one to three characters of the alphabet and
that timestamps and random bytes fit their fields.

**RequestIdProofs**. The digits and the bytes of an id have the same 128 bits
(`EncodeBits`, `DecodeBits`, `SameBits`), and a number below 2^n is the sum of its
n bits (`SumBit`, `SmallSum`): so decoding the digits gives back the bytes
(`DecodeEncode`) and a canonical string is the encoding of its bytes
(`EncodeDecode`). Tags are base-37 numbers (`UnpackPack`, `PackUnpack`), and each
field is read from the bytes where it was laid (`Laid`, `Relaid`).

**UserLimitProofs**. The local count is the number of guards. `Steady` names the
deployments the strict cap is about: every broker has a lease before it serves,
and no job is dispatched again after a crash; outside them the cap fails, as
described above. In them a sweep knows all brokers that serve (`FleetOK`), a
release is only under way for a job that is through, an entry belongs to its job,
and sequence numbers are distinct; an admitted job has fewer than the ceiling of
entries before its own (`RankOK`). Of all admitted jobs take the one whose entry
is last: the others are before it.

**RecoveryProofs** assume nothing of how leases are renewed. A broker *holds* a job
if it is in service and executes the job, or has claimed it and will, the own broker
of an `exposed` job left aside (`Holds`). The invariant says that at most one broker
holds a job, and that the record, if there is one, names it (`Ownership`). It needs
that a broker in service without a lease has exposed the jobs of its ids (`Fleet`),
what a poll knows at its claim (`Polls`: the owner it expects has lost its lease for
good, or the job is exposed, or the owner is the broker itself, which does not have
the job) and the life of a job (`Lives`: it is sent to the store once, by its first
broker, and other brokers have it only after that). A broker that has stopped
renewing is not in service again, so a lookup that found its lease expired stays
true however late the claim arrives. The action properties follow from the
invariant and one step.

**ExecutorsProofs**. The reply sender of a call is in exactly one place until it
is used: with the call, in the pending map, drained by `close`, with a worker, or
with the outcome task (`Senders`). `AnsweredOnce` follows, and so does the contract:
`Phase` tells these places apart, so each step moves one call from one phase to the
next. `JobKept` needs that the FIFO hands over in one step (`FifoOK`).

**PipelineProofs**, routing: any set of routers that `validate` lets through
(`Routable`: no route is empty and its last action is a target or a switch), with
switches nested to any depth. `Stacked` says that each switch was entered with the
transforms of the frames around it (`Marks`) and that the rejections of the frames,
outermost first, make up what was shown (`Tells`). `CancelCorrect` needs no
condition on the routers: an action that starts after the cancellation leaves the
flag for the next gate to see (`Heeds`). `LimitCorrect` is an induction over the
roles of a user, along the recursive function in `resolve`: after m roles it holds
the highest of the default, the realm's own ceiling and those of the first m roles
(`ResolveHighest`). The induction is the least element of a set of naturals
(`Least`, `Induct`), since the induction theorems of the library take an operator.
Its conditions are what `parse_user_limit` lets through (`Limited`) and a user with
a list of roles and a count of jobs (`UserOk`).

**PipelineProofs**, the client: `JobOk` says that a job has no result until it ends
and then one, which stays in the table until a poll takes it; that a client who was
told something was told the truth about that result (`TruthOf`); and that one who
took the result and was told nothing polls through another broker and has an excuse
(`Excused`: an answer was lost, or the result is one the relay turns into a
redirect). There is a lemma for each way to poll and each kind of result. It holds
for any parser: jobs are only assumed to go through some router.

**StartupProofs** are about any configurations (`ConfigsAssumption`: the kinds of
store there are, a threshold that is absent, invalid or a duration), any number of
threads that call `add_route`, and every interleaving of their steps.

- `UpCorrect`: past the settings they are usable, at the routes there is a slot, and
  a router that is in use or listed passed `validate` (`StartOk`). What a sequence
  of checks establishes follows from `NoError`: the first error is Ok only if there
  is none.
- `TargetCorrect`: the copy of the cache that a call works on agrees with the cache
  and with what the call made of it (`Known`), so that two routers that knew a
  target have the same one; for calls that do not overlap the copy is the cache
  until the merge, and what was made is in the cache afterwards, and the
  registrations a call still has to make are those of the remote targets it made
  that cannot be reached yet (`Owed`, `Reach`). For calls that overlap the invariant
  is about who made what (`BuiltOk`): what the cache has under a name was made by a
  call that resolved that name (`MadeBy`), the pool of a name leads to the queue of a
  target that such a call made (`LeadsTo`), and a call that is through has pools for
  all its remote targets (`Duty`). If one call resolved the name, all of these are
  its target.
- `ListenerCorrect`: once `started` is set, the listener is up, or a call is about to
  bind it or was told that it could not (`Lit`); and a call hands out a router with a
  remote target, made or found, only after the flag was set (`Online`, `Duty`).
- `ParserSound`, the hypothesis of both, says that the parser is `Sound` on the cache
  as it is when a call parses. `FirstIdle` says that the call of
  `parse_bootstrap` has not begun before it comes to the routes.

### What stays with TLC

- Liveness, because the prover handles neither fairness nor `ENABLED`:
  `ResultLeavesTable`, `CallReturns`, `OrphanRecovered`, `SlotFreed`,
  `DispatchReturns`, `AbandonedLeaves`, `CallsAnswered`.
- The recursive walks of `RouteTree`. What `parse_routes` and `actions_of` compute
  for every tree would be an induction over trees on recursive operators, which the
  prover does not accept. The theorems therefore name what they need of them
  (`Sound`, `Routable`, `Limited`), and TLC evaluates it on the configurations of the
  `Pipeline` run (`ParserAssumption`).

## Not modelled

- The orders in which the queues yield their jobs (arrival, cost, ratio of wait
  to cost): a queue yields them in any order, so what is shown holds for each.
- Metrics and telemetry, which nothing reads back.
- HTTP plumbing: bodies and their streaming, headers, the OpenAPI page, health
  endpoints, the construction of outgoing requests.
- YAML syntax, error texts, the derivation of the internal poll endpoint, TLS and
  stream settings of the stores.
- The conversion of Python values and the event loop of the bindings.
