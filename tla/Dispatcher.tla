------------------------------ MODULE Dispatcher ------------------------------
(***************************************************************************)
(* One dispatcher: Dispatcher::dispatch as its caller runs it, close, the  *)
(* pending map, the admission semaphore, the queue, the client state that  *)
(* a queued call watches, and the first half of every executor's loop      *)
(* (dequeue a job, resolve its pending entry, drop the permit).  What an   *)
(* executor does with a resolved job is in LocalPool and RemotePool.       *)
(* A member of Jobs stands for one dispatch call; its request id is not    *)
(* dispatched a second time.                                               *)
(***************************************************************************)
EXTENDS Integers, FiniteSets

CONSTANTS
  Jobs,
  NoJob,
  Workers,     \* tasks or threads of a local pool, workers of a remote one
  Capacity,    \* dispatcher.queue_capacity
  Guard,       \* the DispatchGuard of each call
  Limited,     \* calls the per-user limiter may refuse (module UserLimit)
  Cancelling,  \* calls whose client may cancel the job, by executor
  Leaving,     \* calls whose client disconnects and comes back, by executor
  Droppable,   \* calls whose future may be dropped while it is suspended
  MaxVisits,   \* bound: how often a leaving client comes back
  Configs      \* the [executor, queue] pairs a dispatcher is built with

ASSUME DispatcherAssumption ==
  /\ IsFiniteSet(Jobs)
  /\ NoJob \notin Jobs
  /\ Capacity \in Nat \ {0} /\ MaxVisits \in Nat
  /\ Guard \in [Jobs -> {"None", "Cancelled", "CancelledOrClientGone"}]
  /\ Limited \subseteq Jobs /\ Droppable \subseteq Jobs
  /\ Cancelling \in [{"local", "remote"} -> SUBSET Jobs]
  /\ Leaving \in [{"local", "remote"} -> SUBSET Jobs]
  /\ Configs \subseteq [executor: {"local", "remote"}, queue: {"fifo", "weighted"}]

VARIABLES
  config,     \* the executor and the queue the dispatcher was built with
  closer,     \* how far Dispatcher::close has got
  stranded,   \* reply senders close has drained and not yet answered
  permits,    \* free permits of the admission semaphore
  queue,      \* jobs buffered in the queue
  pending,    \* keys of the pending map
  depth,      \* the queue_depth metric
  call,       \* where each dispatch call is
  why,        \* the error a call that is about to withdraw would return
  woken,      \* calls whose armed dispatch_notify has fired
  reply,      \* what the reply channel carries, then what the call returned
  cancelled,  \* jobs with the cancelled flag set
  pollers,    \* jobs with a connected client (active_pollers > 0)
  lapsed,     \* jobs whose reconnect deadline has passed
  visits,     \* how often the client of each job has come back
  notifying,  \* jobs whose client state changed and was not yet announced
  wk          \* what each worker is doing, and with which job

client == <<cancelled, pollers, lapsed, visits, notifying>>
dvars == <<config, closer, stranded, permits, queue, pending, depth, call, why,
           woken, reply, client, wk>>

-----------------------------------------------------------------------------
\* Suspended calls can be dropped and answered; "last" awaits the reply alone.
Suspended == {"wait", "timed", "last"}
Armed == {"check", "withdraw", "park", "wait", "timed"}
Looping == {"arm", "last"} \cup Armed
CallPc == {"new", "permit", "insert", "enqueue", "returned", "dropped"} \cup Looping
Refusals == {"limit", "full", "closed"}
Errors == {"Cancelled", "ClientGone"}
\* "dropped": the sender went away; the receiver reads it as "dispatcher closed".
Replies == {"none", "dropped", "failed"} \cup Refusals \cup Errors

CloserPc == {"open", "flag", "admission", "queue", "drained", "closed"}
WorkerSt == {"idle", "ask", "sent", "got", "claim", "work", "exited", "dead"}

closing == closer # "open"
AdmissionClosed == closer \notin {"open", "flag"}
QueueClosed == closer \notin {"open", "flag", "admission"}
ReceiverGone(j) == call[j] \in {"returned", "dropped"}
ClientPresent(j) == j \in pollers \/ j \notin lapsed

DInit ==
  /\ config \in Configs
  /\ closer = "open" /\ stranded = {}
  /\ permits = Capacity
  /\ queue = {} /\ pending = {} /\ depth = 0
  /\ call = [j \in Jobs |-> "new"]
  /\ why = [j \in Jobs |-> "none"]
  /\ reply = [j \in Jobs |-> "none"]
  /\ woken = {}
  /\ cancelled = {} /\ pollers = Jobs /\ lapsed = {}
  /\ visits = [j \in Jobs |-> 0] /\ notifying = {}
  /\ wk = [w \in Workers |-> [st |-> "idle", job |-> NoJob]]

-----------------------------------------------------------------------------
\* The client of a queued job: Bits::cancel and the ConnectedGuard of its polls.
\* The flag changes first, dispatch_notify.notify_waiters() follows.  What the
\* client does once its call is over no longer matters here.

Cancel(j) ==
  /\ j \in Cancelling[config.executor] \ cancelled /\ ~ReceiverGone(j)
  /\ cancelled' = cancelled \cup {j}
  /\ notifying' = notifying \cup {j}
  /\ UNCHANGED <<config, closer, stranded, permits, queue, pending, depth, call,
                 why, woken, reply, pollers, lapsed, visits, wk>>

Connect(j) ==
  /\ j \in Leaving[config.executor] \ pollers /\ ~ReceiverGone(j)
  /\ visits[j] < MaxVisits
  /\ visits' = [visits EXCEPT ![j] = @ + 1]
  /\ pollers' = pollers \cup {j}
  /\ notifying' = notifying \cup {j}
  /\ UNCHANGED <<config, closer, stranded, permits, queue, pending, depth, call,
                 why, woken, reply, cancelled, lapsed, wk>>

Disconnect(j) ==
  /\ j \in Leaving[config.executor] \cap pollers /\ ~ReceiverGone(j)
  /\ lapsed' = lapsed \ {j}
  /\ pollers' = pollers \ {j}
  /\ notifying' = notifying \cup {j}
  /\ UNCHANGED <<config, closer, stranded, permits, queue, pending, depth, call,
                 why, woken, reply, cancelled, visits, wk>>

\* Time passes the reconnect deadline.
Lapse(j) ==
  /\ j \notin pollers \cup lapsed /\ ~ReceiverGone(j)
  /\ lapsed' = lapsed \cup {j}
  /\ UNCHANGED <<config, closer, stranded, permits, queue, pending, depth, call,
                 why, woken, reply, cancelled, pollers, visits, notifying, wk>>

Notify(j) ==
  /\ j \in notifying
  /\ notifying' = notifying \ {j}
  /\ woken' = IF call[j] \in Armed THEN woken \cup {j} ELSE woken
  /\ UNCHANGED <<config, closer, stranded, permits, queue, pending, depth, call,
                 why, reply, cancelled, pollers, lapsed, visits, wk>>

-----------------------------------------------------------------------------
\* Dispatcher::dispatch

Return(j, r) ==
  /\ call' = [call EXCEPT ![j] = "returned"]
  /\ reply' = [reply EXCEPT ![j] = r]

\* limiter.admit returns None.
RefuseUser(j) ==
  /\ call[j] = "new" /\ j \in Limited
  /\ Return(j, "limit")
  /\ UNCHANGED <<config, closer, stranded, permits, queue, pending, depth, why,
                 woken, client, wk>>

Acquire(j) ==
  /\ call[j] = "new"
  /\ \/ AdmissionClosed /\ Return(j, "closed") /\ UNCHANGED permits
     \/ ~AdmissionClosed /\ permits = 0 /\ Return(j, "full") /\ UNCHANGED permits
     \/ /\ ~AdmissionClosed /\ permits > 0
        /\ permits' = permits - 1
        /\ call' = [call EXCEPT ![j] = "permit"]
        /\ UNCHANGED reply
  /\ UNCHANGED <<config, closer, stranded, queue, pending, depth, why, woken,
                 client, wk>>

\* Mutant: the refused call keeps its permit.
ClosedKeepsPermit(j) ==
  /\ closing
  /\ Return(j, "closed")
  /\ UNCHANGED permits

\* Either test of `closing` that is true returns and drops the permit.
Closed(j) ==
  /\ closing
  /\ Return(j, "closed")
  /\ permits' = permits + 1

CheckClosing(j) ==
  /\ call[j] = "permit"
  /\ \/ Closed(j)
     \/ ~closing /\ call' = [call EXCEPT ![j] = "insert"] /\ UNCHANGED <<permits, reply>>
  /\ UNCHANGED <<config, closer, stranded, queue, pending, depth, why, woken,
                 client, wk>>

\* Mutant: `closing` is not looked at again under the lock.
InsertUnchecked(j) ==
  /\ call[j] = "insert"
  /\ pending' = pending \cup {j}
  /\ call' = [call EXCEPT ![j] = "enqueue"]
  /\ UNCHANGED <<config, closer, stranded, permits, queue, depth, why, woken, reply,
                 client, wk>>

\* Under the pending lock: `closing` once more, then the insertion.
Insert(j) ==
  /\ call[j] = "insert"
  /\ \/ Closed(j) /\ UNCHANGED pending
     \/ /\ ~closing
        /\ pending' = pending \cup {j}
        /\ call' = [call EXCEPT ![j] = "enqueue"]
        /\ UNCHANGED <<permits, reply>>
  /\ UNCHANGED <<config, closer, stranded, queue, depth, why, woken, client, wk>>

\* Queue::enqueue: a closed queue drops the job.
Push(j) == queue' = IF QueueClosed THEN queue ELSE queue \cup {j}

Enqueue(j) ==
  /\ call[j] = "enqueue"
  /\ depth' = depth + 1
  /\ Push(j)
  /\ call' = [call EXCEPT ![j] = "arm"]
  /\ UNCHANGED <<config, closer, stranded, permits, pending, why, woken, reply,
                 client, wk>>

\* Each round of the loop arms a Notified future, which dies with the round.
Arm(j) ==
  /\ call[j] = "arm"
  /\ call' = [call EXCEPT ![j] = "check"]
  /\ UNCHANGED <<config, closer, stranded, permits, queue, pending, depth, why,
                 woken, reply, client, wk>>

EndRound(j) ==
  /\ woken' = woken \ {j}
  /\ why' = [why EXCEPT ![j] = "none"]

QueuedError(j) ==
  IF Guard[j] # "None" /\ j \in cancelled THEN "Cancelled"
  ELSE IF Guard[j] = "CancelledOrClientGone" /\ ~ClientPresent(j) THEN "ClientGone"
  ELSE "none"

Check(j) ==
  /\ call[j] = "check"
  /\ why' = [why EXCEPT ![j] = QueuedError(j)]
  /\ call' = [call EXCEPT ![j] = IF QueuedError(j) = "none" THEN "park" ELSE "withdraw"]
  /\ UNCHANGED <<config, closer, stranded, permits, queue, pending, depth, woken,
                 reply, client, wk>>

StillAbandoned(j) ==
  IF why[j] = "Cancelled" THEN j \in cancelled ELSE ~ClientPresent(j)

\* The removal winner owns the queued clean-up: permit, metric, error.
Withdraw(j) ==
  /\ call[j] = "withdraw"
  /\ \/ /\ ~StillAbandoned(j)
        /\ call' = [call EXCEPT ![j] = "arm"]
        /\ UNCHANGED <<permits, pending, depth, reply>>
     \/ /\ StillAbandoned(j) /\ j \in pending
        /\ pending' = pending \ {j}
        /\ depth' = depth - 1
        /\ permits' = permits + 1
        /\ Return(j, why[j])
     \/ /\ StillAbandoned(j) /\ j \notin pending
        /\ call' = [call EXCEPT ![j] = "last"]
        /\ UNCHANGED <<permits, pending, depth, reply>>
  /\ EndRound(j)
  /\ UNCHANGED <<config, closer, stranded, queue, client, wk>>

\* Mutant: the wait is not bounded by the reconnect deadline.
ParkUntimed(j) ==
  /\ call[j] = "park"
  /\ call' = [call EXCEPT ![j] = "wait"]
  /\ UNCHANGED <<config, closer, stranded, permits, queue, pending, depth, why,
                 woken, reply, client, wk>>

\* With no poller connected the wait is also bounded by the reconnect deadline.
Park(j) ==
  /\ call[j] = "park"
  /\ call' = [call EXCEPT ![j] = IF Guard[j] = "CancelledOrClientGone" /\ j \notin pollers
                                 THEN "timed" ELSE "wait"]
  /\ UNCHANGED <<config, closer, stranded, permits, queue, pending, depth, why,
                 woken, reply, client, wk>>

Wake(j) ==
  /\ \/ call[j] \in {"wait", "timed"} /\ j \in woken
     \/ call[j] = "timed" /\ j \in lapsed
  /\ call' = [call EXCEPT ![j] = "arm"]
  /\ EndRound(j)
  /\ UNCHANGED <<config, closer, stranded, permits, queue, pending, depth, reply,
                 client, wk>>

Receive(j) ==
  /\ call[j] \in Suspended /\ reply[j] # "none"
  /\ call' = [call EXCEPT ![j] = "returned"]
  /\ EndRound(j)
  /\ UNCHANGED <<config, closer, stranded, permits, queue, pending, depth, reply,
                 client, wk>>

\* The caller's future is dropped at an await point; its entry stays pending.
DropCall(j) ==
  /\ call[j] \in Suspended /\ j \in Droppable
  /\ call' = [call EXCEPT ![j] = "dropped"]
  /\ EndRound(j)
  /\ UNCHANGED <<config, closer, stranded, permits, queue, pending, depth, reply,
                 client, wk>>

-----------------------------------------------------------------------------
\* Dispatcher::close: the flag, the semaphore, the queue, the drain, the answers.

CloseStep(from, to) ==
  /\ closer = from /\ closer' = to
  /\ UNCHANGED <<config, stranded, permits, queue, pending, depth, call, why,
                 woken, reply, client, wk>>

CloseFlag == CloseStep("open", "flag")
CloseAdmission == CloseStep("flag", "admission")
CloseQueue == CloseStep("admission", "queue")

\* Mutant: the drained entries are not taken off the metric.
CloseDrainUncounted ==
  /\ closer = "queue" /\ closer' = "drained"
  /\ stranded' = pending
  /\ pending' = {}
  /\ permits' = permits + Cardinality(pending)
  /\ UNCHANGED <<config, queue, depth, call, why, woken, reply, client, wk>>

CloseDrain ==
  /\ closer = "queue" /\ closer' = "drained"
  /\ stranded' = pending
  /\ pending' = {}
  /\ permits' = permits + Cardinality(pending)
  /\ depth' = depth - Cardinality(pending)
  /\ UNCHANGED <<config, queue, call, why, woken, reply, client, wk>>

CloseReply ==
  /\ closer = "drained" /\ closer' = "closed"
  /\ stranded' = {}
  /\ reply' = [j \in Jobs |-> IF j \in stranded THEN "closed" ELSE reply[j]]
  /\ UNCHANGED <<config, permits, queue, pending, depth, call, why, woken,
                 client, wk>>

-----------------------------------------------------------------------------
\* The queue and the half of the executor loop that every executor shares.
\* The order in which a queue yields its jobs is left open.

Worker(w, st, j) == wk' = [wk EXCEPT ![w] = [st |-> st, job |-> j]]
Idle(w) == Worker(w, "idle", NoJob)

\* FifoQueue::dequeue receives from the channel in one step.
Dequeue(w) ==
  /\ config.queue = "fifo" /\ wk[w].st = "idle"
  /\ \E j \in queue : queue' = queue \ {j} /\ Worker(w, "got", j)
  /\ UNCHANGED <<config, closer, stranded, permits, pending, depth, call, why,
                 woken, reply, client>>

\* The weighted queues hand over through a oneshot channel: the request, the
\* queue worker's send, the receipt.
Ask(w) ==
  /\ config.queue = "weighted" /\ wk[w].st = "idle" /\ ~QueueClosed
  /\ Worker(w, "ask", NoJob)
  /\ UNCHANGED <<config, closer, stranded, permits, queue, pending, depth, call,
                 why, woken, reply, client>>

Serve(w) ==
  /\ wk[w].st = "ask"
  /\ \E j \in queue : queue' = queue \ {j} /\ Worker(w, "sent", j)
  /\ UNCHANGED <<config, closer, stranded, permits, pending, depth, call, why,
                 woken, reply, client>>

Take(w) ==
  /\ wk[w].st = "sent"
  /\ Worker(w, "got", wk[w].job)
  /\ UNCHANGED <<config, closer, stranded, permits, queue, pending, depth, call,
                 why, woken, reply, client>>

\* Mutant: an abandoned job is skipped and its entry left to the caller.
ResolveSkips(w) ==
  LET j == wk[w].job IN
  /\ wk[w].st = "got"
  /\ \/ /\ j \notin pending \/ QueuedError(j) # "none"
        /\ Idle(w)
        /\ UNCHANGED <<pending, permits, depth>>
     \/ /\ j \in pending /\ QueuedError(j) = "none"
        /\ pending' = pending \ {j}
        /\ permits' = permits + 1
        /\ depth' = depth - 1
        /\ IF ReceiverGone(j) THEN Idle(w) ELSE Worker(w, "claim", j)
  /\ UNCHANGED <<config, closer, stranded, queue, call, why, woken, reply, client>>

\* pending.remove: nothing there, or a caller that is gone, ends the iteration.
Resolve(w) ==
  LET j == wk[w].job IN
  /\ wk[w].st = "got"
  /\ \/ j \notin pending /\ Idle(w) /\ UNCHANGED <<pending, permits, depth>>
     \/ /\ j \in pending
        /\ pending' = pending \ {j}
        /\ permits' = permits + 1
        /\ depth' = depth - 1
        /\ IF ReceiverGone(j) THEN Idle(w) ELSE Worker(w, "claim", j)
  /\ UNCHANGED <<config, closer, stranded, queue, call, why, woken, reply, client>>

\* The guard in guarded_work, and its copy in handle_get_work, refuses the job.
GuardRefuses(w) ==
  LET j == wk[w].job IN
  /\ wk[w].st = "claim" /\ QueuedError(j) # "none"
  /\ reply' = [reply EXCEPT ![j] = QueuedError(j)]
  /\ Idle(w)
  /\ UNCHANGED <<config, closer, stranded, permits, queue, pending, depth, call,
                 why, woken, client>>

-----------------------------------------------------------------------------
CallStep(j) ==
  \/ RefuseUser(j) \/ Acquire(j) \/ CheckClosing(j) \/ Insert(j) \/ Enqueue(j)
  \/ Arm(j) \/ Check(j) \/ Withdraw(j) \/ Park(j) \/ Wake(j) \/ Receive(j)
  \/ DropCall(j)

ClientStep(j) == Cancel(j) \/ Connect(j) \/ Disconnect(j) \/ Lapse(j) \/ Notify(j)

Close == CloseFlag \/ CloseAdmission \/ CloseQueue \/ CloseDrain \/ CloseReply

Fetch(w) == Dequeue(w) \/ Ask(w) \/ Serve(w) \/ Take(w) \/ Resolve(w) \/ GuardRefuses(w)

DNext ==
  \/ \E j \in Jobs : CallStep(j) \/ ClientStep(j)
  \/ Close
  \/ \E w \in Workers : Fetch(w)
=============================================================================
