------------------------------ MODULE Executors ------------------------------
(***************************************************************************)
(* A dispatcher with the executor and the queue its configuration names:   *)
(* Dispatcher composed with LocalPool or with RemotePool.                  *)
(***************************************************************************)
EXTENDS LocalPool, RemotePool

vars == <<dvars, rvars>>

Init == DInit /\ RInit

Next ==
  \/ DNext /\ UNCHANGED rvars
  \/ config.executor = "local" /\ LNext /\ UNCHANGED rvars
  \/ config.executor = "remote" /\ RNext

Spec == Init /\ [][Next]_vars

\* The runtime polls every woken task and timer; tokio's select! picks among its
\* ready branches at random, hence strong fairness of the receipt.  Workers of a
\* remote pool keep polling, and complete or fall silent.  Nothing is assumed of
\* clients, of close, or of work in Endless.
Fairness ==
  /\ \A j \in Jobs :
       /\ WF_vars(/\ \/ Acquire(j) \/ CheckClosing(j) \/ Insert(j) \/ Enqueue(j)
                     \/ Arm(j) \/ Check(j) \/ Withdraw(j) \/ Park(j) \/ Wake(j)
                  /\ UNCHANGED rvars)
       /\ SF_vars(Receive(j) /\ UNCHANGED rvars)
       /\ WF_vars(Notify(j) /\ UNCHANGED rvars)
       /\ WF_vars(Lapse(j) /\ UNCHANGED rvars)
       /\ WF_vars(Silence(j))
       /\ WF_vars(Reap(j))
       /\ WF_vars(Deliver(j))
  /\ WF_vars((CloseAdmission \/ CloseQueue \/ CloseDrain \/ CloseReply) /\ UNCHANGED rvars)
  /\ WF_vars(Drain)
  /\ \A w \in Workers :
       /\ WF_vars((Dequeue(w) \/ Ask(w) \/ Serve(w) \/ Take(w) \/ Resolve(w)) /\ UNCHANGED rvars)
       /\ WF_vars(\/ (GuardRefuses(w) \/ Run(w)) /\ UNCHANGED rvars
                  \/ config.executor = "remote" /\ ClaimWork(w))
       /\ WF_vars(config.executor = "local" /\ Finish(w) /\ UNCHANGED rvars)
       /\ WF_vars(config.executor = "remote" /\ Complete(w))

FairSpec == Spec /\ Fairness

-----------------------------------------------------------------------------
\* What the calls and the workers look like from outside.

Waiting(j) == call[j] \in Looping \cup {"enqueue"}
With(st, j) == \E w \in Workers : wk[w] = [st |-> st, job |-> j]

Phase(j) ==
  IF call[j] \in {"new", "permit", "insert"} THEN "idle"
  ELSE IF j \in pending THEN "queued"
  ELSE IF With("claim", j) THEN "claimed"
  ELSE IF IF config.executor = "local" THEN With("work", j) ELSE j \in translating
       THEN "running"
  ELSE "done"

Contract == INSTANCE DispatchContract
  WITH phase <- [j \in Jobs |-> Phase(j)], open <- ~closing

\* The dispatcher, with any of its executors and queues, keeps the contract of
\* DispatchContract: bounded admission, one claim and one start per accepted
\* call, none for a withdrawn one, none accepted once closing.
KeepsContract == Contract!Spec

-----------------------------------------------------------------------------
\* Every variable has its type.
TypeOK ==
  /\ config \in Configs
  /\ closer \in CloserPc
  /\ stranded \subseteq Jobs /\ queue \subseteq Jobs /\ pending \subseteq Jobs
  /\ permits \in 0..Capacity
  /\ depth \in Int
  /\ call \in [Jobs -> CallPc]
  /\ why \in [Jobs -> {"none"} \cup Errors]
  /\ reply \in [Jobs -> Replies \cup {"ok"} \cup Outcomes]
  /\ woken \subseteq Jobs /\ cancelled \subseteq Jobs /\ pollers \subseteq Jobs
  /\ lapsed \subseteq Jobs /\ notifying \subseteq Jobs
  /\ visits \in [Jobs -> 0..MaxVisits]
  /\ wk \in [Workers -> [st: WorkerSt, job: Jobs \cup {NoJob}]]
  /\ silent \subseteq in_progress /\ in_progress \subseteq Jobs
  /\ translating \subseteq Jobs /\ processing \subseteq Jobs
  /\ outcome \in [Jobs -> {"none", "dropped"} \cup Outcomes]
  /\ reaper \in {"on", "stopping", "off"}

\* Every permit of the admission semaphore is free, with a call that has not
\* inserted yet, or in a pending entry: withdrawal, closing, resolution and the
\* refusals each give back exactly the permit they found.
PermitsExact ==
  permits + Cardinality({j \in Jobs : call[j] \in {"permit", "insert"}})
          + Cardinality(pending) = Capacity

\* queue_depth equals the number of pending entries, less those whose caller has
\* inserted and not yet counted itself; no exit from the queue is missed or
\* counted twice, not even when close drains an entry before it was counted.
DepthExact ==
  depth = Cardinality(pending) - Cardinality({j \in Jobs : call[j] = "enqueue"})

\* Once close has drained the pending map nothing enters it again, however a
\* dispatch call that saw the dispatcher open is delayed before its insertion.
NoneAfterDrain == closer \in {"drained", "closed"} => pending = {}

\* An entry of the pending map can still reach an executor: its job is in the
\* queue, on its way there, or in a worker's hands, until close is under way.
\* The queues re-insert a job whose receiver is gone "so the job isn't lost".
JobNotLost ==
  \A j \in pending :
    QueueClosed \/ call[j] = "enqueue" \/ j \in queue \/ With("sent", j) \/ With("got", j)

\* The same for every pair of executor and queue but a remote pool on a weighted
\* queue, where a poll that ends can take a job with it.
JobKept == config = [executor |-> "remote", queue |-> "weighted"] \/ JobNotLost

\* A call is answered once: a late completion, a repeated one, an eviction and
\* close never replace an answer or an outcome that was already given.
AnsweredOnce ==
  [][\A j \in Jobs : /\ reply[j] # "none" => reply'[j] = reply[j]
                     /\ outcome[j] # "none" => outcome'[j] = outcome[j]]_vars

\* No worker is left that could take another job: the local ones panicked or are
\* in work that never ends, or j itself is such work; a remote job was claimed by
\* a poll that finished after the reaper's last drain.
Stuck(j) ==
  IF config.executor = "local"
  THEN \/ \E w \in Workers : wk[w] = [st |-> "work", job |-> j] /\ j \in Endless
       \/ \A w \in Workers : wk[w].st = "dead" \/ (wk[w].st = "work" /\ wk[w].job \in Endless)
  ELSE reaper = "off" /\ j \in in_progress

\* Every dispatch call comes back, through an answer, a withdrawal, an eviction or
\* close, unless no worker is left to serve it.
DispatchReturns == \A j \in Jobs : Waiting(j) ~> (~Waiting(j) \/ Stuck(j))

\* A queued call whose job is cancelled, or whose client stays away beyond the
\* reconnect deadline, leaves the queue even when no executor ever gets to it.
AbandonedLeaves ==
  \A j \in Jobs : (j \in pending /\ Waiting(j) /\ QueuedError(j) # "none")
                    ~> (j \notin pending \/ ~Waiting(j) \/ QueuedError(j) = "none")
=============================================================================
