------------------------------ MODULE RemotePool ------------------------------
(***************************************************************************)
(* RemotePoolExecutor: the /work, /heartbeat and /complete handlers, the   *)
(* task that turns a worker's outcome into the call's reply, and the       *)
(* heartbeat reaper with its drain at shutdown.  A member of Workers is a  *)
(* remote worker; it is external, and its crashes, silence and repeated or *)
(* late requests are steps of their own.                                   *)
(***************************************************************************)
EXTENDS Dispatcher

CONSTANT Outcomes   \* the WorkerOutcome variants the workers post

VARIABLES
  in_progress,  \* jobs with an InProgressJob entry
  silent,       \* entries whose last heartbeat is older than the timeout
  outcome,      \* the outcome channel of each claimed job
  translating,  \* jobs whose outcome task has not sent the reply
  processing,   \* jobs marked PendingStatus::Processing
  reaper        \* "on"; "stopping": shutdown was signalled; "off": it left its loop

rvars == <<in_progress, silent, outcome, translating, processing, reaper>>
runchanged == <<config, closer, stranded, permits, queue, pending, depth, call,
                why, woken, client>>

RInit ==
  /\ in_progress = {} /\ silent = {} /\ translating = {} /\ processing = {}
  /\ outcome = [j \in Jobs |-> "none"]
  /\ reaper = "on"

\* Bits::drop: shutdown_worker_server follows close_all.  The listener then
\* takes no further request; handlers that are running finish.
Shutdown ==
  /\ closer = "closed" /\ reaper = "on"
  /\ reaper' = "stopping"
  /\ UNCHANGED <<runchanged, reply, wk, in_progress, silent, outcome, translating,
                 processing>>

ServerDown == reaper # "on"

\* handle_get_work, after its guard: the entry, the status, the outcome task.
ClaimWork(w) ==
  LET j == wk[w].job IN
  /\ wk[w].st = "claim" /\ QueuedError(j) = "none"
  /\ in_progress' = in_progress \cup {j}
  /\ silent' = silent \ {j}
  /\ processing' = processing \cup {j}
  /\ translating' = translating \cup {j}
  /\ Worker(w, "work", j)
  /\ UNCHANGED <<runchanged, reply, outcome, reaper>>

\* The poll times out or its connection closes: the dequeue future is dropped,
\* with whatever a weighted queue has already put into its channel.
EndPoll(w) ==
  /\ wk[w].st \in {"ask", "sent"}
  /\ Idle(w)
  /\ UNCHANGED <<runchanged, reply, rvars>>

Heartbeat(w) ==
  /\ ~ServerDown /\ wk[w].st = "work" /\ wk[w].job \in in_progress
  /\ silent' = silent \ {wk[w].job}
  /\ UNCHANGED <<runchanged, reply, wk, in_progress, outcome, translating,
                 processing, reaper>>

\* Mutant: the completion does not depend on the in-progress entry.
CompleteAnyway(w) ==
  LET j == wk[w].job IN
  /\ ~ServerDown /\ wk[w].st = "work"
  /\ in_progress' = in_progress \ {j}
  /\ silent' = silent \ {j}
  /\ \E o \in Outcomes : outcome' = [outcome EXCEPT ![j] = o]
  /\ Idle(w)
  /\ UNCHANGED <<runchanged, reply, translating, processing, reaper>>

\* handle_complete_*: 200 takes the entry and sends the outcome; 404 otherwise.
\* A worker whose 200 is lost posts again.
Complete(w) ==
  LET j == wk[w].job IN
  /\ ~ServerDown /\ wk[w].st = "work"
  /\ \/ /\ j \in in_progress
        /\ in_progress' = in_progress \ {j}
        /\ silent' = silent \ {j}
        /\ \E o \in Outcomes : outcome' = [outcome EXCEPT ![j] = o]
        /\ Idle(w) \/ UNCHANGED wk
     \/ /\ j \notin in_progress
        /\ Idle(w)
        /\ UNCHANGED <<in_progress, silent, outcome>>
  /\ UNCHANGED <<runchanged, reply, translating, processing, reaper>>

\* The worker dies, or never got the response that assigned the job to it.
WorkerLost(w) ==
  /\ wk[w].st = "work"
  /\ Idle(w)
  /\ UNCHANGED <<runchanged, reply, rvars>>

\* Time passes without a heartbeat.
Silence(j) ==
  /\ j \in in_progress \ silent
  /\ silent' = silent \cup {j}
  /\ UNCHANGED <<runchanged, reply, wk, in_progress, outcome, translating,
                 processing, reaper>>

Evict(S) ==
  /\ in_progress' = in_progress \ S
  /\ silent' = silent \ S
  /\ outcome' = [j \in Jobs |-> IF j \in S THEN "dropped" ELSE outcome[j]]
  /\ UNCHANGED <<runchanged, reply, wk, translating, processing>>

\* Mutant: the test of the heartbeat's age is inverted.
ReapInverted(j) ==
  reaper # "off" /\ j \in in_progress \ silent /\ Evict({j}) /\ UNCHANGED reaper

\* retain visits the entries one by one.
Reap(j) == reaper # "off" /\ j \in silent /\ Evict({j}) /\ UNCHANGED reaper

Drain == reaper = "stopping" /\ Evict(in_progress) /\ reaper' = "off"

Translate(o) == IF o = "dropped" THEN "failed" ELSE o

\* The spawned task: outcome_rx.await, then reply_tx.send.
Deliver(j) ==
  /\ j \in translating /\ outcome[j] # "none"
  /\ translating' = translating \ {j}
  /\ reply' = [reply EXCEPT ![j] = Translate(outcome[j])]
  /\ UNCHANGED <<runchanged, wk, in_progress, silent, outcome, processing, reaper>>

RNext ==
  \/ \E w \in Workers : \/ ClaimWork(w) \/ EndPoll(w) \/ Heartbeat(w)
                        \/ Complete(w) \/ WorkerLost(w)
  \/ \E j \in Jobs : Silence(j) \/ Reap(j) \/ Deliver(j)
  \/ Shutdown
  \/ Drain
=============================================================================
