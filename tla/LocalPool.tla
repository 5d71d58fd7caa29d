------------------------------ MODULE LocalPool ------------------------------
(***************************************************************************)
(* AsyncPoolExecutor and ThreadPoolExecutor: Workers tasks or threads, each *)
(* running the loop dequeue, resolve, run the work, send the result.  The  *)
(* two differ only in what a worker is, so one module models both.         *)
(***************************************************************************)
EXTENDS Dispatcher

CONSTANTS
  Endless,   \* jobs whose work may never end
  Panicky    \* jobs whose action may panic

ASSUME LocalPoolAssumption == Endless \subseteq Jobs /\ Panicky \subseteq Jobs

lunchanged == <<config, closer, stranded, permits, queue, pending, depth, call,
                why, woken, client>>

\* guarded_work passes its guard and polls the action's future.
Run(w) ==
  /\ wk[w].st = "claim" /\ QueuedError(wk[w].job) = "none"
  /\ Worker(w, "work", wk[w].job)
  /\ UNCHANGED <<lunchanged, reply>>

\* The work is over; reply_tx.send(result).
Finish(w) ==
  /\ wk[w].st = "work" /\ wk[w].job \notin Endless
  /\ reply' = [reply EXCEPT ![wk[w].job] = "ok"]
  /\ Idle(w)
  /\ UNCHANGED lunchanged

\* A panic unwinds through the loop: the sender drops and the worker is gone.
Panic(w) ==
  /\ wk[w].st = "work" /\ wk[w].job \in Panicky
  /\ reply' = [reply EXCEPT ![wk[w].job] = "dropped"]
  /\ Worker(w, "dead", NoJob)
  /\ UNCHANGED lunchanged

\* dequeue returns None once the queue is closed; a closed FIFO drains first.
Exit(w) ==
  /\ QueueClosed
  /\ \/ wk[w].st = "idle" /\ (config.queue = "fifo" => queue = {})
     \/ wk[w].st = "ask"
  /\ Worker(w, "exited", NoJob)
  /\ UNCHANGED <<lunchanged, reply>>

LNext == \E w \in Workers : Run(w) \/ Finish(w) \/ Panic(w) \/ Exit(w)
=============================================================================
