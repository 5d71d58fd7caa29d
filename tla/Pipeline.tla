------------------------------ MODULE Pipeline ------------------------------
(***************************************************************************)
(* A broker from its configuration to the answer its client gets: Startup, *)
(* then a job submitted to one of its routers, then polls for it over HTTP, *)
(* over HTTP through another broker that relays them, or from Python.      *)
(*                                                                         *)
(* Polls are atomic here; JobTable has the interleavings inside one broker *)
(* and Recovery those between brokers.  The client polls until it is told  *)
(* an end.                                                                 *)
(***************************************************************************)
EXTENDS Startup, Routing

VARIABLES
  recorded,  \* the store holds a record of the job
  told,      \* [by, code, word]: the end the client was told: an HTTP status, or
             \* the status of a dictionary, and which way
  missed,    \* history: an answer of the owner was lost on the way to the relay
  final,     \* history: the result the job had, once it had one
  listed     \* history: the status the list of active jobs last showed

vars == <<startup, routing, recorded, told, missed, final, listed>>

Untold == [by |-> "none", code |-> 0, word |-> "none"]

PipelineInit ==
  /\ Init /\ RoutingInit
  /\ recorded = FALSE /\ told = Untold /\ missed = FALSE /\ final = {} /\ listed = "none"

Finished == run.at \in {"done", "rejected"}
\* The job is in the table from its submission until its result is taken.
InTable == run.at # "none" /\ (Finished => result # {})

Booting == StartupStep /\ UNCHANGED <<routing, recorded, told, missed, final, listed>>
Parsing == ParseStep /\ UNCHANGED <<routing, recorded, told, missed, final, listed>>
Calling == StartupCall /\ run.at = "none" /\ UNCHANGED <<routing, recorded, told, missed, final, listed>>

\* The broker is dropped between jobs; Executors has dispatchers that close
\* with calls in flight.
Dropping ==
  /\ drop /\ run.at = "none"
  /\ UNCHANGED <<routing, recorded, told, missed, final, listed>>

\* Bits::submit, or submit on the handle add_route returned; a table at its
\* limit turns the job away.  The job waits for the calls of add_route, with
\* which it shares nothing once it is on its way.
submit_job ==
  /\ Up /\ told = Untold /\ \A t \in config.adders : thread[t].at \in {"done", "failed"}
  /\ \E t \in Threads : Settled(t) /\ Start(thread[t].routes)
  /\ UNCHANGED <<startup, recorded, told, missed, final, listed>>

submit_overloaded ==
  /\ Up /\ config.full /\ run.at = "none" /\ told = Untold
  /\ told' = [Untold EXCEPT !.by = "http", !.code = overloaded_response.code]
  /\ UNCHANGED <<startup, routing, recorded, missed, final, listed>>

Executing ==
  /\ RoutingStep
  /\ final' = IF result' # {} THEN result' ELSE final
  /\ UNCHANGED <<startup, recorded, told, missed, listed>>

cancel == Cancel /\ InTable /\ UNCHANGED <<startup, recorded, told, missed, final, listed>>

\* The threshold passes while the job runs.
Persist ==
  /\ boot.persist_after # Unset /\ InTable /\ ~Finished /\ ~recorded
  /\ recorded' = TRUE
  /\ UNCHANGED <<startup, routing, told, missed, final, listed>>

\* The cleanup worker deletes the record of a job whose result was taken.
Cleanup ==
  /\ recorded /\ Finished /\ ~InTable
  /\ recorded' = FALSE
  /\ UNCHANGED <<startup, routing, told, missed, final, listed>>

Leave ==
  /\ config.leaves /\ told = Untold
  /\ Away
  /\ UNCHANGED <<startup, recorded, told, missed, final, listed>>

\* poll_local takes the result out of the table.
poll ==
  IF ~InTable THEN NotFound
  ELSE IF result = {} THEN Pending(status) ELSE Ready(CHOOSE r \in result : TRUE)

Poll(ends, end) ==
  /\ told = Untold
  /\ Polled
  /\ told' = IF ends THEN end ELSE told
  /\ UNCHANGED <<startup, recorded, final, listed>>

\* A redirect to the poll URL is followed; any other response is the end.
poll_job ==
  LET response == poll_by_id(poll) IN
  /\ config.via = "http"
  /\ Poll(response.status = "none", [Untold EXCEPT !.by = "http", !.code = response.code])
  /\ UNCHANGED missed

poll_python ==
  /\ config.via = "python"
  /\ Poll(poll.is # "Pending", [Untold EXCEPT !.by = "python", !.word = poll_outcome_to_py(poll)])
  /\ UNCHANGED missed

\* Another broker asks the owner and passes on what it makes of the answer; an
\* answer that comes after its timeout is lost, and the client told to wait.
poll_relayed(lost) ==
  LET outcome == IF lost THEN Pending("queued")
                 ELSE try_proxy_with_lease(poll_by_id(poll), recorded) IN
  /\ config.via = "relay"
  /\ Poll(outcome.is # "Pending", [Untold EXCEPT !.by = "relay", !.code = poll_by_id(outcome).code])
  /\ missed' = (missed \/ (lost /\ result # {}))

snapshot ==
  /\ InTable
  /\ listed' = active_jobs(cancelled, status, result)
  /\ UNCHANGED <<startup, routing, recorded, told, missed, final>>

Polling == poll_job \/ poll_python \/ \E lost \in BOOLEAN : poll_relayed(lost)

Next ==
  \/ Booting \/ Parsing \/ Calling \/ Dropping
  \/ submit_job \/ submit_overloaded \/ Executing \/ cancel \/ Persist \/ Cleanup
  \/ Leave \/ Polling \/ snapshot

Spec == PipelineInit /\ [][Next]_vars

\* Threads run, actions answer, the cleanup worker works its queue, the client
\* comes back, and not every relayed answer is lost.  The second conjunct is
\* weak fairness of parse_route, which is enabled exactly at "copy".
FairSpec ==
  /\ Spec
  /\ \A t \in Threads : []<>(thread[t].at # "copy")
  /\ WF_vars(Booting) /\ WF_vars(Executing) /\ WF_vars(Cleanup)
  /\ WF_vars(poll_job \/ poll_python \/ poll_relayed(FALSE))

-----------------------------------------------------------------------------
Delivered == told.code \in {200, 303} \/ told.word \in {"success", "redirect"}
MayRetry == told.code \in {429, 529} \/ told.word \in {"overloaded", "rate_limited"}
NoSuchJob == told.code = 404 \/ told.word = "not_found"

\* Nobody is misled about a job.  One listed as processed was, and stays,
\* deliverable until it is taken: the list reads the result without taking it.
\* The client is told that the job was delivered only if it was, with the same
\* kind of payload; that it may retry only if admission was refused; and that
\* there is no such job only if it polls through another broker and the one
\* answer that carried the result was lost or became a redirect to poll again: a
\* failure, a refused admission, or a location that ends in the id of the job.
NeverMisled ==
  /\ listed = "processed" => \A r \in final : is_deliverable(r)
  /\ \A r \in final : told # Untold =>
       /\ Delivered => is_deliverable(r)
       /\ told.code = 303 \/ told.word = "redirect" => r.kind = "Redirect"
       /\ told.code = 400 => r.kind = "Error"
       /\ MayRetry <=> r.kind \in {"RateLimited", "Overloaded"} /\ told.by # "relay"
       /\ NoSuchJob =>
            /\ told.by = "relay"
            /\ missed \/ r.kind \in {"Failed", "Overloaded", "RateLimited"} \/ r.location = "job"

Staffed == \A t \in Threads : \A a \in ActionsOf(thread[t].routes) : a.workers # 0

\* Everyone is answered, whatever the store and the port do.  Startup and every
\* call of add_route come to an end: the attempts to connect are bounded.  A
\* submitted job gets a result, and a client that keeps polling is then told
\* an end.  A queue configured without workers is excluded: nothing refuses it,
\* and its jobs wait until they are cancelled or their client leaves.
CallsAnswered ==
  /\ <>(boot.at \in {"up", "failed", "dropped"})
  /\ \A t \in Adders : Busy(t) ~> ~Busy(t)
  /\ run.at # "none" /\ Staffed ~> told # Untold
=============================================================================
