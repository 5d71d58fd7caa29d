------------------------------ MODULE Outcomes ------------------------------
(***************************************************************************)
(* The conversions an answer goes through on its way to the client: what   *)
(* an action returned, the result of the job, the outcome of a poll, the   *)
(* HTTP response, what a broker that relayed the poll makes of that        *)
(* response, and the dictionary a Python caller sees.                      *)
(*                                                                         *)
(* Texts are left out except the reasons of rejections, which are the      *)
(* names of the actions that gave them.  A location is "object", or "job"  *)
(* when its last path segment is the id of the job itself.                 *)
(***************************************************************************)
EXTENDS Naturals, Sequences

Kinds == {"Success", "Redirect", "Error", "Failed", "Overloaded",
          "RateLimited", "Cancelled", "ClientGone"}

Result(kind) == [kind |-> kind, location |-> "none", reasons |-> <<>>]
Redirect(where) == [Result("Redirect") EXCEPT !.location = where]
Error(reasons) == [Result("Error") EXCEPT !.reasons = reasons]

is_deliverable(result) == result.kind \in {"Success", "Redirect"}

-----------------------------------------------------------------------------
(* What an action answers: it lets the job pass, completes it, rejects it  *)
(* or fails.                                                                *)

Answer(is) == [is |-> is, result |-> Result("Failed"), reasons |-> <<>>, silent |-> FALSE]
Pass == Answer("pass")
Complete(result) == [Answer("complete") EXCEPT !.result = result]
Reject(reasons, silent) == [Answer("reject") EXCEPT !.reasons = reasons, !.silent = silent]
Fails(error) == Answer(error)

\* A Python check or transform returns an instance of the class that lets the
\* job pass, a Reject, anything else, or raises.
PyStep(name, returned) ==
  IF returned = "pass" THEN Pass
  ELSE IF returned \in {"Reject", "RejectSilent"}
       THEN Reject(<<name>>, returned = "RejectSilent")
       ELSE Fails("ConfigError")
PyCheckAdapter(name, returned) == PyStep(name, returned)
PyTransformAdapter(name, returned) == PyStep(name, returned)

PyTargetAdapter(name, returned) ==
  IF returned = "Success" THEN Complete(Result("Success"))
  ELSE IF returned = "Redirect" THEN Complete(Redirect("object"))
  ELSE IF returned = "Error" THEN Complete(Error(<<name>>))
  ELSE IF returned \in {"Reject", "RejectSilent"}
       THEN Reject(<<name>>, returned = "RejectSilent")
       ELSE Fails("ConfigError")

\* The HTTP target: any 2xx is a success, any 4xx a silent rejection, all
\* else, a connection that fails included, an error.
execute(name, status) ==
  IF status = "2xx" THEN Complete(Result("Success"))
  ELSE IF status = "4xx" THEN Reject(<<name>>, TRUE)
       ELSE Fails("NetworkError")

\* The remote pool: what the worker posted, or a worker that was evicted.
WorkerOutcome(name, posted) ==
  IF posted = "data" THEN Complete(Result("Success"))
  ELSE IF posted \in {"object", "job"} THEN Complete(Redirect(posted))
  ELSE IF posted = "reject" THEN Reject(<<name>>, TRUE)
  ELSE IF posted = "error" THEN Complete(Error(<<name>>))
       ELSE Fails("ResourceError")

\* The result of a job from what its router answered.
dispatch(answer) ==
  IF answer.is = "complete" THEN answer.result
  ELSE IF answer.is = "reject" THEN Error(answer.reasons)
  ELSE IF answer.is \in {"Cancelled", "ClientGone"} THEN Result(answer.is)
  ELSE IF answer.is = "QueueFull" THEN Result("Overloaded")
  ELSE IF answer.is = "UserLimitExceeded" THEN Result("RateLimited")
       ELSE Result("Failed")

-----------------------------------------------------------------------------
(* Poll outcomes and HTTP responses *)

Outcome(is, result, status) == [is |-> is, result |-> result, status |-> status]
Ready(result) == Outcome("Ready", result, "none")
Pending(status) == Outcome("Pending", Result("Failed"), status)
NotFound == Outcome("NotFound", Result("Failed"), "none")
JobLost == Outcome("JobLost", Result("Failed"), "none")

Response(code, location, status, retryable, reasons) ==
  [code |-> code, location |-> location, status |-> status,
   retryable |-> retryable, reasons |-> reasons]

json_error(code, reasons) == Response(code, "none", "none", FALSE, reasons)
overloaded_response == Response(529, "none", "none", TRUE, <<>>)
rate_limited_response == Response(429, "none", "none", TRUE, <<>>)

\* A plausible fault: every other result is reported as gone.
result_to_response_merged(result) ==
  IF result.kind = "Success" THEN Response(200, "none", "none", FALSE, <<>>)
  ELSE IF result.kind = "Redirect" THEN Response(303, result.location, "none", FALSE, <<>>)
  ELSE json_error(410, <<>>)

result_to_response(result) ==
  IF result.kind = "Success" THEN Response(200, "none", "none", FALSE, <<>>)
  ELSE IF result.kind = "Redirect" THEN Response(303, result.location, "none", FALSE, <<>>)
  ELSE IF result.kind = "Error" THEN json_error(400, result.reasons)
  ELSE IF result.kind = "Failed" THEN json_error(500, <<>>)
  ELSE IF result.kind = "Overloaded" THEN overloaded_response
  ELSE IF result.kind = "RateLimited" THEN rate_limited_response
       ELSE json_error(410, <<>>)

\* A pending job is a redirect to its own poll URL with its status beside it.
poll_by_id(outcome) ==
  IF outcome.is = "Ready" THEN result_to_response(outcome.result)
  ELSE IF outcome.is = "Pending" THEN Response(303, "job", outcome.status, FALSE, <<>>)
  ELSE IF outcome.is = "NotFound" THEN json_error(404, <<>>)
       ELSE json_error(410, <<>>)

\* The status header, or queued when it is absent.
from_header(status) == IF status = "processing" THEN "processing" ELSE "queued"

\* What a broker makes of the owner's 404.
owner_not_found_outcome(recorded) == IF recorded THEN Pending("queued") ELSE NotFound

\* The poll outcome a relaying broker rebuilds from the owner's response.
try_proxy_with_lease(response, recorded) ==
  IF response.code = 200 THEN Ready(Result("Success"))
  ELSE IF response.code = 303
       THEN IF response.location \in {"none", "job"}
            THEN Pending(from_header(response.status))
            ELSE Ready(Redirect(response.location))
  ELSE IF response.code = 404 THEN owner_not_found_outcome(recorded)
  ELSE IF response.code = 400 THEN Ready(Error(response.reasons))
  ELSE IF response.code = 410 THEN Ready(Result("Cancelled"))
       ELSE Pending("queued")

-----------------------------------------------------------------------------
(* What other observers see *)

\* The status of the dictionary a Python caller gets for a result.
job_result_to_py(result) ==
  [Success |-> "success", Redirect |-> "redirect", Error |-> "error", Failed |-> "failed",
   Overloaded |-> "overloaded", RateLimited |-> "rate_limited",
   Cancelled |-> "cancelled", ClientGone |-> "client_gone"][result.kind]

poll_outcome_to_py(outcome) ==
  IF outcome.is = "Ready" THEN job_result_to_py(outcome.result)
  ELSE [Pending |-> "pending", NotFound |-> "not_found", JobLost |-> "job_lost"][outcome.is]

\* The status of a job in the list of active jobs.
active_jobs(cancelled, status, results) ==
  IF \E result \in results : is_deliverable(result) THEN "processed"
  ELSE IF cancelled \/ results # {} THEN "failed"
       ELSE status
=============================================================================
