--------------------------- MODULE PipelineProofs ---------------------------
(***************************************************************************)
(* Proofs about the jobs of modules Routing and Pipeline.  For any         *)
(* configurations, any number of threads that add routes, and any parser,  *)
(* nobody is misled about how a job ended.  For any routers, routes of any *)
(* length, switches nested to any depth, every answer of every action, and *)
(* cancellations, absences and polls at any moment, a job goes through its *)
(* router as it should; and the jobs of the broker are such jobs.          *)
(***************************************************************************)
EXTENDS Pipeline, WellFoundedInduction, TLAPS

-----------------------------------------------------------------------------
(* The results of jobs *)

\* What the actions can make of a job: a location comes with every redirect.
Sane(r) == r.kind \in Kinds /\ (r.kind = "Redirect" => r.location \in {"object", "job"})

\* The results the conversions of Outcomes build.
LEMMA SaneResults ==
  /\ \A kind \in Kinds \ {"Redirect"} : Sane(Result(kind))
  /\ \A where \in {"object", "job"} : Sane(Redirect(where))
  /\ \A reasons : Sane(Error(reasons))
BY DEF Sane, Kinds, Result, Redirect, Error

\* An action that completes a job gives it a result with a location if that is
\* where the payload is.
LEMMA SaneAnswers ==
  ASSUME NEW action, NEW answer \in Answers(action), answer.is = "complete"
  PROVE  Sane(answer.result)
<1>1. PICK x : \/ answer = PyStep(action.name, x)
               \/ answer = execute(action.name, x)
               \/ answer = WorkerOutcome(action.name, x)
               \/ answer = PyTargetAdapter(action.name, x)
  BY Zenon DEF Answers, PyCheckAdapter, PyTransformAdapter
<1>c. \A r : Complete(r).result = r
  BY DEF Complete, Answer
<1>2. /\ Pass.is # "complete"
      /\ \A r, s : Reject(r, s).is # "complete"
      /\ Fails("ConfigError").is # "complete" /\ Fails("NetworkError").is # "complete"
      /\ Fails("ResourceError").is # "complete"
  BY DEF Pass, Complete, Reject, Fails, Answer
<1>3. "Success" \in Kinds \ {"Redirect"}
  BY DEF Kinds
<1>4. \/ answer = Complete(Result("Success"))
      \/ \E where \in {"object", "job"} : answer = Complete(Redirect(where))
      \/ \E reasons : answer = Complete(Error(reasons))
  <2>1. CASE answer = PyStep(action.name, x)
    <3>1. answer = Pass \/ (\E r, s : answer = Reject(r, s)) \/ answer = Fails("ConfigError")
      BY Zenon, <2>1 DEF PyStep
    <3> QED
      BY Zenon, <1>2, <3>1
  <2>2. CASE answer = execute(action.name, x)
    BY Zenon, <1>2, <2>2 DEF execute
  <2>3. CASE answer = WorkerOutcome(action.name, x)
    BY Zenon, <1>2, <2>3 DEF WorkerOutcome
  <2>4. CASE answer = PyTargetAdapter(action.name, x)
    <3>1. \/ answer = Complete(Result("Success")) \/ answer = Complete(Redirect("object"))
          \/ answer = Complete(Error(<<action.name>>))
          \/ (\E r, s : answer = Reject(r, s)) \/ answer = Fails("ConfigError")
      BY Zenon, <2>4 DEF PyTargetAdapter
    <3> QED
      BY Zenon, <1>2, <3>1
  <2> QED
    BY ZenonT(100), <1>1, <2>1, <2>2, <2>3, <2>4
<1> QED
  BY Zenon, <1>c, <1>3, <1>4, SaneResults

\* The job gets a sane result from whatever its router answered.
LEMMA SaneDispatch ==
  ASSUME NEW answer, answer.is = "complete" => Sane(answer.result)
  PROVE  Sane(dispatch(answer))
<1>1. {"Cancelled", "ClientGone", "Overloaded", "RateLimited", "Failed"} \subseteq Kinds \ {"Redirect"}
  BY DEF Kinds
<1> QED
  BY Zenon, <1>1, SaneResults DEF dispatch

-----------------------------------------------------------------------------
(* One job *)

Running == {"gate", "act", "worker"}
Ended == {"done", "rejected"}

\* A step of the router leaves the job running, or ends it with one result.
LEMMA RouterStep ==
  ASSUME RoutingStep, run = [at |-> run.at, stack |-> run.stack]
  PROVE  /\ run.at \in Running
         /\ run' = [at |-> run'.at, stack |-> run'.stack]
         /\ \/ run'.at \in Running /\ result' = result
            \/ run'.at \in Ended /\ \E r : Sane(r) /\ result' = {r}
         /\ status' \in {status, "processing"}
         /\ UNCHANGED cancelled
<1>0. /\ \A at, stack : [at |-> at, stack |-> stack].at = at /\ [at |-> at, stack |-> stack].stack = stack
      /\ Running = {"gate", "act", "worker"} /\ Ended = {"done", "rejected"}
  BY DEF Running, Ended
<1>f. ASSUME NEW answer, Finish(answer), answer.is = "complete" => Sane(answer.result)
      PROVE  /\ run' = [at |-> run'.at, stack |-> run'.stack]
             /\ run'.at \in Ended /\ \E r : Sane(r) /\ result' = {r}
  BY Zenon, <1>0, <1>f, SaneDispatch DEF Finish
<1>e. /\ Fails("Cancelled").is # "complete" /\ Fails("UserLimitExceeded").is # "complete"
      /\ Fails("QueueFull").is # "complete" /\ Fails("ClientGone").is # "complete"
      /\ \A reasons, silent : Reject(reasons, silent).is # "complete"
  BY DEF Fails, Answer, Reject
<1>1. CASE SwitchEnds
  <2>1. CASE Len(run.stack) = 1
    <3>1. run' = [at |-> "rejected", stack |-> <<>>]
          /\ result' = {dispatch(Reject(Top.reasons, Top.reasons = <<>>))}
      BY Zenon, <1>1, <2>1 DEF SwitchEnds
    <3>2. \A reasons, silent : Sane(dispatch(Reject(reasons, silent)))
      <4> TAKE reasons, silent
      <4>1. PICK a : a = Reject(reasons, silent)
        OBVIOUS
      <4>2. Sane(dispatch(a))
        BY ZenonT(100), <1>e, <4>1, SaneDispatch
      <4> QED
        BY Zenon, <4>1, <4>2
    <3> QED
      BY ZenonT(100), <1>0, <1>1, <3>1, <3>2 DEF SwitchEnds
  <2>2. CASE Len(run.stack) # 1
    <3>1. \E stack : run' = [at |-> "gate", stack |-> stack] /\ result' = result
      BY Zenon, <1>1, <2>2 DEF SwitchEnds
    <3> QED
      BY Zenon, <1>0, <1>1, <3>1 DEF SwitchEnds
  <2> QED
    BY Zenon, <2>1, <2>2
<1>2. CASE Gate
  <2>1. CASE cancelled
    BY ZenonT(100), <1>0, <1>2, <1>e, <1>f, <2>1 DEF Gate, Begin
  <2>2. CASE ~cancelled
    <3>1. run' = [at |-> "act", stack |-> run.stack] /\ result' = result
      BY SMTT(60), <1>2, <2>2 DEF Gate, Begin
    <3> QED
      BY ZenonT(100), <1>0, <1>2, <3>1 DEF Gate
  <2> QED
    BY Zenon, <2>1, <2>2
<1>3. CASE Descend
  BY Zenon, <1>0, <1>3 DEF Descend
<1>4. CASE Turned
  <2>1. \E answer : Finish(answer) /\ answer.is # "complete"
    BY Zenon, <1>4, <1>e DEF Turned
  <2> QED
    BY ZenonT(100), <1>0, <1>4, <1>f, <2>1 DEF Turned
<1>5. CASE PickUp
  <2>1. run' = [at |-> "worker", stack |-> run.stack] /\ result' = result
    BY <1>5 DEF PickUp
  <2> QED
    BY ZenonT(100), <1>0, <1>5, <2>1 DEF PickUp
<1>6. CASE Perform
  <2>1. run.at \in {"act", "worker"} /\ UNCHANGED <<status, cancelled>>
    BY Zenon, <1>6 DEF Perform
  <2>2. PICK answer \in Answers(Action) :
          \/ \E f : GoOn(f) /\ result' = result
          \/ Finish(answer)
    BY Zenon, <1>6 DEF Perform
  <2>3. CASE \E f : GoOn(f) /\ result' = result
    BY ZenonT(100), <1>0, <2>1, <2>3 DEF GoOn
  <2>4. CASE Finish(answer)
    BY ZenonT(100), <1>0, <1>f, <2>1, <2>4, SaneAnswers
  <2> QED
    BY ZenonT(100), <2>2, <2>3, <2>4
<1> QED
  BY ZenonT(100), <1>1, <1>2, <1>3, <1>4, <1>5, <1>6 DEF RoutingStep
-----------------------------------------------------------------------------
(* What a client is told *)

End(by, code, word) == [by |-> by, code |-> code, word |-> word]

\* An end that does not mislead about the result r; excuse: the answer that
\* carried the result was lost or became a redirect to poll again.
TruthOf(end, excuse, r) ==
  /\ end.code \in {200, 303} \/ end.word \in {"success", "redirect"} => is_deliverable(r)
  /\ end.code = 303 \/ end.word = "redirect" => r.kind = "Redirect"
  /\ end.code = 400 => r.kind = "Error"
  /\ (end.code \in {429, 529} \/ end.word \in {"overloaded", "rate_limited"})
     <=> (r.kind \in {"RateLimited", "Overloaded"} /\ end.by # "relay")
  /\ end.code = 404 \/ end.word = "not_found" => end.by = "relay" /\ excuse

\* The response to a result, by its kind.
LEMMA Responses ==
  ASSUME NEW r, Sane(r)
  PROVE  LET response == result_to_response(r) IN
         /\ response.status = "none"
         /\ r.kind = "Success" => response.code = 200
         /\ r.kind = "Redirect" => response.code = 303 /\ response.location = r.location
         /\ r.kind = "Error" => response.code = 400
         /\ r.kind = "Failed" => response.code = 500
         /\ r.kind = "Overloaded" => response.code = 529
         /\ r.kind = "RateLimited" => response.code = 429
         /\ r.kind \in {"Cancelled", "ClientGone"} => response.code = 410
BY DEF result_to_response, Response, json_error, overloaded_response, rate_limited_response

\* A poll over HTTP that finds the result tells the truth about it.
LEMMA HttpEnd ==
  ASSUME NEW r, Sane(r), NEW excuse
  PROVE  TruthOf(End("http", result_to_response(r).code, "none"), excuse, r)
<1>1. PICK c : c = result_to_response(r).code
  OBVIOUS
<1>2. /\ r.kind = "Success" => c = 200
      /\ r.kind = "Redirect" => c = 303
      /\ r.kind = "Error" => c = 400
      /\ r.kind = "Failed" => c = 500
      /\ r.kind = "Overloaded" => c = 529
      /\ r.kind = "RateLimited" => c = 429
      /\ r.kind \in {"Cancelled", "ClientGone"} => c = 410
  BY SMTT(60), <1>1, Responses
<1>3. TruthOf(End("http", c, "none"), excuse, r)
  BY <1>2 DEF TruthOf, End, Sane, Kinds, is_deliverable
<1> QED
  BY Zenon, <1>1, <1>3

\* A poll from Python that finds the result tells the truth about it.
LEMMA PythonEnd ==
  ASSUME NEW r, Sane(r), NEW excuse
  PROVE  TruthOf(End("python", 0, job_result_to_py(r)), excuse, r)
<1>1. PICK w : w = job_result_to_py(r)
  OBVIOUS
<1>2. /\ r.kind = "Success" => w = "success"
      /\ r.kind = "Redirect" => w = "redirect"
      /\ r.kind = "Error" => w = "error"
      /\ r.kind = "Failed" => w = "failed"
      /\ r.kind = "Overloaded" => w = "overloaded"
      /\ r.kind = "RateLimited" => w = "rate_limited"
      /\ r.kind = "Cancelled" => w = "cancelled"
      /\ r.kind = "ClientGone" => w = "client_gone"
  BY <1>1 DEF job_result_to_py
<1>3. TruthOf(End("python", 0, w), excuse, r)
  BY <1>2 DEF TruthOf, End, Sane, Kinds, is_deliverable
<1> QED
  BY Zenon, <1>1, <1>3

\* A poll outcome with a result is the response to that result.
LEMMA ReadyFacts ==
  /\ \A r : Ready(r).is = "Ready" /\ poll_by_id(Ready(r)) = result_to_response(r)
  /\ \A st : Pending(st).is = "Pending" /\ poll_by_id(Pending(st)) = Response(303, "job", st, FALSE, <<>>)
  /\ NotFound.is = "NotFound" /\ poll_by_id(NotFound) = json_error(404, <<>>)
<1>1. /\ \A r : Ready(r).is = "Ready" /\ Ready(r).result = r
      /\ \A st : Pending(st).is = "Pending" /\ Pending(st).status = st
      /\ NotFound.is = "NotFound"
  BY DEF Ready, Pending, NotFound, Outcome
<1> QED
  BY ZenonT(100), <1>1 DEF poll_by_id

\* What a relaying broker makes of the owner's response with the result: an end
\* that is true, or a reason to poll again.
LEMMA RelayEnd ==
  ASSUME NEW r, Sane(r), NEW excuse, NEW known,
         NEW outcome, outcome = try_proxy_with_lease(poll_by_id(Ready(r)), known)
  PROVE  /\ outcome.is # "Pending" => TruthOf(End("relay", poll_by_id(outcome).code, "none"), excuse, r)
         /\ outcome.is = "Pending" =>
              r.kind \in {"Failed", "Overloaded", "RateLimited"} \/ r.location = "job"
<1>1. PICK response : response = result_to_response(r)
  OBVIOUS
<1>2. outcome = try_proxy_with_lease(response, known)
  BY ZenonT(100), <1>1, ReadyFacts
<1>3. /\ Result("Success").kind = "Success" /\ Result("Cancelled").kind = "Cancelled"
      /\ \A reasons : Error(reasons).kind = "Error"
      /\ \A where : Redirect(where).kind = "Redirect"
      /\ Redirect("object").location = "object"
  BY DEF Result, Error, Redirect
<1>4. Sane(Result("Success")) /\ Sane(Result("Cancelled")) /\ (\A reasons : Sane(Error(reasons)))
      /\ Sane(Redirect("object"))
  BY <1>3 DEF Sane, Kinds
<1>5. ASSUME NEW x, Sane(x), outcome = Ready(x)
      PROVE  outcome.is # "Pending" /\ poll_by_id(outcome).code = result_to_response(x).code
  BY ZenonT(100), <1>5, ReadyFacts
<1>6. CASE r.kind = "Success"
  <2>1. outcome = Ready(Result("Success"))
    <3>1. response.code = 200
      BY SMTT(60), <1>1, <1>6, Responses
    <3> QED
      BY SMTT(60), <1>2, <3>1 DEF try_proxy_with_lease
  <2>2. result_to_response(Result("Success")).code = 200
    BY SMTT(60), <1>3, <1>4, Responses
  <2>3. outcome.is # "Pending" /\ poll_by_id(outcome).code = 200
    BY SMTT(60), <1>4, <1>5, <2>1, <2>2
  <2> QED
    BY SMTT(60), <1>6, <2>3 DEF TruthOf, End, is_deliverable
<1>7. CASE r.kind = "Redirect"
  <2>1. response.code = 303 /\ response.location = r.location
    BY SMTT(60), <1>1, <1>7, Responses
  <2>2. CASE r.location = "object"
    <3>1. outcome = Ready(Redirect("object"))
      BY SMTT(60), <1>2, <2>1, <2>2 DEF try_proxy_with_lease
    <3>2. result_to_response(Redirect("object")).code = 303
      BY SMTT(60), <1>3, <1>4, Responses
    <3>3. outcome.is # "Pending" /\ poll_by_id(outcome).code = 303
      BY SMTT(60), <1>4, <1>5, <3>1, <3>2
    <3> QED
      BY SMTT(60), <1>7, <3>3 DEF TruthOf, End, is_deliverable
  <2>3. CASE r.location = "job"
    <3>1. outcome.is = "Pending"
      BY SMTT(60), <1>2, <2>1, <2>3, ReadyFacts DEF try_proxy_with_lease
    <3> QED
      BY ZenonT(100), <2>3, <3>1
  <2> QED
    BY ZenonT(100), <1>7, <2>2, <2>3 DEF Sane
<1>8. CASE r.kind = "Error"
  <2>1. outcome = Ready(Error(response.reasons))
    <3>1. response.code = 400
      BY SMTT(60), <1>1, <1>8, Responses
    <3> QED
      BY SMTT(60), <1>2, <3>1 DEF try_proxy_with_lease
  <2>2. result_to_response(Error(response.reasons)).code = 400
    BY SMTT(60), <1>3, <1>4, Responses
  <2>3. outcome.is # "Pending" /\ poll_by_id(outcome).code = 400
    BY SMTT(60), <1>4, <1>5, <2>1, <2>2
  <2> QED
    BY SMTT(60), <1>8, <2>3 DEF TruthOf, End, is_deliverable
<1>9. CASE r.kind \in {"Cancelled", "ClientGone"}
  <2>1. outcome = Ready(Result("Cancelled"))
    <3>1. response.code = 410
      BY SMTT(60), <1>1, <1>9, Responses
    <3> QED
      BY SMTT(60), <1>2, <3>1 DEF try_proxy_with_lease
  <2>2. result_to_response(Result("Cancelled")).code = 410
    BY SMTT(60), <1>3, <1>4, Responses
  <2>3. outcome.is # "Pending" /\ poll_by_id(outcome).code = 410
    BY SMTT(60), <1>4, <1>5, <2>1, <2>2
  <2> QED
    BY SMTT(60), <1>9, <2>3 DEF TruthOf, End, is_deliverable
<1>10. CASE r.kind \in {"Failed", "Overloaded", "RateLimited"}
  <2>1. response.code \in {500, 529, 429}
    BY SMTT(60), <1>1, <1>10, Responses
  <2>2. outcome = Pending("queued")
    BY SMTT(60), <1>2, <2>1 DEF try_proxy_with_lease
  <2> QED
    BY ZenonT(100), <1>10, <2>2, ReadyFacts
<1> QED
  BY Zenon, <1>6, <1>7, <1>8, <1>9, <1>10 DEF Sane, Kinds

\* A relaying broker tells the client to wait while the job runs.
LEMMA RelayWaits ==
  ASSUME NEW st, NEW known
  PROVE  try_proxy_with_lease(poll_by_id(Pending(st)), known).is = "Pending"
<1>1. PICK response : response = poll_by_id(Pending(st))
  OBVIOUS
<1>2. response.code = 303 /\ response.location = "job"
  BY SMTT(60), <1>1, ReadyFacts DEF Response
<1>3. try_proxy_with_lease(response, known) = Pending(from_header(response.status))
  BY SMTT(60), <1>2 DEF try_proxy_with_lease
<1> QED
  BY ZenonT(100), <1>1, <1>3, ReadyFacts

\* A relaying broker that learns that the owner has no such job says so, unless
\* the store still has the record.
LEMMA RelayGone ==
  ASSUME NEW known, NEW outcome, outcome = try_proxy_with_lease(poll_by_id(NotFound), known)
  PROVE  outcome.is # "Pending" => poll_by_id(outcome).code = 404
<1>1. PICK response : response = poll_by_id(NotFound)
  BY SMTT(60)
<1>2. response.code = 404
  BY SMTT(60), <1>1, ReadyFacts DEF json_error, Response
<1>3. outcome = owner_not_found_outcome(known)
  BY SMTT(60), <1>1, <1>2 DEF try_proxy_with_lease
<1>4. outcome = NotFound \/ outcome = Pending("queued")
  BY ZenonT(100), <1>3 DEF owner_not_found_outcome
<1> QED
  BY SMTT(60), <1>1, <1>2, <1>4, ReadyFacts
-----------------------------------------------------------------------------
(* The job and its client *)

Excused(r) == missed \/ r.kind \in {"Failed", "Overloaded", "RateLimited"} \/ r.location = "job"

\* The inductive invariant of one job.  It has no result until it ends, and then
\* one, which is in the table until a poll takes it; a client that took it and
\* was told nothing polls through another broker and has an excuse.
JobOk ==
  /\ run = [at |-> run.at, stack |-> run.stack]
  /\ run.at \in Running \cup Ended \cup {"none"}
  /\ status \in {"queued", "processing"}
  /\ run.at \notin Ended => result = {} /\ final = {}
  /\ run.at \in Ended => \E r : Sane(r) /\ final = {r} /\ result \in {{}, {r}}
  /\ run.at \in Running => told = Untold
  /\ told = Untold /\ run.at \in Ended /\ result = {} =>
       config.via = "relay" /\ \A r \in final : Excused(r)
  /\ told # Untold => \A r \in final : TruthOf(told, Excused(r), r)
  /\ listed = "processed" => run.at \in Ended /\ \A r \in final : is_deliverable(r)

\* The definitions of NeverMisled and of JobOk say the same of an end.
LEMMA JobOkSuffices == JobOk => NeverMisled
<1> SUFFICES ASSUME JobOk, NEW r \in final, told # Untold, TruthOf(told, Excused(r), r)
             PROVE  /\ Delivered => is_deliverable(r)
                    /\ told.code = 303 \/ told.word = "redirect" => r.kind = "Redirect"
                    /\ told.code = 400 => r.kind = "Error"
                    /\ MayRetry <=> r.kind \in {"RateLimited", "Overloaded"} /\ told.by # "relay"
                    /\ NoSuchJob =>
                         /\ told.by = "relay"
                         /\ missed \/ r.kind \in {"Failed", "Overloaded", "RateLimited"} \/ r.location = "job"
  BY ZenonT(100) DEF JobOk, NeverMisled
<1> QED
  BY DEF TruthOf, Excused, Delivered, MayRetry, NoSuchJob

\* At first there is no job and nobody was told anything.
LEMMA JobOkFirst == PipelineInit => JobOk
BY DEF PipelineInit, RoutingInit, NotRun, JobOk, Running, Ended

\* The job starts.
LEMMA JobOkStart == ASSUME JobOk, submit_job PROVE JobOk'
<1>1. PICK t \in Threads : Start(thread[t].routes)
  BY Zenon DEF submit_job
<1>2. /\ run.at = "none" /\ told = Untold
      /\ run' = [at |-> "gate", stack |-> <<Frame(thread[t].routes, {})>>]
      /\ UNCHANGED <<status, result, told, missed, final, listed, config>>
  BY ZenonT(100), <1>1 DEF submit_job, Start, startup
<1>3. run'.at = "gate" /\ run' = [at |-> run'.at, stack |-> run'.stack]
  BY SMTT(60), <1>2
<1>4. run.at \notin Ended /\ run'.at \notin Ended /\ run'.at \in Running
  BY SMTT(60), <1>2, <1>3 DEF Ended, Running
<1>5. result = {} /\ final = {} /\ status \in {"queued", "processing"} /\ listed # "processed"
  BY ZenonT(100), <1>4 DEF JobOk
<1> QED
  BY Zenon, <1>2, <1>3, <1>4, <1>5 DEF JobOk

\* The job runs, and ends.
LEMMA JobOkExecuting == ASSUME JobOk, Executing PROVE JobOk'
<1>1. /\ RoutingStep /\ final' = IF result' # {} THEN result' ELSE final
      /\ UNCHANGED <<told, missed, listed, config>>
  BY Zenon DEF Executing, startup
<1>2. /\ run.at \in Running
      /\ run' = [at |-> run'.at, stack |-> run'.stack]
      /\ \/ run'.at \in Running /\ result' = result
         \/ run'.at \in Ended /\ \E r : Sane(r) /\ result' = {r}
      /\ status' \in {status, "processing"}
  BY ZenonT(100), <1>1, RouterStep DEF JobOk
<1>3. Running \cap Ended = {}
  BY DEF Running, Ended
<1>4. told = Untold /\ result = {} /\ final = {} /\ status' \in {"queued", "processing"}
      /\ listed' # "processed"
  BY ZenonT(100), <1>1, <1>2, <1>3 DEF JobOk
<1>5. CASE run'.at \in Running /\ result' = result
  <2>1. run'.at \notin Ended /\ final' = {}
    BY ZenonT(100), <1>1, <1>3, <1>4, <1>5
  <2> QED
    BY ZenonT(100), <1>1, <1>2, <1>4, <1>5, <2>1 DEF JobOk
<1>6. CASE run'.at \in Ended /\ \E r : Sane(r) /\ result' = {r}
  <2>1. PICK r : Sane(r) /\ result' = {r}
    BY Zenon, <1>6
  <2>2. result' # {} /\ final' = {r} /\ run'.at \notin Running
    BY ZenonT(100), <1>1, <1>3, <1>6, <2>1
  <2> QED
    BY ZenonT(100), <1>1, <1>2, <1>4, <1>6, <2>1, <2>2 DEF JobOk
<1> QED
  BY ZenonT(100), <1>2, <1>5, <1>6

\* A poll that finds the job running, its result, or nothing: what it gets, and
\* what is left of the result.
LEMMA PollSees ==
  ASSUME JobOk, run.at # "none"
  PROVE  \/ run.at \in Running /\ result = {} /\ poll = Pending(status)
         \/ /\ run.at \in Ended
            /\ \E r : Sane(r) /\ final = {r} /\ result = {r} /\ poll = Ready(r)
         \/ run.at \in Ended /\ result = {} /\ poll = NotFound
<1>1. Finished <=> run.at \in Ended
  BY Zenon DEF Finished, Ended
<1>2. Running \cap Ended = {}
  BY DEF Running, Ended
<1>3. CASE run.at \in Running
  <2>1. InTable /\ result = {}
    BY ZenonT(100), <1>1, <1>2, <1>3 DEF JobOk, InTable
  <2> QED
    BY ZenonT(100), <1>3, <2>1 DEF poll
<1>4. CASE run.at \in Ended /\ result # {}
  <2>1. PICK r : Sane(r) /\ final = {r} /\ result = {r}
    BY Zenon, <1>4 DEF JobOk
  <2>2. InTable /\ (CHOOSE x \in result : TRUE) = r
    BY ZenonT(100), <1>1, <1>4, <2>1 DEF InTable
  <2>3. poll = Ready(r)
    BY ZenonT(100), <1>4, <2>2 DEF poll
  <2> QED
    BY ZenonT(100), <1>4, <2>1, <2>3
<1>5. CASE run.at \in Ended /\ result = {}
  <2>1. ~InTable
    BY ZenonT(100), <1>1, <1>5 DEF InTable
  <2> QED
    BY ZenonT(100), <1>5, <2>1 DEF poll
<1> QED
  BY ZenonT(100), <1>3, <1>4, <1>5 DEF JobOk

\* What keeps JobOk over a poll: the client is told nothing while the job runs,
\* and the truth, or nothing with an excuse, once it has ended.
LEMMA JobOkPolled ==
  ASSUME JobOk, told = Untold, Polled, UNCHANGED <<config, final, listed>>,
         missed => missed',
         run.at \in Running => told' = Untold,
         run.at \in Ended /\ told' = Untold => config.via = "relay" /\ \A r \in final : Excused(r)',
         run.at \in Ended /\ told' # Untold => \A r \in final : TruthOf(told', Excused(r)', r)
  PROVE  JobOk'
<1>1. run.at # "none" /\ result' = {} /\ UNCHANGED <<run, status>>
  BY Zenon DEF Polled
<1>2. Running \cap Ended = {}
  BY DEF Running, Ended
<1>3. run.at \in Ended => \E r : Sane(r) /\ final = {r}
  BY Zenon DEF JobOk
<1>4. run.at \notin Ended => final = {}
  BY Zenon DEF JobOk
<1> QED
  BY ZenonT(100), <1>1, <1>2, <1>3, <1>4 DEF JobOk

\* The ends the polls build.
LEMMA Ends ==
  /\ \A by, code : [Untold EXCEPT !.by = by, !.code = code] = End(by, code, "none")
  /\ \A by, word : [Untold EXCEPT !.by = by, !.word = word] = End(by, 0, word)
  /\ \A by \in {"http", "python", "relay"} : \A code, word : End(by, code, word) # Untold
<1>1. ASSUME NEW by, NEW code PROVE [Untold EXCEPT !.by = by, !.code = code] = End(by, code, "none")
  <2>1. PICK u : u = [Untold EXCEPT !.by = by]
    BY ZenonT(100)
  <2>2. u = [by |-> by, code |-> 0, word |-> "none"]
    BY SMT, <2>1 DEF Untold
  <2>3. [u EXCEPT !.code = code] = [by |-> by, code |-> code, word |-> "none"]
    BY SMTT(60), <2>2
  <2>4. [[Untold EXCEPT !.by = by] EXCEPT !.code = code] = [by |-> by, code |-> code, word |-> "none"]
    BY ZenonT(100), <2>1, <2>3
  <2>5. [Untold EXCEPT !.by = by, !.code = code] = [[Untold EXCEPT !.by = by] EXCEPT !.code = code]
    OBVIOUS
  <2> QED
    BY ZenonT(100), <2>4, <2>5 DEF End
<1>2. ASSUME NEW by, NEW word PROVE [Untold EXCEPT !.by = by, !.word = word] = End(by, 0, word)
  <2>1. PICK u : u = [Untold EXCEPT !.by = by]
    OBVIOUS
  <2>2. u = [by |-> by, code |-> 0, word |-> "none"]
    BY SMT, <2>1 DEF Untold
  <2>3. [u EXCEPT !.word = word] = [by |-> by, code |-> 0, word |-> word]
    BY SMTT(60), <2>2
  <2>4. [[Untold EXCEPT !.by = by] EXCEPT !.word = word] = [by |-> by, code |-> 0, word |-> word]
    BY ZenonT(100), <2>1, <2>3
  <2>5. [Untold EXCEPT !.by = by, !.word = word] = [[Untold EXCEPT !.by = by] EXCEPT !.word = word]
    OBVIOUS
  <2> QED
    BY ZenonT(100), <2>4, <2>5 DEF End
<1>3. ASSUME NEW by \in {"http", "python", "relay"}, NEW code, NEW word PROVE End(by, code, word) # Untold
  <2>1. End(by, code, word).by = by /\ Untold.by = "none"
    BY DEF Untold, End
  <2> QED
    BY ZenonT(100), <1>3, <2>1
<1> QED
  BY ZenonT(100), <1>1, <1>2, <1>3

\* A poll over HTTP.
LEMMA JobOkHttp == ASSUME JobOk, poll_job PROVE JobOk'
<1>1. PICK response : response = poll_by_id(poll)
  OBVIOUS
<1>2. /\ config.via = "http" /\ told = Untold /\ Polled /\ UNCHANGED <<config, final, listed, missed>>
      /\ told' = IF response.status = "none" THEN [Untold EXCEPT !.by = "http", !.code = response.code] ELSE told
  BY Zenon, <1>1 DEF poll_job, Poll, startup
<1>3. [Untold EXCEPT !.by = "http", !.code = response.code] = End("http", response.code, "none")
      /\ End("http", response.code, "none") # Untold
  BY ZenonT(100), Ends
<1>4. run.at # "none"
  BY ZenonT(100), <1>2 DEF Polled
<1>5. CASE run.at \in Running /\ result = {} /\ poll = Pending(status)
  <2>1. response.status = status /\ status # "none"
    BY SMTT(60), <1>1, <1>5, ReadyFacts DEF Response, JobOk
  <2>2. told' = Untold /\ run.at \notin Ended
    BY ZenonT(100), <1>2, <1>5, <2>1 DEF Running, Ended
  <2> QED
    BY ZenonT(100), <1>2, <2>2, JobOkPolled
<1>6. CASE run.at \in Ended /\ \E r : Sane(r) /\ final = {r} /\ result = {r} /\ poll = Ready(r)
  <2>1. PICK r : Sane(r) /\ final = {r} /\ poll = Ready(r)
    BY ZenonT(100), <1>6
  <2>2. response = result_to_response(r)
    BY ZenonT(100), <1>1, <2>1, ReadyFacts
  <2>3. response.status = "none"
    BY SMTT(60), <2>1, <2>2, Responses
  <2>4. told' = End("http", response.code, "none")
    BY ZenonT(100), <1>2, <1>3, <2>3
  <2>5. TruthOf(told', Excused(r)', r)
    BY ZenonT(100), <2>1, <2>2, <2>4, HttpEnd
  <2>6. run.at \notin Running
    BY SMTT(60), <1>6 DEF Running, Ended
  <2> QED
    BY ZenonT(100), <1>2, <1>3, <2>1, <2>4, <2>5, <2>6, JobOkPolled
<1>7. CASE run.at \in Ended /\ result = {} /\ poll = NotFound
  <2>1. config.via = "relay"
    BY ZenonT(100), <1>2, <1>7 DEF JobOk
  <2> QED
    BY ZenonT(100), <1>2, <2>1
<1> QED
  BY ZenonT(100), <1>4, <1>5, <1>6, <1>7, PollSees

\* A poll from Python.
LEMMA JobOkPython == ASSUME JobOk, poll_python PROVE JobOk'
<1>2. /\ config.via = "python" /\ told = Untold /\ Polled /\ UNCHANGED <<config, final, listed, missed>>
      /\ told' = IF poll.is # "Pending" THEN End("python", 0, poll_outcome_to_py(poll)) ELSE told
  BY ZenonT(100), Ends DEF poll_python, Poll, startup
<1>4. run.at # "none"
  BY Zenon, <1>2 DEF Polled
<1>5. CASE run.at \in Running /\ result = {} /\ poll = Pending(status)
  <2>1. told' = Untold /\ run.at \notin Ended
    BY ZenonT(100), <1>2, <1>5, ReadyFacts DEF Running, Ended
  <2> QED
    BY ZenonT(100), <1>2, <2>1, JobOkPolled
<1>6. CASE run.at \in Ended /\ \E r : Sane(r) /\ final = {r} /\ result = {r} /\ poll = Ready(r)
  <2>1. PICK r : Sane(r) /\ final = {r} /\ poll = Ready(r)
    BY Zenon, <1>6
  <2>2. poll.is = "Ready" /\ poll.result = r
    BY <2>1 DEF Ready, Outcome
  <2>3. poll_outcome_to_py(poll) = job_result_to_py(r)
    BY Zenon, <2>2 DEF poll_outcome_to_py
  <2>4. told' = End("python", 0, job_result_to_py(r)) /\ told' # Untold
    BY ZenonT(100), <1>2, <2>2, <2>3, Ends
  <2>5. TruthOf(told', Excused(r)', r)
    BY ZenonT(100), <2>1, <2>4, PythonEnd
  <2>6. run.at \notin Running
    BY <1>6 DEF Running, Ended
  <2> QED
    BY ZenonT(100), <1>2, <2>1, <2>4, <2>5, <2>6, JobOkPolled
<1>7. CASE run.at \in Ended /\ result = {} /\ poll = NotFound
  <2>1. config.via = "relay"
    BY ZenonT(100), <1>2, <1>7 DEF JobOk
  <2> QED
    BY ZenonT(100), <1>2, <2>1
<1> QED
  BY Zenon, <1>4, <1>5, <1>6, <1>7, PollSees

\* A poll through another broker: a lost answer that carried the result leaves
\* the mark that it was missed.
LEMMA JobOkRelayed == ASSUME JobOk, NEW lost \in BOOLEAN, poll_relayed(lost) PROVE JobOk'
<1>1. PICK outcome : outcome = IF lost THEN Pending("queued")
                               ELSE try_proxy_with_lease(poll_by_id(poll), recorded)
  OBVIOUS
<1>2. /\ config.via = "relay" /\ told = Untold /\ Polled /\ UNCHANGED <<config, final, listed>>
      /\ told' = IF outcome.is # "Pending" THEN End("relay", poll_by_id(outcome).code, "none") ELSE told
      /\ missed' = (missed \/ (lost /\ result # {}))
  BY ZenonT(100), <1>1, Ends DEF poll_relayed, Poll, startup
<1>3. lost => told' = Untold
  BY ZenonT(100), <1>1, <1>2, ReadyFacts
<1>4. run.at # "none" /\ (missed => missed')
  BY Zenon, <1>2 DEF Polled
<1>8. Running \cap Ended = {}
  BY DEF Running, Ended
<1>5. CASE run.at \in Running /\ result = {} /\ poll = Pending(status)
  <2>1. told' = Untold
    BY ZenonT(100), <1>1, <1>2, <1>3, <1>5, RelayWaits
  <2> QED
    BY ZenonT(100), <1>2, <1>4, <1>5, <1>8, <2>1, JobOkPolled
<1>6. CASE run.at \in Ended /\ \E r : Sane(r) /\ final = {r} /\ result = {r} /\ poll = Ready(r)
  <2>1. PICK r : Sane(r) /\ final = {r} /\ result = {r} /\ poll = Ready(r)
    BY Zenon, <1>6
  <2>2. CASE lost
    <3>1. missed'
      BY ZenonT(100), <1>2, <2>1, <2>2
    <3>2. Excused(r)'
      BY Zenon, <3>1 DEF Excused
    <3> QED
      BY ZenonT(100), <1>2, <1>3, <1>4, <1>6, <1>8, <2>1, <2>2, <3>2, JobOkPolled
  <2>3. CASE ~lost
    <3>1. outcome = try_proxy_with_lease(poll_by_id(Ready(r)), recorded)
      BY ZenonT(100), <1>1, <2>1, <2>3
    <3>2. /\ outcome.is # "Pending" => TruthOf(End("relay", poll_by_id(outcome).code, "none"), Excused(r)', r)
          /\ outcome.is = "Pending" => r.kind \in {"Failed", "Overloaded", "RateLimited"} \/ r.location = "job"
      BY ZenonT(100), <2>1, <3>1, RelayEnd
    <3>3. told' # Untold => TruthOf(told', Excused(r)', r)
      BY ZenonT(100), <1>2, <3>2
    <3>4. told' = Untold => Excused(r)'
      <4>1. told' = Untold => outcome.is = "Pending"
        BY ZenonT(100), <1>2, <1>8, Ends
      <4> QED
        BY ZenonT(100), <3>2, <4>1 DEF Excused
    <3> QED
      BY ZenonT(100), <1>2, <1>4, <1>6, <1>8, <2>1, <3>3, <3>4, JobOkPolled
  <2> QED
    BY ZenonT(100), <2>2, <2>3
<1>7. CASE run.at \in Ended /\ result = {} /\ poll = NotFound
  <2>1. \A r \in final : Excused(r)
    BY ZenonT(100), <1>2, <1>7 DEF JobOk
  <2>2. \A r \in final : Excused(r)'
    BY ZenonT(100), <1>4, <2>1 DEF Excused
  <2>3. told' # Untold => told' = End("relay", 404, "none")
    <3>1. CASE lost
      BY ZenonT(100), <1>3, <3>1
    <3>2. CASE ~lost
      <4>1. outcome = try_proxy_with_lease(poll_by_id(NotFound), recorded)
        BY ZenonT(100), <1>1, <1>7, <3>2
      <4> QED
        BY SMTT(60), <1>2, <4>1, RelayGone
    <3> QED
      BY ZenonT(100), <3>1, <3>2
  <2>4. ASSUME NEW r \in final, Sane(r), told' # Untold PROVE TruthOf(told', Excused(r)', r)
    <3>1. PICK e : e = Excused(r)' /\ e
      BY ZenonT(100), <2>2, <2>4
    <3>2. TruthOf(End("relay", 404, "none"), e, r)
      BY <3>1 DEF TruthOf, End
    <3> QED
      BY ZenonT(100), <2>3, <2>4, <3>1, <3>2
  <2>5. \A r \in final : Sane(r)
    BY Zenon, <1>7 DEF JobOk
  <2> QED
    BY ZenonT(100), <1>2, <1>4, <1>7, <1>8, <2>2, <2>4, <2>5, JobOkPolled
<1> QED
  BY ZenonT(100), <1>4, <1>5, <1>6, <1>7, PollSees

\* The list of active jobs shows one as processed only if its result is there.
LEMMA JobOkListed == ASSUME JobOk, snapshot PROVE JobOk'
<1>1. listed' = active_jobs(cancelled, status, result) /\ UNCHANGED <<config, routing, told, missed, final>>
  BY Zenon DEF snapshot, startup
<1>2. status # "processed" /\ "failed" # "processed"
  BY DEF JobOk
<1>3. listed' = "processed" => \E r \in result : is_deliverable(r)
  BY Zenon, <1>1, <1>2 DEF active_jobs
<1>4. listed' = "processed" => run.at \in Ended /\ \A r \in final : is_deliverable(r)
  BY Zenon, <1>3 DEF JobOk
<1>5. UNCHANGED <<run, status, result>>
  BY Zenon, <1>1 DEF routing
<1>6. \A r : Excused(r)' = Excused(r)
  BY Zenon, <1>1 DEF Excused
<1> QED
  BY ZenonT(100), <1>1, <1>4, <1>5, <1>6 DEF JobOk

\* A job turned away at the limit of the table has no result.
LEMMA JobOkOverloaded == ASSUME JobOk, submit_overloaded PROVE JobOk'
<1>1. run.at = "none" /\ UNCHANGED <<config, routing, missed, final, listed>>
  BY Zenon DEF submit_overloaded, startup
<1>2. run.at \notin Ended /\ run.at \notin Running
  BY <1>1 DEF Ended, Running
<1>3. UNCHANGED <<run, status, result>> /\ final = {}
  BY ZenonT(100), <1>1, <1>2 DEF routing, JobOk
<1> QED
  BY ZenonT(100), <1>1, <1>2, <1>3 DEF JobOk

\* Steps that leave the job, its results and its client alone.
LEMMA JobOkApart ==
  ASSUME JobOk, UNCHANGED <<config, run, status, result, told, missed, final, listed>>
  PROVE  JobOk'
<1>1. \A r : Excused(r)' = Excused(r)
  BY Zenon DEF Excused
<1> QED
  BY Zenon, <1>1 DEF JobOk

\* The configuration is read, never written.
LEMMA ConfigFixed ==
  ASSUME Booting \/ Parsing \/ Calling \/ Dropping
  PROVE  UNCHANGED config
<1>1. CASE Booting
  BY Zenon, <1>1 DEF Booting, StartupStep, parse_bootstrap, init_store, allocate_startup_broker_slot,
    registries, validate_switch, register_pool, ensure_started, bind, merge, list_route
<1>2. CASE Parsing
  BY Zenon, <1>2 DEF Parsing, ParseStep, parse_route
<1>3. CASE Calling
  BY Zenon, <1>3 DEF Calling, StartupCall, add_route, PortReleased
<1>4. CASE Dropping
  BY Zenon, <1>4 DEF Dropping, drop
<1> QED
  BY ZenonT(100), <1>1, <1>2, <1>3, <1>4

\* Every step keeps JobOk.
LEMMA JobOkKept == ASSUME JobOk, [Next]_vars PROVE JobOk'
<1>1. CASE Booting \/ Parsing \/ Calling \/ Dropping
  BY ZenonT(100), <1>1, ConfigFixed, JobOkApart DEF Booting, Parsing, Calling, Dropping, routing
<1>2. CASE submit_job
  BY Zenon, <1>2, JobOkStart
<1>3. CASE submit_overloaded
  BY ZenonT(100), <1>3, JobOkOverloaded
<1>4. CASE Executing
  BY Zenon, <1>4, JobOkExecuting
<1>5. CASE cancel \/ Leave
  BY ZenonT(100), <1>5, JobOkApart DEF cancel, Cancel, Leave, Away, startup
<1>6. CASE Persist \/ Cleanup
  BY ZenonT(100), <1>6, JobOkApart DEF Persist, Cleanup, startup, routing
<1>7. CASE Polling
  BY ZenonT(100), <1>7, JobOkHttp, JobOkPython, JobOkRelayed DEF Polling
<1>8. CASE snapshot
  BY Zenon, <1>8, JobOkListed
<1>9. CASE UNCHANGED vars
  BY ZenonT(100), <1>9, JobOkApart DEF vars, startup, routing
<1> QED
  BY ZenonT(100), <1>1, <1>2, <1>3, <1>4, <1>5, <1>6, <1>7, <1>8, <1>9 DEF Next

\* Nobody is misled about a job: whatever routes the parser builds, whichever way
\* the client polls, and however often a relayed answer is lost, the client and
\* the list of active jobs say of the result what it was.
THEOREM NeverMisledCorrect == Spec => []NeverMisled
<1>1. PipelineInit => JobOk
  BY SMTT(60), JobOkFirst
<1>2. JobOk /\ [Next]_vars => JobOk'
  BY JobOkKept
<1>3. JobOk => NeverMisled
  BY SMTT(60), JobOkSuffices
<1> QED
  BY <1>1, <1>2, <1>3, PTL DEF Spec

-----------------------------------------------------------------------------
(* Cancellation *)

\* An action that started after the cancellation was the last one: the job is
\* past it, and the flag is up for the next gate to see.
Heeds ==
  /\ run = [at |-> run.at, stack |-> run.stack]
  /\ late \in 0..1
  /\ late = 1 => cancelled /\ run.at \notin {"act", "worker"}

\* Every step of a job, its client or its caller keeps Heeds.
LEMMA HeedsKept == ASSUME NEW routers, Heeds, RoutingNext(routers) PROVE Heeds'
<1>1. CASE \E routes \in routers : Start(routes)
  BY <1>1 DEF Heeds, Start
<1>2. CASE SwitchEnds
  <2>1. run' = [at |-> run'.at, stack |-> run'.stack] /\ run'.at \in {"rejected", "gate"}
    BY <1>2 DEF SwitchEnds
  <2> QED
    BY Zenon, <1>2, <2>1 DEF Heeds, SwitchEnds
<1>3. CASE Gate
  BY <1>3 DEF Heeds, Gate, Begin, Finish
<1>4. CASE Descend
  BY Zenon, <1>4 DEF Heeds, Descend
<1>5. CASE Turned
  <2>1. run' = [at |-> "done", stack |-> <<>>] /\ UNCHANGED <<late, cancelled>>
    BY Zenon, <1>5 DEF Turned, Finish
  <2> QED
    BY Zenon, <2>1 DEF Heeds
<1>6. CASE PickUp
  BY Zenon, <1>6 DEF Heeds, PickUp
<1>7. CASE Perform
  <2>1. run.at \in {"act", "worker"} /\ UNCHANGED cancelled
        /\ late' = IF cancelled /\ run.at = "act" THEN late + 1 ELSE late
    BY Zenon, <1>7 DEF Perform
  <2>2. \E at \in {"gate", "done"} : \E stack : run' = [at |-> at, stack |-> stack]
    BY Zenon, <1>7 DEF Perform, GoOn, Finish
  <2>3. run' = [at |-> run'.at, stack |-> run'.stack] /\ run'.at \in {"gate", "done"}
    BY <2>2
  <2> QED
    BY SMTT(60), <2>1, <2>3 DEF Heeds
<1>8. CASE Cancel
  BY Zenon, <1>8 DEF Heeds, Cancel
<1>9. CASE Away \/ Polled
  BY Zenon, <1>9 DEF Heeds, Away, Polled
<1> QED
  BY ZenonT(100), <1>1, <1>2, <1>3, <1>4, <1>5, <1>6, <1>7, <1>8, <1>9 DEF RoutingNext, RoutingStep

\* After a cancellation at most one more action starts, the one Switch::dispatch
\* had already checked the flag for.
THEOREM CancelCorrect == ASSUME NEW routers PROVE RoutingSpec(routers) => []CancelHeeded
<1>1. RoutingInit => Heeds
  BY DEF RoutingInit, Heeds, NotRun
<1>2. Heeds /\ [RoutingNext(routers)]_<<config, routing>> => Heeds'
  <2>1. ASSUME Heeds, UNCHANGED <<config, routing>> PROVE Heeds'
    BY Zenon, <2>1 DEF Heeds, routing
  <2> QED
    BY Zenon, <2>1, HeedsKept
<1>3. Heeds => CancelHeeded
  BY DEF Heeds, CancelHeeded
<1> QED
  BY <1>1, <1>2, <1>3, PTL DEF RoutingSpec

-----------------------------------------------------------------------------
(* The stack of switches *)

Frames(routers, names) ==
  [routes: routers, r: Nat \ {0}, a: Nat \ {0}, base: SUBSET names, marks: SUBSET names,
   reasons: Seq(names)]

\* A frame whose switch still has a route is at an action of that route.
Placed(f) == f.r <= Len(f.routes) => f.a <= Len(f.routes[f.r].actions)

\* The transforms of the first n frames.
Under(stack, n) == UNION {Passed(stack[i]) : i \in 1..n}

\* Each switch was entered with what the frames around it had applied.
Marks(stack) ==
  \A i \in 1..Len(stack) : stack[i].base = Under(stack, i - 1) /\ stack[i].marks = Under(stack, i)

\* Joining rejections, under a name of its own.
Join(a, b) == a \o b

\* The rejections of the frames, outermost first, make up what was shown: p[i] is
\* what the first i frames have.
Tells(p, stack, names) ==
  /\ p \in [0..Len(stack) -> Seq(names)]
  /\ p[0] = <<>>
  /\ \A i \in 1..Len(stack) : p[i] = Join(p[i - 1], stack[i].reasons)

Stacked(routers, names) ==
  /\ run \in [at: Running \cup {"none", "done", "rejected"}, stack: Seq(Frames(routers, names))]
  /\ run.at \in Running => run.stack # <<>>
  /\ run.at \in {"act", "worker"} => Top.r <= Len(Top.routes)
  /\ \A i \in 1..Len(run.stack) : Placed(run.stack[i])
  /\ Marks(run.stack)
  /\ run.at = "none" => shown = <<>>
  /\ run.at \in Running => \E p : Tells(p, run.stack, names) /\ p[Len(run.stack)] = shown
  /\ shown \in Seq(names)
  /\ run.at = "rejected" => result \in {{}, {Error(shown)}}

\* Only checks and transforms let a job pass, and the reason of a rejection is
\* the name of the action.
LEMMA AnswerForms ==
  ASSUME NEW action, NEW answer \in Answers(action)
  PROVE  /\ answer.is = "pass" => answer = Pass /\ action.type \in {"gate", "tag"}
         /\ answer.is = "reject" => answer.reasons = <<action.name>>
<1>1. PICK x : \/ answer = PyStep(action.name, x) /\ action.type \in {"gate", "tag"}
               \/ answer = execute(action.name, x)
               \/ answer = WorkerOutcome(action.name, x)
               \/ answer = PyTargetAdapter(action.name, x)
  BY Zenon DEF Answers, PyCheckAdapter, PyTransformAdapter
<1>2. /\ Pass.is = "pass"
      /\ \A r : Complete(r).is = "complete"
      /\ \A r, s : Reject(r, s).is = "reject" /\ Reject(r, s).reasons = r
      /\ Fails("ConfigError").is = "ConfigError" /\ Fails("NetworkError").is = "NetworkError"
      /\ Fails("ResourceError").is = "ResourceError"
  BY Zenon DEF Pass, Complete, Reject, Fails, Answer
<1>3. CASE answer = PyStep(action.name, x) /\ action.type \in {"gate", "tag"}
  BY SMTT(60), <1>2, <1>3 DEF PyStep
<1>4. CASE answer = execute(action.name, x)
  BY ZenonT(100), <1>2, <1>4 DEF execute
<1>5. CASE answer = WorkerOutcome(action.name, x)
  BY ZenonT(100), <1>2, <1>5 DEF WorkerOutcome
<1>6. CASE answer = PyTargetAdapter(action.name, x)
  BY SMTT(60), <1>2, <1>6 DEF PyTargetAdapter
<1> QED
  BY ZenonT(100), <1>1, <1>3, <1>4, <1>5, <1>6

\* The transforms of a stack, frame by frame.
LEMMA UnderFacts ==
  ASSUME NEW stack, NEW n \in Nat
  PROVE  /\ Under(stack, 0) = {}
         /\ Under(stack, n + 1) = Under(stack, n) \cup Passed(stack[n + 1])
BY DEF Under

\* They depend on those frames only.
LEMMA UnderSame ==
  ASSUME NEW s, NEW t, NEW n \in Nat, \A i \in 1..n : s[i] = t[i]
  PROVE  Under(s, n) = Under(t, n)
BY Zenon DEF Under

\* Sequences are joined in any order.
LEMMA Joined ==
  ASSUME NEW S, NEW a \in Seq(S), NEW b \in Seq(S), NEW c \in Seq(S)
  PROVE  Join(Join(a, b), c) = Join(a, Join(b, c))
BY SMTT(60) DEF Join

\* Joining gives a sequence, and joining nothing changes nothing.
LEMMA JoinedType ==
  ASSUME NEW S, NEW a \in Seq(S), NEW b \in Seq(S)
  PROVE  Join(a, b) \in Seq(S) /\ Join(a, <<>>) = a
BY DEF Join

\* A stack cut back to m frames, the last of them changed: what it applied still
\* adds up.
LEMMA MarksCut ==
  ASSUME NEW s, NEW t, NEW m \in 1..Len(s), Len(s) \in Nat, Len(t) = m, Marks(s),
         \A i \in 1..(m - 1) : t[i] = s[i],
         t[m].base = s[m].base, t[m].marks = t[m].base \cup Passed(t[m])
  PROVE  Marks(t)
<1>1. \A i \in 1..m : Under(t, i - 1) = Under(s, i - 1)
  <2> TAKE i \in 1..m
  <2>1. i - 1 \in Nat /\ \A j \in 1..(i - 1) : t[j] = s[j]
    OBVIOUS
  <2> QED
    BY ZenonT(100), <2>1, UnderSame
<1>2. \A i \in 1..m : s[i].base = Under(s, i - 1) /\ s[i].marks = Under(s, i)
  BY DEF Marks
<1>3. \A i \in 1..m : Under(t, i) = Under(t, i - 1) \cup Passed(t[i])
  <2> TAKE i \in 1..m
  <2>1. i - 1 \in Nat /\ (i - 1) + 1 = i
    OBVIOUS
  <2> QED
    BY ZenonT(100), <2>1, UnderFacts
<1>4. \A i \in 1..(m - 1) : Under(t, i) = Under(s, i)
  <2> TAKE i \in 1..(m - 1)
  <2>1. i + 1 \in 1..m /\ (i + 1) - 1 = i
    OBVIOUS
  <2> QED
    BY Zenon, <1>1, <2>1
<1>5. \A i \in 1..(m - 1) : t[i].base = Under(t, i - 1) /\ t[i].marks = Under(t, i)
  <2> TAKE i \in 1..(m - 1)
  <2>1. i \in 1..m /\ t[i] = s[i]
    OBVIOUS
  <2> QED
    BY Zenon, <1>1, <1>2, <1>4, <2>1
<1>6. t[m].base = Under(t, m - 1) /\ t[m].marks = Under(t, m)
  BY SMTT(60), <1>1, <1>2, <1>3
<1> QED
  BY SMTT(60), <1>5, <1>6 DEF Marks

\* A switch entered with the job as it is.
LEMMA MarksPushed ==
  ASSUME NEW s, NEW t, Len(s) \in Nat \ {0}, Len(t) = Len(s) + 1, Marks(s),
         \A i \in 1..Len(s) : t[i] = s[i],
         t[Len(t)].base = s[Len(s)].marks, t[Len(t)].marks = t[Len(t)].base,
         Passed(t[Len(t)]) = {}
  PROVE  Marks(t)
<1>1. \A i \in 0..Len(s) : Under(t, i) = Under(s, i)
  <2> TAKE i \in 0..Len(s)
  <2>1. i \in Nat /\ \A j \in 1..i : t[j] = s[j]
    OBVIOUS
  <2> QED
    BY ZenonT(100), <2>1, UnderSame
<1>2. \A i \in 1..Len(s) : s[i].base = Under(s, i - 1) /\ s[i].marks = Under(s, i)
  BY Zenon DEF Marks
<1>3. Under(t, Len(t)) = Under(t, Len(s))
  BY ZenonT(100), UnderFacts
<1>4. \A i \in 1..Len(s) : t[i].base = Under(t, i - 1) /\ t[i].marks = Under(t, i)
  BY <1>1, <1>2
<1>5. t[Len(t)].base = Under(t, Len(t) - 1) /\ t[Len(t)].marks = Under(t, Len(t))
  BY <1>1, <1>2, <1>3
<1> QED
  BY SMTT(60), <1>4, <1>5 DEF Marks

\* What all frames tell is what the last one adds to the others.
LEMMA TellsLast ==
  ASSUME NEW names, NEW p, NEW s, Len(s) \in Nat \ {0}, Tells(p, s, names)
  PROVE  p[Len(s)] = Join(p[Len(s) - 1], s[Len(s)].reasons) /\ p[Len(s) - 1] \in Seq(names)
<1>1. Len(s) \in 1..Len(s) /\ Len(s) - 1 \in 0..Len(s)
  OBVIOUS
<1> QED
  BY ZenonT(100), <1>1 DEF Tells

\* A stack cut back to m frames: its frames tell q if the last one brings what the
\* frames below it tell to q.
LEMMA TellsCut ==
  ASSUME NEW names, NEW p, NEW s, NEW t, NEW m \in 1..Len(s), Len(s) \in Nat, Len(t) = m,
         Tells(p, s, names), \A i \in 1..(m - 1) : t[i] = s[i],
         NEW q \in Seq(names), q = Join(p[m - 1], t[m].reasons)
  PROVE  \E pp : Tells(pp, t, names) /\ pp[Len(t)] = q
<1>1. PICK pp : pp = [i \in 0..m |-> IF i = m THEN q ELSE p[i]]
  BY Zenon
<1>2. /\ p \in [0..Len(s) -> Seq(names)] /\ p[0] = <<>>
      /\ \A i \in 1..Len(s) : p[i] = Join(p[i - 1], s[i].reasons)
  BY Zenon DEF Tells
<1>3. \A i \in 0..m : i \in 0..Len(s) /\ pp[i] = IF i = m THEN q ELSE p[i]
  BY SMTT(60), <1>1
<1>4. pp \in [0..m -> Seq(names)]
  <2>1. \A i \in 0..m : (IF i = m THEN q ELSE p[i]) \in Seq(names)
    BY ZenonT(100), <1>2, <1>3
  <2> QED
    BY ZenonT(100), <1>1, <2>1
<1>5. pp[0] = <<>> /\ pp[m] = q
  <2>1. 0 \in 0..m /\ m \in 0..m /\ 0 # m
    OBVIOUS
  <2>2. pp[0] = p[0]
    BY ZenonT(100), <1>3, <2>1
  <2>3. pp[m] = q
    BY ZenonT(100), <1>3, <2>1
  <2> QED
    BY ZenonT(100), <1>2, <2>2, <2>3
<1>6. ASSUME NEW i \in 1..m PROVE pp[i] = Join(pp[i - 1], t[i].reasons)
  <2>1. i \in 0..m /\ i - 1 \in 0..m /\ i - 1 # m /\ i \in 1..Len(s)
    OBVIOUS
  <2>2. pp[i - 1] = p[i - 1]
    BY ZenonT(100), <1>3, <2>1
  <2>3. CASE i = m
    BY ZenonT(100), <1>3, <2>1, <2>2, <2>3
  <2>4. CASE i # m
    <3>1. i \in 1..(m - 1) /\ pp[i] = p[i]
      BY SMTT(60), <1>3, <2>1, <2>4
    <3> QED
      BY ZenonT(100), <1>2, <2>1, <2>2, <3>1
  <2> QED
    BY ZenonT(100), <2>3, <2>4
<1> QED
  BY ZenonT(100), <1>4, <1>5, <1>6 DEF Tells

\* A switch entered has told nothing yet.
LEMMA TellsPushed ==
  ASSUME NEW names, NEW p, NEW s, NEW t, Len(s) \in Nat, Len(t) = Len(s) + 1,
         Tells(p, s, names), \A i \in 1..Len(s) : t[i] = s[i], t[Len(t)].reasons = <<>>
  PROVE  \E pp : Tells(pp, t, names) /\ pp[Len(t)] = p[Len(s)]
<1>1. PICK pp : pp = [i \in 0..Len(t) |-> IF i = Len(t) THEN p[Len(s)] ELSE p[i]]
  BY Zenon
<1>2. /\ p \in [0..Len(s) -> Seq(names)] /\ p[0] = <<>>
      /\ \A i \in 1..Len(s) : p[i] = Join(p[i - 1], s[i].reasons)
  BY Zenon DEF Tells
<1>3. /\ \A i \in 0..Len(s) : i \in 0..Len(t) /\ pp[i] = p[i]
      /\ pp[Len(t)] = p[Len(s)] /\ p[Len(s)] \in Seq(names)
  BY SMTT(60), <1>1, <1>2
<1>4. pp \in [0..Len(t) -> Seq(names)]
  <2>1. ASSUME NEW i \in 0..Len(t) PROVE (IF i = Len(t) THEN p[Len(s)] ELSE p[i]) \in Seq(names)
    <3>1. i = Len(t) \/ i \in 0..Len(s)
      OBVIOUS
    <3> QED
      BY ZenonT(100), <1>2, <1>3, <3>1
  <2> QED
    BY ZenonT(100), <1>1, <2>1
<1>5. Join(p[Len(s)], <<>>) = p[Len(s)]
  BY ZenonT(100), <1>3, JoinedType
<1>6. ASSUME NEW i \in 1..Len(s) PROVE pp[i] = Join(pp[i - 1], t[i].reasons)
  <2>1. i \in 0..Len(s) /\ i - 1 \in 0..Len(s)
    OBVIOUS
  <2>2. pp[i] = p[i] /\ pp[i - 1] = p[i - 1]
    BY ZenonT(100), <1>3, <2>1
  <2> QED
    BY ZenonT(100), <1>2, <2>2
<1>7. pp[Len(t)] = Join(pp[Len(t) - 1], t[Len(t)].reasons)
  <2>1. Len(s) \in 0..Len(s) /\ Len(t) - 1 = Len(s)
    OBVIOUS
  <2>2. pp[Len(t) - 1] = p[Len(s)]
    BY ZenonT(100), <1>3, <2>1
  <2> QED
    BY ZenonT(100), <1>3, <1>5, <2>2
<1>8. \A i \in 1..Len(t) : pp[i] = Join(pp[i - 1], t[i].reasons)
  <2> TAKE i \in 1..Len(t)
  <2>1. i \in 1..Len(s) \/ i = Len(t)
    OBVIOUS
  <2> QED
    BY ZenonT(100), <1>6, <1>7, <2>1
<1>9. pp[0] = <<>>
  <2>1. 0 \in 0..Len(s)
    OBVIOUS
  <2> QED
    BY ZenonT(100), <1>2, <1>3, <2>1
<1> QED
  BY ZenonT(100), <1>3, <1>4, <1>8, <1>9 DEF Tells

-----------------------------------------------------------------------------
(* Frames *)

\* At the first action of a route nothing has been applied.
LEMMA NothingPassed == ASSUME NEW f, f.a = 1 PROVE Passed(f) = {}
BY DEF Passed

\* One action further, that action is passed too.
LEMMA PassedNext ==
  ASSUME NEW f, NEW g, f.a \in Nat \ {0}, g.routes = f.routes, g.r = f.r, g.a = f.a + 1
  PROVE  LET action == f.routes[f.r].actions[f.a] IN
         Passed(g) = Passed(f) \cup (IF action.kind = "transform" THEN {action.name} ELSE {})
<1>1. PICK steps : steps = f.routes[f.r].actions
  BY Zenon
<1>2. PICK a \in Nat \ {0} : a = f.a
  BY ZenonT(100)
<1>3. /\ Passed(f) = {steps[i].name : i \in {j \in 1..(a - 1) : steps[j].kind = "transform"}}
      /\ Passed(g) = {steps[i].name : i \in {j \in 1..a : steps[j].kind = "transform"}}
  BY SMTT(60), <1>1, <1>2 DEF Passed
<1>4. \A i : i \in 1..a <=> i \in 1..(a - 1) \/ i = a
  OBVIOUS
<1>5. ASSUME NEW x
      PROVE  x \in Passed(g) <=> x \in Passed(f) \/ (steps[a].kind = "transform" /\ x = steps[a].name)
  BY ZenonT(100), <1>3, <1>4
<1> QED
  BY ZenonT(100), <1>1, <1>2, <1>5

\* A frame at the start of a route, or past the last one, is placed.
LEMMA PlacedAtStart ==
  ASSUME NEW routers, NEW names, Routable(routers, names),
         NEW f, f.routes \in routers, f.r \in Nat \ {0}, f.a = 1
  PROVE  Placed(f)
BY DEF Placed, Routable

\* The next route: the job as it entered the switch, the rejections kept.
LEMMA NextRouteFrame ==
  ASSUME NEW routers, NEW names, Routable(routers, names), NEW f \in Frames(routers, names)
  PROVE  LET g == NextRoute(f) IN
         /\ g \in Frames(routers, names) /\ Placed(g)
         /\ g.base = f.base /\ g.marks = f.base \cup Passed(g) /\ g.reasons = f.reasons
<1>1. PICK g : g = NextRoute(f)
  BY Zenon
<1>2. /\ g \in Frames(routers, names) /\ g.a = 1 /\ g.base = f.base /\ g.marks = f.base
      /\ g.reasons = f.reasons
  <2>1. g = [f EXCEPT !.r = f.r + 1, !.a = 1, !.marks = f.base]
    BY ZenonT(100), <1>1 DEF NextRoute
  <2>2. f.r + 1 \in Nat \ {0} /\ f.base \in SUBSET names
    BY DEF Frames
  <2>3. g = [routes |-> f.routes, r |-> f.r + 1, a |-> 1, base |-> f.base, marks |-> f.base,
             reasons |-> f.reasons]
    BY ZenonT(100), <2>1 DEF Frames
  <2>4. f.routes \in routers /\ f.reasons \in Seq(names) /\ 1 \in Nat \ {0}
    BY DEF Frames
  <2> QED
    BY ZenonT(100), <2>2, <2>3, <2>4 DEF Frames
<1>3. g.routes \in routers /\ g.r \in Nat \ {0}
  BY ZenonT(100), <1>2 DEF Frames
<1>4. Placed(g) /\ Passed(g) = {}
  BY ZenonT(100), <1>2, <1>3, NothingPassed, PlacedAtStart
<1> QED
  BY ZenonT(100), <1>1, <1>2, <1>4

\* Rejections are added at the end.
LEMMA NotedFrame ==
  ASSUME NEW routers, NEW names, NEW f \in Frames(routers, names), NEW more \in Seq(names)
  PROVE  LET g == Noted(f, more) IN
         g \in Frames(routers, names) /\ g.base = f.base /\ g.reasons = Join(f.reasons, more)
<1>1. PICK joined \in Seq(names) : joined = Join(f.reasons, more)
  BY ZenonT(100), JoinedType DEF Frames
<1>2. Noted(f, more) = [f EXCEPT !.reasons = joined]
  BY ZenonT(100), <1>1 DEF Noted, Join
<1> QED
  BY ZenonT(100), <1>1, <1>2 DEF Frames

\* The frame after its action ran differs in the transforms applied.
LEMMA WorkedFrame ==
  ASSUME NEW routers, NEW names, NEW answer, Top \in Frames(routers, names), Action.name \in names
  PROVE  LET g == Worked(answer) IN
         /\ g \in Frames(routers, names) /\ g.base = Top.base /\ g.reasons = Top.reasons
         /\ g.routes = Top.routes /\ g.r = Top.r /\ g.a = Top.a
         /\ answer = Pass =>
              g.marks = Top.marks \cup (IF Action.kind = "transform" THEN {Action.name} ELSE {})
<1>1. PICK marks : marks = (IF Action.kind = "transform" /\ (answer = Pass \/ ~Dispatched)
                            THEN Top.marks \cup {Action.name} ELSE Top.marks)
  BY Zenon
<1>2. marks \in SUBSET names
  BY ZenonT(100), <1>1 DEF Frames
<1>3. Worked(answer) = [Top EXCEPT !.marks = marks]
  BY ZenonT(100), <1>1 DEF Worked
<1>4. answer = Pass => marks = Top.marks \cup (IF Action.kind = "transform" THEN {Action.name} ELSE {})
  BY ZenonT(100), <1>1
<1> QED
  BY ZenonT(100), <1>2, <1>3, <1>4 DEF Frames

\* Where a job that is at an action stands: in a route of the innermost switch, at
\* one of its actions.
LEMMA AtAction ==
  ASSUME NEW routers, NEW names, Routable(routers, names), Stacked(routers, names),
         run.at \in {"act", "worker"}
  PROVE  /\ Top \in Frames(routers, names) /\ Top.r \in 1..Len(Top.routes)
         /\ Top.a \in 1..Len(Route.actions) /\ Len(Route.actions) \in Nat \ {0}
         /\ Action.name \in names
         /\ Action.kind = "switch" => Action.routes \in routers
         /\ Action.type \in {"gate", "tag"} => Top.a < Len(Route.actions)
<1>1. /\ run.stack \in Seq(Frames(routers, names)) /\ Len(run.stack) \in Nat \ {0}
      /\ Top = run.stack[Len(run.stack)]
  BY DEF Stacked, Running, Top
<1>2. Top \in Frames(routers, names) /\ Placed(Top) /\ Top.r <= Len(Top.routes)
  BY SMTT(60), <1>1 DEF Stacked
<1>3. Top.routes \in routers /\ Top.r \in Nat \ {0} /\ Top.a \in Nat \ {0}
  BY ZenonT(100), <1>2 DEF Frames
<1>4. Top.r \in 1..Len(Top.routes)
  BY SMTT(60), <1>2, <1>3 DEF Routable
<1>5. /\ Len(Route.actions) \in Nat \ {0}
      /\ Route.actions[Len(Route.actions)].kind \in {"target", "switch"}
      /\ \A a \in 1..Len(Route.actions) :
           /\ Route.actions[a].name \in names
           /\ Route.actions[a].kind = "switch" => Route.actions[a].routes \in routers
           /\ Route.actions[a].kind \in {"target", "switch"} => Route.actions[a].type \notin {"gate", "tag"}
  BY ZenonT(100), <1>3, <1>4 DEF Routable, Route
<1>6. Top.a \in 1..Len(Route.actions)
  BY SMTT(60), <1>2, <1>3, <1>5 DEF Placed, Route
<1> QED
  BY SMTT(60), <1>2, <1>4, <1>5, <1>6 DEF Action

-----------------------------------------------------------------------------
(* Steps *)

\* The stack is cut back to m frames and the last of them replaced by g, which
\* tells what the frames it stands for told, and what is shown now.
LEMMA CutStep ==
  ASSUME NEW routers, NEW names, Stacked(routers, names), run.at \in Running,
         NEW m \in 1..Len(run.stack), NEW g \in Frames(routers, names), Placed(g),
         NEW t \in Seq(Frames(routers, names)), Len(t) = m, t[m] = g,
         \A i \in 1..(m - 1) : t[i] = run.stack[i],
         run' = [at |-> "gate", stack |-> t],
         g.base = run.stack[m].base, g.marks = g.base \cup Passed(g),
         shown' \in Seq(names),
         \A p : (Tells(p, run.stack, names) /\ p[Len(run.stack)] = shown)
                  => shown' = Join(p[m - 1], g.reasons)
  PROVE  Stacked(routers, names)'
<1>1. run.stack \in Seq(Frames(routers, names)) /\ Len(run.stack) \in Nat
  BY DEF Stacked
<1>2. run'.at = "gate" /\ run'.stack = t
  BY Zenon
<1>3. run' \in [at: Running \cup {"none", "done", "rejected"}, stack: Seq(Frames(routers, names))]
  BY Zenon DEF Running
<1>4. \A i \in 1..Len(t) : Placed(t[i])
  <2> TAKE i \in 1..Len(t)
  <2>1. i = m \/ (i \in 1..(m - 1) /\ i \in 1..Len(run.stack))
    BY SMTT(60), <1>1
  <2> QED
    BY ZenonT(100), <2>1 DEF Stacked
<1>5. Marks(t)
  BY ZenonT(100), <1>1, MarksCut DEF Stacked
<1>6. PICK p : Tells(p, run.stack, names) /\ p[Len(run.stack)] = shown
  BY Zenon DEF Stacked
<1>7. \E pp : Tells(pp, t, names) /\ pp[Len(t)] = shown'
  <2>1. shown' = Join(p[m - 1], t[m].reasons)
    BY ZenonT(100), <1>6
  <2>2. PICK q \in Seq(names) : q = shown'
    BY ZenonT(100)
  <2>3. \E pp : Tells(pp, t, names) /\ pp[Len(t)] = q
    <3>1. PICK s : s = run.stack
      BY Zenon
    <3>2. Tells(p, s, names) /\ Len(s) \in Nat /\ m \in 1..Len(s) /\ \A i \in 1..(m - 1) : t[i] = s[i]
      BY ZenonT(100), <1>1, <1>6, <3>1
    <3> QED
      BY SMTT(60), <2>1, <2>2, <3>2, TellsCut
  <2> QED
    BY ZenonT(100), <2>2, <2>3
<1>8. t # <<>>
  BY SMTT(60), <1>1
<1>9. /\ (run.at \in Running => run.stack # <<>>)'
      /\ (run.at \in {"act", "worker"} => Top.r <= Len(Top.routes))'
      /\ (run.at = "rejected" => result \in {{}, {Error(shown)}})'
  BY ZenonT(100), <1>2, <1>8
<1> QED
  BY ZenonT(100), <1>2, <1>3, <1>4, <1>5, <1>7, <1>9 DEF Stacked

\* The innermost frame is replaced, and the rejections it gained are shown.
LEMMA GoOnStep ==
  ASSUME NEW routers, NEW names, Stacked(routers, names), run.at \in Running,
         NEW g \in Frames(routers, names), Placed(g), GoOn(g),
         g.base = Top.base, g.marks = g.base \cup Passed(g),
         NEW more \in Seq(names), g.reasons = Join(Top.reasons, more), shown' = Join(shown, more)
  PROVE  Stacked(routers, names)'
<1>1. PICK n : n = Len(run.stack)
  BY Zenon
<1>2. PICK t : t = Replace(run.stack, g)
  BY ZenonT(100)
<1>3. /\ run.stack \in Seq(Frames(routers, names)) /\ n \in Nat \ {0}
      /\ Top = run.stack[n] /\ shown \in Seq(names)
  BY SMTT(60), <1>1 DEF Stacked, Top
<1>4. /\ t \in Seq(Frames(routers, names)) /\ Len(t) = n /\ t[n] = g
      /\ \A i \in 1..(n - 1) : t[i] = run.stack[i]
  BY SMTT(60), <1>1, <1>2, <1>3 DEF Replace
<1>5. run' = [at |-> "gate", stack |-> t]
  BY ZenonT(100), <1>2 DEF GoOn
<1>6. shown' \in Seq(names)
  BY ZenonT(100), <1>3, JoinedType
<1>7. ASSUME NEW p, Tells(p, run.stack, names), p[Len(run.stack)] = shown
      PROVE  shown' = Join(p[n - 1], g.reasons)
  <2>1. PICK q : q = p[n - 1]
    BY ZenonT(100)
  <2>2. Top \in Frames(routers, names)
    BY SMTT(60), <1>1, <1>3
  <2>3. PICK y \in Seq(names) : y = Top.reasons
    BY ZenonT(100), <2>2 DEF Frames
  <2>4. shown = Join(q, y) /\ q \in Seq(names)
    BY SMTT(60), <1>1, <1>3, <1>7, <2>1, <2>3, TellsLast
  <2>5. Join(Join(q, y), more) = Join(q, Join(y, more))
    BY SMTT(60), <2>4, Joined
  <2> QED
    BY ZenonT(100), <2>1, <2>3, <2>4, <2>5
<1>8. n \in 1..Len(run.stack) /\ g.base = run.stack[n].base
  BY SMTT(60), <1>1, <1>3
<1>9. \A p : (Tells(p, run.stack, names) /\ p[Len(run.stack)] = shown)
            => shown' = Join(p[n - 1], g.reasons)
  BY ZenonT(100), <1>7
<1> QED
  BY ZenonT(100), <1>4, <1>5, <1>6, <1>8, <1>9, CutStep

\* A finished job has an empty stack.
LEMMA FinishStep ==
  ASSUME NEW routers, NEW names, Stacked(routers, names), NEW at \in {"done", "rejected"},
         run' = [at |-> at, stack |-> <<>>], UNCHANGED shown,
         at = "rejected" => result' = {Error(shown)}
  PROVE  Stacked(routers, names)'
<1>1. /\ run'.at = at /\ run'.stack = <<>> /\ <<>> \in Seq(Frames(routers, names))
      /\ Len(<<>>) = 0
  OBVIOUS
<1>2. Marks(<<>>)
  BY SMTT(60), <1>1 DEF Marks
<1>3. run' \in [at: Running \cup {"none", "done", "rejected"}, stack: Seq(Frames(routers, names))]
  BY ZenonT(100), <1>1
<1>4. shown' \in Seq(names)
  BY Zenon DEF Stacked
<1> QED
  BY SMTT(60), <1>1, <1>2, <1>3, <1>4 DEF Stacked, Running

\* A switch that ran out of routes: the job is rejected with what was shown, or
\* the enclosing switch takes the rejections over and tries its next route.
LEMMA SwitchEndsStep ==
  ASSUME NEW routers, NEW names, Routable(routers, names), Stacked(routers, names), SwitchEnds
  PROVE  Stacked(routers, names)'
<1>1. PICK n : n = Len(run.stack)
  BY ZenonT(100)
<1>2. /\ run.stack \in Seq(Frames(routers, names)) /\ n \in Nat \ {0}
      /\ Top = run.stack[n] /\ shown \in Seq(names) /\ shown' = shown /\ run.at \in Running
  BY SMTT(60), <1>1 DEF Stacked, Top, SwitchEnds, Running
<1>3. PICK p : Tells(p, run.stack, names) /\ p[Len(run.stack)] = shown
  BY ZenonT(100), <1>2 DEF Stacked
<1>4. Top \in Frames(routers, names)
  BY SMTT(60), <1>1, <1>2
<1>5. PICK y \in Seq(names) : y = Top.reasons
  BY ZenonT(100), <1>4 DEF Frames
<1>6. CASE n = 1
  <2>1. p[0] = <<>> /\ p[1] = Join(p[0], y)
    BY SMTT(60), <1>1, <1>2, <1>3, <1>5, <1>6 DEF Tells
  <2>2. Join(<<>>, y) = y
    BY DEF Join
  <2>3. shown = y
    BY ZenonT(100), <1>1, <1>3, <1>6, <2>1, <2>2
  <2>4. run' = [at |-> "rejected", stack |-> <<>>] /\ result' = {dispatch(Reject(y, y = <<>>))}
    BY ZenonT(100), <1>1, <1>5, <1>6 DEF SwitchEnds
  <2>5. dispatch(Reject(y, y = <<>>)) = Error(y)
    BY ZenonT(60) DEF dispatch, Reject, Answer
  <2> QED
    BY ZenonT(100), <1>2, <2>3, <2>4, <2>5, FinishStep
<1>7. CASE n # 1
  <2>1. PICK f : f = run.stack[n - 1]
    BY Zenon
  <2>2. n - 1 \in 1..Len(run.stack) /\ f \in Frames(routers, names)
    <3>1. n - 1 \in 1..n
      BY SMTT(60), <1>2, <1>7
    <3>2. n - 1 \in 1..Len(run.stack)
      BY ZenonT(100), <1>1, <3>1
    <3> QED
      BY SMTT(60), <1>2, <2>1, <3>2
  <2>3. PICK x \in Seq(names) : x = f.reasons
    BY ZenonT(100), <2>2 DEF Frames
  <2>4. PICK h : h = Noted(f, y)
    BY ZenonT(100)
  <2>5. h \in Frames(routers, names) /\ h.base = f.base /\ h.reasons = Join(x, y)
    BY SMTT(60), <2>2, <2>3, <2>4, NotedFrame
  <2>6. PICK g : g = NextRoute(h)
    BY ZenonT(100)
  <2>7. /\ g \in Frames(routers, names) /\ Placed(g)
        /\ g.base = f.base /\ g.marks = g.base \cup Passed(g) /\ g.reasons = Join(x, y)
    BY SMTT(60), <2>5, <2>6, NextRouteFrame
  <2>8. PICK t : t = Replace(Outer, g)
    BY ZenonT(100)
  <2>9. /\ Outer \in Seq(Frames(routers, names)) /\ Len(Outer) = n - 1
        /\ \A i \in 1..(n - 1) : Outer[i] = run.stack[i]
    BY SMTT(60), <1>1, <1>2, <1>7 DEF Outer
  <2>10. Outer[Len(Outer)] = f
    BY SMTT(60), <1>2, <1>7, <2>1, <2>9
  <2>11. run' = [at |-> "gate", stack |-> t]
    BY ZenonT(100), <1>1, <1>5, <1>7, <2>4, <2>6, <2>8, <2>10 DEF SwitchEnds
  <2>12. /\ t \in Seq(Frames(routers, names)) /\ Len(t) = n - 1 /\ t[n - 1] = g
         /\ \A i \in 1..((n - 1) - 1) : t[i] = run.stack[i]
    BY SMTT(60), <1>2, <1>7, <2>7, <2>8, <2>9 DEF Replace
  <2>13. ASSUME NEW pp, Tells(pp, run.stack, names), pp[Len(run.stack)] = shown
         PROVE  shown' = Join(pp[(n - 1) - 1], g.reasons)
    <3>1. PICK q : q = pp[(n - 1) - 1]
      BY Zenon
    <3>2. /\ n - 1 \in 1..n /\ n \in 1..n /\ (n - 1) - 1 \in 0..n
      BY SMTT(60), <1>2, <1>7
    <3>3. q \in Seq(names) /\ pp[n - 1] = Join(q, x) /\ pp[n] = Join(pp[n - 1], y)
      BY ZenonT(100), <1>1, <1>2, <1>5, <2>1, <2>3, <2>13, <3>1, <3>2 DEF Tells
    <3>4. Join(Join(q, x), y) = Join(q, Join(x, y))
      BY SMTT(60), <3>3, Joined
    <3> QED
      BY ZenonT(100), <1>1, <1>2, <2>7, <2>13, <3>1, <3>3, <3>4
  <2>14. g.base = run.stack[n - 1].base /\ shown' \in Seq(names)
    BY ZenonT(100), <1>2, <2>1, <2>7
  <2>15. \A pp : (Tells(pp, run.stack, names) /\ pp[Len(run.stack)] = shown)
                  => shown' = Join(pp[(n - 1) - 1], g.reasons)
    BY ZenonT(100), <2>13
  <2> QED
    BY ZenonT(100), <1>2, <2>2, <2>7, <2>11, <2>12, <2>14, <2>15, CutStep
<1> QED
  BY ZenonT(100), <1>6, <1>7

\* A nested switch is entered: an empty frame over the others.
LEMMA DescendStep ==
  ASSUME NEW routers, NEW names, Routable(routers, names), Stacked(routers, names), Descend
  PROVE  Stacked(routers, names)'
<1>1. PICK s : s = run.stack
  BY Zenon
<1>2. PICK g : g = Frame(Action.routes, Top.marks)
  BY Zenon
<1>3. PICK t : t = Append(s, g)
  BY ZenonT(100)
<1>4. /\ s \in Seq(Frames(routers, names)) /\ Len(s) \in Nat \ {0} /\ Top = s[Len(s)]
      /\ Marks(s) /\ shown \in Seq(names) /\ \A i \in 1..Len(s) : Placed(s[i])
  BY SMTT(60), <1>1 DEF Stacked, Top, Descend, Running
<1>5. PICK p : Tells(p, s, names) /\ p[Len(s)] = shown
  BY ZenonT(100), <1>1 DEF Stacked, Descend, Running
<1>6. run.at = "act" /\ shown' = shown /\ run' = [at |-> "gate", stack |-> t]
  BY ZenonT(100), <1>1, <1>2, <1>3 DEF Descend
<1>7. Action.routes \in routers /\ Top.marks \in SUBSET names
  BY ZenonT(100), <1>6, AtAction DEF Descend, Frames
<1>8. /\ g \in Frames(routers, names) /\ g.a = 1 /\ g.r = 1 /\ g.routes \in routers
      /\ g.base = Top.marks /\ g.marks = g.base /\ g.reasons = <<>>
  BY SMTT(60), <1>2, <1>7 DEF Frame, Frames
<1>9. Placed(g) /\ Passed(g) = {}
  BY SMTT(60), <1>8, NothingPassed, PlacedAtStart
<1>10. /\ t \in Seq(Frames(routers, names)) /\ Len(t) = Len(s) + 1 /\ t[Len(t)] = g
       /\ \A i \in 1..Len(s) : t[i] = s[i]
  BY SMTT(60), <1>3, <1>4, <1>8
<1>11. Marks(t)
  BY ZenonT(100), <1>4, <1>8, <1>9, <1>10, MarksPushed
<1>12. \E pp : Tells(pp, t, names) /\ pp[Len(t)] = shown'
  BY SMTT(60), <1>4, <1>5, <1>6, <1>8, <1>10, TellsPushed
<1>13. \A i \in 1..Len(t) : Placed(t[i])
  <2> TAKE i \in 1..Len(t)
  <2>1. i \in 1..Len(s) \/ i = Len(t)
    BY SMTT(60), <1>4, <1>10
  <2> QED
    BY ZenonT(100), <1>4, <1>9, <1>10, <2>1
<1>14. run'.at = "gate" /\ run'.stack = t /\ t # <<>>
       /\ run' \in [at: Running \cup {"none", "done", "rejected"}, stack: Seq(Frames(routers, names))]
  BY SMTT(60), <1>4, <1>6, <1>10 DEF Running
<1> QED
  BY ZenonT(100), <1>4, <1>6, <1>11, <1>12, <1>13, <1>14 DEF Stacked

\* What the innermost frame has applied, with what it was entered with.
LEMMA TopMarks ==
  ASSUME NEW routers, NEW names, Stacked(routers, names), run.at \in Running
  PROVE  Top.marks = Top.base \cup Passed(Top)
<1>1. PICK n : n = Len(run.stack)
  BY Zenon
<1>2. n \in Nat \ {0} /\ Top = run.stack[n] /\ Marks(run.stack)
  BY SMTT(60), <1>1 DEF Stacked, Top
<1>3. Top.base = Under(run.stack, n - 1) /\ Top.marks = Under(run.stack, n)
  BY SMTT(60), <1>1, <1>2 DEF Marks
<1>4. n - 1 \in Nat /\ (n - 1) + 1 = n
  BY SMTT(60), <1>2
<1>5. Under(run.stack, n) = Under(run.stack, n - 1) \cup Passed(run.stack[n])
  BY ZenonT(100), <1>4, UnderFacts
<1> QED
  BY ZenonT(100), <1>2, <1>3, <1>5

\* An action ran: it let the job pass to the next action of its route, or
\* rejected it and the next route is tried, or the job is finished.
LEMMA PerformStep ==
  ASSUME NEW routers, NEW names, Routable(routers, names), Stacked(routers, names), Perform
  PROVE  Stacked(routers, names)'
<1>1. run.at \in {"act", "worker"} /\ run.at \in Running
  BY Zenon DEF Perform, Running
<1>2. PICK answer \in Answers(Action) :
        \/ answer.is = "pass" /\ GoOn(NextAction(Worked(answer))) /\ UNCHANGED shown
        \/ /\ answer.is = "reject"
           /\ IF Silent(Action, answer) THEN GoOn(NextRoute(Worked(answer))) /\ UNCHANGED shown
              ELSE /\ GoOn(NextRoute(Noted(Worked(answer), answer.reasons)))
                   /\ shown' = shown \o answer.reasons
        \/ run' = [at |-> "done", stack |-> <<>>] /\ UNCHANGED shown
  BY Zenon DEF Perform, Finish
<1>3. PICK f : f = Worked(answer)
  BY Zenon
<1>4. /\ Top \in Frames(routers, names) /\ Top.r \in 1..Len(Top.routes)
      /\ Top.a \in 1..Len(Route.actions) /\ Len(Route.actions) \in Nat \ {0}
      /\ Action.name \in names
      /\ Action.type \in {"gate", "tag"} => Top.a < Len(Route.actions)
  BY ZenonT(100), <1>1, AtAction
<1>5. /\ f \in Frames(routers, names) /\ f.base = Top.base /\ f.reasons = Top.reasons
      /\ f.routes = Top.routes /\ f.r = Top.r /\ f.a = Top.a
      /\ answer = Pass =>
           f.marks = Top.marks \cup (IF Action.kind = "transform" THEN {Action.name} ELSE {})
  BY SMTT(60), <1>3, <1>4, WorkedFrame
<1>6. PICK y \in Seq(names) : y = Top.reasons
  BY ZenonT(100), <1>4 DEF Frames
<1>7. shown \in Seq(names) /\ <<>> \in Seq(names)
  BY DEF Stacked
<1>8. Join(shown, <<>>) = shown /\ Join(y, <<>>) = y
  BY ZenonT(100), <1>7, JoinedType
<1>9. CASE answer.is = "pass" /\ GoOn(NextAction(Worked(answer))) /\ UNCHANGED shown
  <2>1. PICK g : g = NextAction(f)
    BY Zenon
  <2>2. answer = Pass /\ Top.a < Len(Route.actions)
    BY ZenonT(100), <1>4, <1>9, AnswerForms
  <2>3. /\ g \in Frames(routers, names) /\ g.base = Top.base /\ g.reasons = y
        /\ g.routes = Top.routes /\ g.r = Top.r /\ g.a = Top.a + 1 /\ g.marks = f.marks
    BY SMTT(60), <1>5, <1>6, <2>1 DEF NextAction, Frames
  <2>4. Placed(g)
    BY SMTT(60), <1>4, <2>2, <2>3 DEF Placed, Route
  <2>5. Passed(g) = Passed(Top) \cup (IF Action.kind = "transform" THEN {Action.name} ELSE {})
    <3>1. Top.a \in Nat \ {0} /\ g.a - 1 = Top.a
      BY SMTT(60), <1>4, <2>3
    <3> QED
      BY ZenonT(100), <2>3, <3>1, PassedNext DEF Action, Route
  <2>6. g.marks = g.base \cup Passed(g)
    BY ZenonT(100), <1>1, <1>5, <2>2, <2>3, <2>5, TopMarks
  <2>7. GoOn(g) /\ g.reasons = Join(Top.reasons, <<>>) /\ shown' = Join(shown, <<>>)
    BY ZenonT(100), <1>3, <1>6, <1>8, <1>9, <2>1, <2>3
  <2> QED
    BY ZenonT(100), <1>1, <1>7, <2>3, <2>4, <2>6, <2>7, GoOnStep
<1>10. CASE answer.is = "reject" /\ Silent(Action, answer)
            /\ GoOn(NextRoute(Worked(answer))) /\ UNCHANGED shown
  <2>1. PICK g : g = NextRoute(f)
    BY Zenon
  <2>2. /\ g \in Frames(routers, names) /\ Placed(g) /\ g.base = Top.base
        /\ g.marks = g.base \cup Passed(g) /\ g.reasons = y
    BY SMTT(60), <1>5, <1>6, <2>1, NextRouteFrame
  <2>3. GoOn(g) /\ g.reasons = Join(Top.reasons, <<>>) /\ shown' = Join(shown, <<>>)
    BY ZenonT(100), <1>3, <1>6, <1>8, <1>10, <2>1, <2>2
  <2> QED
    BY ZenonT(100), <1>1, <1>7, <2>2, <2>3, GoOnStep
<1>11. CASE answer.is = "reject" /\ GoOn(NextRoute(Noted(Worked(answer), answer.reasons)))
            /\ shown' = shown \o answer.reasons
  <2>1. PICK more \in Seq(names) : more = answer.reasons
    <3>1. answer.reasons = <<Action.name>>
      BY ZenonT(100), <1>11, AnswerForms
    <3>2. \A name \in names : <<name>> \in Seq(names)
      OBVIOUS
    <3> QED
      BY ZenonT(100), <1>4, <3>1, <3>2
  <2>2. PICK h : h = Noted(f, more)
    BY Zenon
  <2>3. PICK g : g = NextRoute(h)
    BY ZenonT(100)
  <2>4. h \in Frames(routers, names) /\ h.base = Top.base /\ h.reasons = Join(y, more)
    BY SMTT(60), <1>5, <1>6, <2>2, NotedFrame
  <2>5. /\ g \in Frames(routers, names) /\ Placed(g) /\ g.base = Top.base
        /\ g.marks = g.base \cup Passed(g) /\ g.reasons = Join(Top.reasons, more)
    BY SMTT(60), <1>6, <2>3, <2>4, NextRouteFrame
  <2>6. GoOn(g)
    BY ZenonT(100), <1>3, <1>11, <2>1, <2>2, <2>3
  <2>7. shown' = Join(shown, more)
    BY ZenonT(100), <1>11, <2>1 DEF Join
  <2> QED
    BY ZenonT(100), <1>1, <2>5, <2>6, <2>7, GoOnStep
<1>12. CASE run' = [at |-> "done", stack |-> <<>>] /\ UNCHANGED shown
  BY ZenonT(100), <1>12, FinishStep
<1> QED
  BY ZenonT(100), <1>2, <1>9, <1>10, <1>11, <1>12

\* An action starts where the job stands.
LEMMA ActsStep ==
  ASSUME NEW routers, NEW names, Stacked(routers, names), run.at \in Running, NEW at \in {"act", "worker"},
         run' = [run EXCEPT !.at = at], UNCHANGED shown, Top.r <= Len(Top.routes)
  PROVE  Stacked(routers, names)'
<1>1. run'.at = at /\ run'.stack = run.stack
      /\ run' \in [at: Running \cup {"none", "done", "rejected"}, stack: Seq(Frames(routers, names))]
  BY Zenon DEF Stacked, Running
<1>2. Top' = Top
  BY ZenonT(100), <1>1 DEF Top
<1> QED
  BY ZenonT(100), <1>1, <1>2 DEF Stacked, Running

\* The invariant holds at first and in every step: of the job, of its client, and
\* of the caller that cancels it.
LEMMA StackedKept ==
  ASSUME NEW routers, NEW names, Routable(routers, names), Stacked(routers, names),
         [RoutingNext(routers)]_<<config, routing>>
  PROVE  Stacked(routers, names)'
<1>1. CASE UNCHANGED <<run, shown>> /\ (result' = result \/ result' = {})
  BY ZenonT(100), <1>1 DEF Stacked, Top
<1>2. CASE \E routes \in routers : Start(routes)
  <2>1. PICK routes \in routers : Start(routes)
    BY ZenonT(100), <1>2
  <2>2. PICK g : g = Frame(routes, {})
    BY ZenonT(100)
  <2>3. PICK t : t = <<g>>
    BY ZenonT(100)
  <2>4. /\ g \in Frames(routers, names) /\ g.a = 1 /\ g.r = 1 /\ g.routes \in routers
        /\ g.base = {} /\ g.marks = {} /\ g.reasons = <<>>
    BY SMTT(60), <2>2 DEF Frame, Frames
  <2>5. Placed(g) /\ Passed(g) = {}
    BY SMTT(60), <2>4, NothingPassed, PlacedAtStart
  <2>6. t \in Seq(Frames(routers, names)) /\ Len(t) = 1 /\ t[1] = g /\ t # <<>>
    BY SMTT(60), <2>3, <2>4
  <2>7. Under(t, 0) = {} /\ Under(t, 0 + 1) = Under(t, 0) \cup Passed(t[0 + 1])
    BY ZenonT(100), UnderFacts
  <2>8. Marks(t)
    <3>1. Under(t, 0) = {} /\ Under(t, 1) = {}
      BY SMTT(60), <2>5, <2>6, <2>7
    <3>2. \A i \in 1..Len(t) : i = 1 /\ i - 1 = 0
      BY SMTT(60), <2>6
    <3> QED
      BY ZenonT(100), <2>4, <2>6, <3>1, <3>2 DEF Marks
  <2>9. run' = [at |-> "gate", stack |-> t] /\ shown' = <<>>
    BY ZenonT(100), <2>1, <2>2, <2>3 DEF Start, Stacked
  <2>10. \E p : Tells(p, t, names) /\ p[Len(t)] = <<>>
    <3>1. PICK p : p = [i \in 0..1 |-> <<>>]
      BY Zenon
    <3>2. p \in [0..1 -> Seq(names)] /\ p[0] = <<>> /\ p[1] = <<>>
      BY SMTT(60), <3>1
    <3>3. Join(<<>>, <<>>) = <<>>
      BY SMTT(60) DEF Join
    <3>4. \A i \in 1..1 : p[i] = Join(p[i - 1], t[i].reasons)
      BY SMTT(60), <2>4, <2>6, <3>2, <3>3
    <3> QED
      BY ZenonT(100), <2>6, <3>2, <3>4 DEF Tells
  <2>11. run'.at = "gate" /\ run'.stack = t
         /\ run' \in [at: Running \cup {"none", "done", "rejected"}, stack: Seq(Frames(routers, names))]
    BY ZenonT(100), <2>6, <2>9 DEF Running
  <2>12. \A i \in 1..Len(t) : Placed(t[i])
    BY SMTT(60), <2>5, <2>6
  <2>13. shown' \in Seq(names)
    BY SMTT(60), <2>9
  <2>14. run'.at \notin {"act", "worker"} /\ run'.at # "none" /\ run'.at # "rejected"
    BY ZenonT(100), <2>11
  <2>15. \E p : Tells(p, run'.stack, names) /\ p[Len(run'.stack)] = shown'
    BY ZenonT(100), <2>9, <2>10, <2>11
  <2> QED
    BY ZenonT(100), <2>6, <2>8, <2>11, <2>12, <2>13, <2>14, <2>15 DEF Stacked
<1>3. CASE SwitchEnds
  BY ZenonT(100), <1>3, SwitchEndsStep
<1>4. CASE Gate
  <2>1. run.at = "gate" /\ Top.r <= Len(Top.routes) /\ UNCHANGED shown
        /\ (run' = [run EXCEPT !.at = "act"] \/ run' = [at |-> "done", stack |-> <<>>])
    BY ZenonT(100), <1>4 DEF Gate, Begin, Finish
  <2>2. CASE run' = [at |-> "done", stack |-> <<>>]
    BY ZenonT(100), <2>1, <2>2, FinishStep
  <2>3. CASE run' = [run EXCEPT !.at = "act"]
    BY ZenonT(100), <2>1, <2>3, ActsStep DEF Running
  <2> QED
    BY ZenonT(100), <2>1, <2>2, <2>3
<1>5. CASE Descend
  BY Zenon, <1>5, DescendStep
<1>6. CASE Turned
  <2>1. run' = [at |-> "done", stack |-> <<>>] /\ UNCHANGED shown
    BY ZenonT(100), <1>6 DEF Turned, Finish
  <2> QED
    BY ZenonT(100), <2>1, FinishStep
<1>7. CASE PickUp
  <2>1. run.at = "act" /\ UNCHANGED shown /\ run' = [run EXCEPT !.at = "worker"]
    BY ZenonT(100), <1>7 DEF PickUp
  <2>2. Top.r <= Len(Top.routes)
    BY ZenonT(100), <2>1 DEF Stacked
  <2> QED
    BY ZenonT(100), <2>1, <2>2, ActsStep DEF Running
<1>8. CASE Perform
  BY Zenon, <1>8, PerformStep
<1>9. CASE Cancel \/ Away \/ Polled \/ UNCHANGED <<config, routing>>
  BY ZenonT(100), <1>1, <1>9 DEF Cancel, Away, Polled, routing
<1> QED
  BY ZenonT(100), <1>2, <1>3, <1>4, <1>5, <1>6, <1>7, <1>8, <1>9 DEF RoutingNext, RoutingStep

\* At first there is no stack and nothing was shown.
LEMMA StackedFirst == ASSUME NEW routers, NEW names, RoutingInit PROVE Stacked(routers, names)
<1>1. /\ run = [at |-> "none", stack |-> <<>>] /\ shown = <<>>
      /\ <<>> \in Seq(Frames(routers, names)) /\ <<>> \in Seq(names) /\ Len(<<>>) = 0
  BY DEF RoutingInit, NotRun
<1>2. Marks(<<>>)
  BY SMTT(60), <1>1 DEF Marks
<1> QED
  BY SMTT(60), <1>1, <1>2 DEF Stacked, Running

\* The inductive invariant: Switch::dispatch keeps its position, its copies of the
\* job and its rejections in step through any nesting.
THEOREM StackInvariance ==
  ASSUME NEW routers, NEW names, Routable(routers, names)
  PROVE  RoutingSpec(routers) => []Stacked(routers, names)
<1>1. RoutingInit => Stacked(routers, names)
  BY ZenonT(100), StackedFirst
<1>2. Stacked(routers, names) /\ [RoutingNext(routers)]_<<config, routing>> => Stacked(routers, names)'
  BY ZenonT(100), StackedKept
<1> QED
  BY <1>1, <1>2, PTL DEF RoutingSpec

\* What a rejected route did to the job never reaches a later one: at every action
\* the job carries exactly the transforms of the routes it is in.
THEOREM NoLeakCorrect ==
  ASSUME NEW routers, NEW names, Routable(routers, names)
  PROVE  RoutingSpec(routers) => []NoLeak
<1>1. Stacked(routers, names) => NoLeak
  <2> SUFFICES ASSUME Stacked(routers, names), run.at \in {"act", "worker"} PROVE Top.marks = Applied
    BY Zenon DEF NoLeak
  <2>1. PICK n : n = Len(run.stack)
    BY ZenonT(100)
  <2>2. n \in Nat \ {0} /\ Top = run.stack[n] /\ Marks(run.stack) /\ DOMAIN run.stack = 1..n
    BY SMTT(60), <2>1 DEF Stacked, Top, Running
  <2>3. Top.marks = Under(run.stack, n)
    BY SMTT(60), <2>1, <2>2 DEF Marks
  <2>4. Applied = Under(run.stack, n)
    BY ZenonT(100), <2>2 DEF Applied, Under
  <2> QED
    BY ZenonT(100), <2>3, <2>4
<1> QED
  BY <1>1, StackInvariance, PTL

\* A job that no route took is answered with exactly the rejections that are not
\* silent, in order, however deeply the switches that gave them are nested.
THEOREM ReasonsCorrect ==
  ASSUME NEW routers, NEW names, Routable(routers, names)
  PROVE  RoutingSpec(routers) => []ReasonsExact
<1>1. Stacked(routers, names) => ReasonsExact
  BY Zenon DEF Stacked, ReasonsExact
<1> QED
  BY <1>1, StackInvariance, PTL

-----------------------------------------------------------------------------
(* The ceiling of a user *)

\* A set of naturals that is not empty has a least member.
LEMMA Least ==
  ASSUME NEW T, T \subseteq Nat, T # {}
  PROVE  \E x \in T : \A y \in T : x <= y
<1> DEFINE R == {ss \in Nat \X Nat : ss[1] < ss[2]}
<1>1. IsWellFoundedOn(R, Nat)
  BY Zenon, NatLessThanWellFounded DEF OpToRel
<1>2. \A x, y \in Nat : y < x => <<y, x>> \in R
  BY SMTT(60)
<1> HIDE DEF R
<1>3. PICK x \in T : \A y \in T : ~(<<y, x>> \in R)
  BY Zenon, <1>1, WFMin
<1>4. ASSUME NEW y \in T PROVE x <= y
  <2>1. x \in Nat /\ y \in Nat
    BY Zenon, <1>3, <1>4
  <2>2. ~(y < x)
    BY Zenon, <1>2, <1>3, <2>1
  <2> QED
    BY SMTT(60), <2>1, <2>2
<1> QED
  BY Zenon, <1>3, <1>4

\* Induction up to m, for membership of a set.
LEMMA Induct ==
  ASSUME NEW T, NEW m \in Nat, 0 \in T, \A n \in Nat : n < m /\ n \in T => n + 1 \in T
  PROVE  \A n \in 0..m : n \in T
<1> DEFINE B == {n \in 0..m : n \notin T}
<1>1. SUFFICES ASSUME B # {} PROVE FALSE
  OBVIOUS
<1>2. B \subseteq Nat /\ \A n : n \in B <=> n \in 0..m /\ n \notin T
  BY SMT
<1> HIDE DEF B
<1>3. PICK x \in B : \A y \in B : x <= y
  BY Zenon, <1>1, <1>2, Least
<1>4. x \in 0..m /\ x \notin T /\ x # 0
  BY Zenon, <1>2, <1>3
<1>5. x - 1 \in 0..m /\ x - 1 \in Nat /\ x - 1 < m /\ (x - 1) + 1 = x /\ ~(x <= x - 1)
  BY SMT, <1>4
<1>6. x - 1 \in T
  BY Zenon, <1>2, <1>3, <1>5
<1> QED
  BY Zenon, <1>4, <1>5, <1>6

Higher(x, y) == IF x >= y THEN x ELSE y
Plus(S, y) == S \cup {y}
Highest(c, S) == c \in S /\ \A d \in S : d <= c

\* The ceilings of the first i roles, and with them the defaults.
OfRoles(block, roles, i) ==
  {block.roles[roles[j]] : j \in {k \in 1..i : roles[k] \in DOMAIN block.roles}}
OfUser(max, block, roles, i) == {max, block.max} \cup OfRoles(block, roles, i)

\* Without a role there are the defaults.
LEMMA OfUserFirst ==
  ASSUME NEW max, NEW block, NEW roles
  PROVE  OfUser(max, block, roles, 0) = {max, block.max}
<1>1. OfRoles(block, roles, 0) = {}
  BY SMT DEF OfRoles
<1> QED
  BY Zenon, <1>1 DEF OfUser

\* One role more adds its ceiling, if it has one.
LEMMA OfUserNext ==
  ASSUME NEW max, NEW block, NEW roles, NEW m \in Nat, NEW i, i = m + 1, roles[i] \in DOMAIN block.roles
  PROVE  OfUser(max, block, roles, i) = Plus(OfUser(max, block, roles, m), block.roles[roles[i]])
<1>1. PICK D : D = DOMAIN block.roles
  OBVIOUS
<1>2. PICK K, M : K = {k \in 1..m : roles[k] \in D} /\ M = {k \in 1..i : roles[k] \in D}
  OBVIOUS
<1>3. M = K \cup {i}
  <2>1. 1..i = (1..m) \cup {i}
    BY SMT
  <2> QED
    BY Zenon, <1>1, <1>2, <2>1
<1>4. /\ OfRoles(block, roles, m) = {block.roles[roles[j]] : j \in K}
      /\ OfRoles(block, roles, i) = {block.roles[roles[j]] : j \in M}
  BY Zenon, <1>1, <1>2 DEF OfRoles
<1>5. OfRoles(block, roles, i) = OfRoles(block, roles, m) \cup {block.roles[roles[i]]}
  BY Zenon, <1>3, <1>4
<1> QED
  BY Zenon, <1>5 DEF OfUser, Plus

\* A role the realm does not mention adds no ceiling.
LEMMA OfUserSame ==
  ASSUME NEW max, NEW block, NEW roles, NEW m \in Nat, NEW i, i = m + 1, roles[i] \notin DOMAIN block.roles
  PROVE  OfUser(max, block, roles, i) = OfUser(max, block, roles, m)
<1>1. 1..i = (1..m) \cup {i}
  BY SMT
<1>2. {k \in 1..i : roles[k] \in DOMAIN block.roles} = {k \in 1..m : roles[k] \in DOMAIN block.roles}
  BY Zenon, <1>1
<1>3. OfRoles(block, roles, i) = OfRoles(block, roles, m)
  BY Zenon, <1>2 DEF OfRoles
<1> QED
  BY Zenon, <1>3 DEF OfUser

\* All of them are ceilings.
LEMMA OfUserOk ==
  ASSUME NEW max \in Ceilings, NEW block, BlockOk(block), NEW roles, NEW i
  PROVE  OfUser(max, block, roles, i) \subseteq Ceilings
BY Zenon DEF OfUser, OfRoles, BlockOk

\* The highest of a set and of one ceiling more.
LEMMA HighestMore ==
  ASSUME NEW S, S \subseteq Ceilings, NEW x \in Ceilings, NEW y \in Ceilings, Highest(x, S)
  PROVE  Highest(Higher(x, y), Plus(S, y)) /\ Higher(x, y) \in Ceilings
<1>1. x >= y \/ x <= y
  BY SMT DEF Ceilings
<1>2. (x >= y => y <= x) /\ y <= y
  BY SMT DEF Ceilings
<1>3. \A d \in Ceilings : d <= x /\ x <= y => d <= y
  BY SMT DEF Ceilings
<1>4. CASE x >= y
  BY Zenon, <1>2, <1>4 DEF Highest, Higher, Plus
<1>5. CASE ~(x >= y)
  <2>1. \A d \in S : d <= y
    BY ZenonT(100), <1>1, <1>3, <1>5 DEF Highest
  <2> QED
    BY Zenon, <1>2, <1>5, <2>1 DEF Highest, Higher, Plus
<1> QED
  BY Zenon, <1>4, <1>5

\* The highest of two.
LEMMA HighestPair ==
  ASSUME NEW x \in Ceilings, NEW y \in Ceilings
  PROVE  Highest(Higher(x, y), {x, y}) /\ Higher(x, y) \in Ceilings
BY SMT DEF Ceilings, Highest, Higher

\* There is one highest.
LEMMA HighestUnique ==
  ASSUME NEW S, S \subseteq Ceilings, NEW x, NEW y, Highest(x, S), Highest(y, S)
  PROVE  x = y
<1>1. x <= y /\ y <= x /\ x \in Ceilings /\ y \in Ceilings
  BY Zenon DEF Highest
<1> QED
  BY SMT, <1>1 DEF Ceilings

\* The loop of resolve: its value at i from those before.
MostStep(max, block, roles, g, i) ==
  IF i = 0 THEN Higher(max, block.max)
  ELSE IF roles[i] \in DOMAIN block.roles THEN Higher(g[i - 1], block.roles[roles[i]]) ELSE g[i - 1]
MostOf(max, block, roles, g) == [i \in 0..Len(roles) |-> MostStep(max, block, roles, g, i)]

\* There is a highest after every role.
LEMMA HighestExists ==
  ASSUME NEW max \in Ceilings, NEW block, BlockOk(block), NEW roles, Len(roles) \in Nat
  PROVE  \A i \in 0..Len(roles) : \E c \in Ceilings : Highest(c, OfUser(max, block, roles, i))
<1> DEFINE S(i) == OfUser(max, block, roles, i)
<1>1. PICK T : T = {i \in Nat : \E c \in Ceilings : Highest(c, S(i))}
  BY ZenonT(100)
<1>2. \A i : S(i) \subseteq Ceilings
  BY Zenon, OfUserOk
<1>3. 0 \in T
  <2>1. S(0) = {max, block.max} /\ block.max \in Ceilings /\ 0 \in Nat
    BY Zenon, OfUserFirst DEF BlockOk
  <2> HIDE DEF S
  <2>2. Highest(Higher(max, block.max), S(0)) /\ Higher(max, block.max) \in Ceilings
    BY Zenon, <2>1, HighestPair
  <2> QED
    BY Zenon, <1>1, <2>1, <2>2
<1>4. ASSUME NEW n \in Nat, n \in T PROVE n + 1 \in T
  <2>1. PICK c \in Ceilings : Highest(c, S(n))
    BY Zenon, <1>1, <1>4
  <2>2. n + 1 \in Nat
    OBVIOUS
  <2>3. CASE roles[n + 1] \in DOMAIN block.roles
    <3>1. PICK d : d = block.roles[roles[n + 1]] /\ d \in Ceilings
      BY ZenonT(100), <2>3 DEF BlockOk
    <3>2. S(n + 1) = Plus(S(n), d)
      BY SMTT(60), <1>4, <2>3, <3>1, OfUserNext
    <3> HIDE DEF S
    <3>3. Highest(Higher(c, d), S(n + 1)) /\ Higher(c, d) \in Ceilings
      BY SMTT(60), <1>2, <2>1, <3>1, <3>2, HighestMore
    <3> QED
      BY Zenon, <1>1, <2>2, <3>3
  <2>4. CASE roles[n + 1] \notin DOMAIN block.roles
    <3>1. S(n + 1) = S(n)
      BY SMTT(60), <1>4, <2>4, OfUserSame
    <3> HIDE DEF S
    <3> QED
      BY ZenonT(100), <1>1, <2>1, <2>2, <3>1
  <2> QED
    BY Zenon, <2>3, <2>4
<1>5. \A i \in 0..Len(roles) : i \in T
  BY Zenon, <1>3, <1>4, Induct
<1> QED
  BY Zenon, <1>1, <1>5

\* Some function satisfies the equation of the loop: the one that gives the
\* highest.
LEMMA MostExists ==
  ASSUME NEW max \in Ceilings, NEW block, BlockOk(block), NEW roles, Len(roles) \in Nat
  PROVE  \E g : g = MostOf(max, block, roles, g)
<1> DEFINE S(i) == OfUser(max, block, roles, i)
<1>1. PICK n \in Nat : n = Len(roles)
  OBVIOUS
<1>2. PICK h : h = [i \in 0..n |-> CHOOSE c \in Ceilings : Highest(c, S(i))]
  OBVIOUS
<1>3. \A i \in 0..n : h[i] \in Ceilings /\ Highest(h[i], S(i))
  BY Zenon, <1>1, <1>2, HighestExists
<1>4. \A i : S(i) \subseteq Ceilings
  BY Zenon, OfUserOk
<1>5. ASSUME NEW i \in 0..n PROVE h[i] = MostStep(max, block, roles, h, i)
  <2>1. CASE i = 0
    <3>1. S(0) = {max, block.max} /\ block.max \in Ceilings
      BY Zenon, OfUserFirst DEF BlockOk
    <3>2. MostStep(max, block, roles, h, i) = Higher(max, block.max)
      BY Zenon, <2>1 DEF MostStep
    <3> HIDE DEF S
    <3>3. Highest(Higher(max, block.max), S(0))
      BY Zenon, <3>1, HighestPair
    <3> QED
      BY Zenon, <1>3, <1>4, <1>5, <2>1, <3>2, <3>3, HighestUnique
  <2>2. CASE i # 0
    <3>1. PICK m : m = i - 1 /\ m \in Nat /\ m \in 0..n /\ m + 1 = i
      BY SMTT(60), <1>5, <2>2
    <3>2. h[m] \in Ceilings /\ Highest(h[m], S(m)) /\ Highest(h[i], S(i))
      BY Zenon, <1>3, <1>5, <3>1
    <3>3. CASE roles[i] \in DOMAIN block.roles
      <4>1. PICK d : d = block.roles[roles[i]] /\ d \in Ceilings
        BY ZenonT(100), <3>3 DEF BlockOk
      <4>2. S(i) = Plus(S(m), d)
        BY SMTT(60), <3>1, <3>3, <4>1, OfUserNext
      <4>3. MostStep(max, block, roles, h, i) = Higher(h[m], d)
        BY ZenonT(100), <2>2, <3>1, <3>3, <4>1 DEF MostStep
      <4> HIDE DEF S
      <4>4. Highest(Higher(h[m], d), S(i))
        BY SMTT(60), <1>4, <3>2, <4>1, <4>2, HighestMore
      <4> QED
        BY ZenonT(100), <1>4, <3>2, <4>3, <4>4, HighestUnique
    <3>4. CASE roles[i] \notin DOMAIN block.roles
      <4>1. S(i) = S(m)
        BY SMTT(60), <3>1, <3>4, OfUserSame
      <4>2. MostStep(max, block, roles, h, i) = h[m]
        BY Zenon, <2>2, <3>1, <3>4 DEF MostStep
      <4> HIDE DEF S
      <4> QED
        BY ZenonT(100), <1>4, <3>2, <4>1, <4>2, HighestUnique
    <3> QED
      BY Zenon, <3>3, <3>4
  <2> QED
    BY Zenon, <2>1, <2>2
<1>6. h = MostOf(max, block, roles, h)
  <2>1. h = [i \in 0..n |-> h[i]]
    BY SMTT(60), <1>2
  <2>2. [i \in 0..n |-> h[i]] = [i \in 0..n |-> MostStep(max, block, roles, h, i)]
    BY Zenon, <1>5
  <2> QED
    BY ZenonT(100), <1>1, <2>1, <2>2 DEF MostOf
<1> QED
  BY Zenon, <1>6

\* A function that satisfies the equation of the loop gives the highest.
LEMMA MostHighest ==
  ASSUME NEW max \in Ceilings, NEW block, BlockOk(block), NEW roles, Len(roles) \in Nat,
         NEW g, g = MostOf(max, block, roles, g)
  PROVE  Highest(g[Len(roles)], OfUser(max, block, roles, Len(roles)))
<1> DEFINE S(i) == OfUser(max, block, roles, i)
<1>1. PICK n \in Nat : n = Len(roles)
  OBVIOUS
<1>2. \A i \in 0..n : g[i] = MostStep(max, block, roles, g, i)
  BY Zenon, <1>1 DEF MostOf
<1>3. PICK T : T = {i \in 0..n : g[i] \in Ceilings /\ Highest(g[i], S(i))}
  OBVIOUS
<1>4. \A i : S(i) \subseteq Ceilings
  BY Zenon, OfUserOk
<1>5. 0 \in T
  <2>1. S(0) = {max, block.max} /\ block.max \in Ceilings
    BY Zenon, OfUserFirst DEF BlockOk
  <2>2. 0 \in 0..n
    BY <1>1
  <2>3. g[0] = Higher(max, block.max)
    BY Zenon, <1>2, <2>2 DEF MostStep
  <2> HIDE DEF S
  <2> QED
    BY Zenon, <1>3, <2>1, <2>2, <2>3, HighestPair
<1>6. ASSUME NEW m \in Nat, m < n, m \in T PROVE m + 1 \in T
  <2>1. PICK i : i = m + 1 /\ i \in 0..n /\ i # 0 /\ i - 1 = m
    BY SMTT(60), <1>6
  <2>2. g[m] \in Ceilings /\ Highest(g[m], S(m))
    BY ZenonT(100), <1>3, <1>6
  <2>3. g[i] \in Ceilings /\ Highest(g[i], S(i))
    <3>3. CASE roles[i] \in DOMAIN block.roles
      <4>1. PICK d : d = block.roles[roles[i]] /\ d \in Ceilings
        BY ZenonT(100), <3>3 DEF BlockOk
      <4>2. S(i) = Plus(S(m), d)
        BY SMTT(60), <2>1, <3>3, <4>1, OfUserNext
      <4>3. g[i] = Higher(g[m], d)
        BY ZenonT(100), <1>2, <2>1, <3>3, <4>1 DEF MostStep
      <4> HIDE DEF S
      <4> QED
        BY SMTT(60), <1>4, <2>2, <4>1, <4>2, <4>3, HighestMore
    <3>4. CASE roles[i] \notin DOMAIN block.roles
      <4>1. S(i) = S(m)
        BY SMTT(60), <2>1, <3>4, OfUserSame
      <4>2. g[i] = g[m]
        BY ZenonT(100), <1>2, <2>1, <3>4 DEF MostStep
      <4> HIDE DEF S
      <4> QED
        BY ZenonT(100), <2>2, <4>1, <4>2
    <3> QED
      BY ZenonT(100), <3>3, <3>4
  <2> QED
    BY ZenonT(100), <1>3, <2>1, <2>3
<1>7. \A i \in 0..n : i \in T
  BY ZenonT(100), <1>5, <1>6, Induct
<1>8. n \in 0..n
  BY <1>1
<1> QED
  BY ZenonT(100), <1>1, <1>3, <1>7, <1>8

\* resolve gives the highest of the defaults and of the ceilings of the roles.
LEMMA ResolveHighest ==
  ASSUME NEW limit, NEW user, LimitOk(limit), UserOk(user), user.identified, user.realm \in RealmsOf(limit)
  PROVE  Highest(resolve(limit, user),
                 OfUser(limit.max, limit.realms[user.realm], user.roles, Len(user.roles)))
<1>1. PICK block : block = limit.realms[user.realm]
  OBVIOUS
<1>2. BlockOk(block) /\ limit.max \in Ceilings /\ Len(user.roles) \in Nat
  BY ZenonT(100), <1>1 DEF LimitOk, UserOk
<1>3. resolve(limit, user) = (CHOOSE g : g = MostOf(limit.max, limit.realms[user.realm], user.roles, g))[Len(user.roles)]
  BY DEF resolve, MostOf, MostStep, Higher
<1>4. PICK g : g = (CHOOSE f : f = MostOf(limit.max, limit.realms[user.realm], user.roles, f))
  OBVIOUS
<1>5. g = MostOf(limit.max, block, user.roles, g)
  BY ZenonT(100), <1>1, <1>2, <1>4, MostExists
<1>6. resolve(limit, user) = g[Len(user.roles)]
  BY Zenon, <1>3, <1>4
<1> QED
  BY ZenonT(100), <1>1, <1>2, <1>5, <1>6, MostHighest

\* A user with n jobs is at or above the highest of some ceilings exactly when one
\* of them is given and the user is at or above all that are.
LEMMA AboveAll ==
  ASSUME NEW S, S \subseteq Ceilings, NEW h, Highest(h, S), NEW n \in Nat
  PROVE  (h # Unset /\ n >= h) <=> (S \ {Unset} # {} /\ \A c \in S \ {Unset} : n >= c)
<1>1. h \in Ceilings /\ h \in S /\ \A d \in S : d \in Ceilings /\ d <= h
  BY Zenon DEF Highest
<1>2. ASSUME h = Unset PROVE S \ {Unset} = {}
  <2>1. \A d \in S : d = Unset
    BY SMTT(60), <1>1, <1>2 DEF Ceilings, Unset
  <2> QED
    BY Zenon, <2>1
<1>3. ASSUME h # Unset, n >= h PROVE \A c \in S \ {Unset} : n >= c
  BY SMTT(60), <1>1, <1>3 DEF Ceilings
<1>4. ASSUME h # Unset PROVE h \in S \ {Unset}
  BY Zenon, <1>1, <1>4
<1> QED
  BY ZenonT(100), <1>2, <1>3, <1>4

\* The ceilings that apply to a user, as LimitGenerous has them.
Applying(limit, user) ==
  LET own == IF user.realm \in RealmsOf(limit) THEN limit.realms[user.realm] ELSE [max |-> Unset, roles |-> <<>>]
  IN ({limit.max, own.max} \cup {own.roles[x] : x \in {user.roles[i] : i \in DOMAIN user.roles} \cap DOMAIN own.roles}) \ {Unset}
Turns(limit, user) ==
  resolve(limit, user) # Unset /\ user.jobs >= resolve(limit, user)

\* The verdict of the dispatcher is the one LimitGenerous asks for.
LEMMA VerdictExact ==
  ASSUME NEW limit, NEW user, LimitOk(limit), UserOk(user)
  PROVE  Turns(limit, user) <=>
           user.identified /\ Applying(limit, user) # {} /\ \A c \in Applying(limit, user) : user.jobs >= c
<1>1. CASE ~user.identified
  BY Zenon, <1>1 DEF Turns, resolve
<1>2. CASE user.identified /\ user.realm \notin RealmsOf(limit)
  <2>1. resolve(limit, user) = limit.max
    BY ZenonT(100), <1>2 DEF resolve
  <2>2. PICK own : own = [max |-> Unset, roles |-> <<>>]
    BY ZenonT(100)
  <2>3. own.max = Unset /\ DOMAIN own.roles = {}
    BY SMTT(60), <2>2
  <2>4. Applying(limit, user) = {limit.max} \ {Unset}
    BY ZenonT(100), <1>2, <2>2, <2>3 DEF Applying
  <2>5. {limit.max} \subseteq Ceilings /\ user.jobs \in Nat /\ Highest(limit.max, {limit.max})
    BY SMT DEF LimitOk, UserOk, Ceilings, Highest
  <2>6. (limit.max # Unset /\ user.jobs >= limit.max)
        <=> ({limit.max} \ {Unset} # {} /\ \A c \in {limit.max} \ {Unset} : user.jobs >= c)
    BY ZenonT(100), <2>5, AboveAll
  <2> QED
    BY ZenonT(100), <1>2, <2>1, <2>4, <2>6 DEF Turns
<1>3. CASE user.identified /\ user.realm \in RealmsOf(limit)
  <2>1. PICK block : block = limit.realms[user.realm]
    OBVIOUS
  <2>2. PICK S : S = OfUser(limit.max, block, user.roles, Len(user.roles))
    OBVIOUS
  <2>3. BlockOk(block) /\ limit.max \in Ceilings /\ user.jobs \in Nat /\ DOMAIN user.roles = 1..Len(user.roles)
    BY Zenon, <1>3, <2>1 DEF LimitOk, UserOk
  <2>4. Highest(resolve(limit, user), S) /\ S \subseteq Ceilings
    BY ZenonT(100), <1>3, <2>1, <2>2, <2>3, ResolveHighest, OfUserOk
  <2>5. {block.roles[x] : x \in {user.roles[i] : i \in DOMAIN user.roles} \cap DOMAIN block.roles}
        = OfRoles(block, user.roles, Len(user.roles))
    BY Zenon, <2>3 DEF OfRoles
  <2>6. Applying(limit, user) = S \ {Unset}
    BY ZenonT(100), <1>3, <2>1, <2>2, <2>5 DEF Applying, OfUser
  <2>7. PICK h : h = resolve(limit, user)
    OBVIOUS
  <2>8. (h # Unset /\ user.jobs >= h) <=> (S \ {Unset} # {} /\ \A c \in S \ {Unset} : user.jobs >= c)
    BY ZenonT(100), <2>3, <2>4, <2>7, AboveAll
  <2> QED
    BY ZenonT(100), <1>3, <2>6, <2>7, <2>8 DEF Turns
<1> QED
  BY ZenonT(100), <1>1, <1>2, <1>3

\* The inductive invariant: the last verdict is what resolve makes of the limit,
\* and a job that a worker holds was not to be turned away.
Judged ==
  /\ judged = NotJudged \/ \E l : LimitOk(l) /\ judged = [limit |-> l, refused |-> Turns(l, config.user)]
  /\ run.at = "worker" => ~Turns(Action.limit, config.user)

\* The limit of the action a job is at.
LEMMA AtLimit ==
  ASSUME NEW routers, NEW names, Routable(routers, names), Limited(routers), Stacked(routers, names),
         run.at \in {"act", "worker"}
  PROVE  LimitOk(Action.limit)
<1>1. Top.routes \in routers /\ Top.r \in 1..Len(Top.routes) /\ Top.a \in 1..Len(Route.actions)
  BY Zenon, AtAction DEF Frames
<1> QED
  BY Zenon, <1>1 DEF Limited, Action, Route

\* A verdict is that of the action the job is at.
LEMMA JudgedNow ==
  ASSUME NEW l, LimitOk(l), NEW v, v = Turns(l, config.user), judged' = [limit |-> l, refused |-> v],
         UNCHANGED config, run'.at # "worker" \/ (run'.at = "worker" => ~Turns(Action.limit, config.user)')
  PROVE  Judged'
BY Zenon DEF Judged

\* Every step keeps the verdicts right.
LEMMA JudgedKept ==
  ASSUME NEW routers, NEW names, Routable(routers, names), Limited(routers), Stacked(routers, names), Judged,
         [RoutingNext(routers)]_<<config, routing>>
  PROVE  Judged'
<1>0. \A stack : \A at \in {"gate", "done", "rejected"} : [at |-> at, stack |-> stack].at # "worker"
  BY SMT
<1>r. \A at : [run EXCEPT !.at = at].at = at /\ [run EXCEPT !.at = at].stack = run.stack
  BY Zenon DEF Stacked
<1>f. ASSUME NEW answer, Finish(answer) PROVE run'.at # "worker"
  BY Zenon, <1>0, <1>f DEF Finish
<1>g. ASSUME NEW f, GoOn(f) PROVE run'.at # "worker"
  BY Zenon, <1>0, <1>g DEF GoOn
<1>c. UNCHANGED config
  BY Zenon DEF RoutingNext
<1>1. ASSUME UNCHANGED judged, run'.at # "worker" \/ UNCHANGED run PROVE Judged'
  BY Zenon, <1>1, <1>c DEF Judged, Action, Route, Top
<1>2. CASE (\E routes \in routers : Start(routes)) \/ Cancel \/ Away \/ Polled \/ UNCHANGED <<config, routing>>
  <2>1. UNCHANGED judged /\ (UNCHANGED run \/ \E stack : run' = [at |-> "gate", stack |-> stack])
    BY ZenonT(100), <1>2 DEF Start, Cancel, Away, Polled, routing
  <2> QED
    BY ZenonT(100), <1>0, <1>1, <2>1
<1>3. CASE SwitchEnds
  <2>1. UNCHANGED judged /\ \E stack : \E at \in {"gate", "rejected"} : run' = [at |-> at, stack |-> stack]
    BY ZenonT(100), <1>3 DEF SwitchEnds
  <2> QED
    BY ZenonT(100), <1>0, <1>1, <2>1
<1>4. CASE Gate
  <2>1. UNCHANGED judged /\ ((\E answer : Finish(answer)) \/ run' = [run EXCEPT !.at = "act"])
    BY Zenon, <1>4 DEF Gate, Begin
  <2>2. run'.at # "worker"
    BY ZenonT(100), <1>f, <1>r, <2>1
  <2> QED
    BY ZenonT(100), <1>1, <2>1, <2>2
<1>5. CASE Descend
  BY ZenonT(100), <1>0, <1>1, <1>5 DEF Descend
<1>6. CASE Turned
  <2>1. run.at = "act" /\ run'.at # "worker"
    BY Zenon, <1>f, <1>6 DEF Turned
  <2>2. CASE UNCHANGED judged
    BY ZenonT(100), <1>1, <2>1, <2>2
  <2>3. CASE Refused(Action) /\ judged' = [limit |-> Action.limit, refused |-> TRUE]
    <3>1. PICK l : l = Action.limit /\ LimitOk(l)
      BY Zenon, <2>1, AtLimit
    <3>2. Turns(l, config.user)
      BY ZenonT(100), <2>3, <3>1 DEF Refused, Turns
    <3>3. TRUE = Turns(l, config.user)
      BY ZenonT(100), <3>2 DEF Turns
    <3> QED
      BY ZenonT(100), <1>c, <2>1, <2>3, <3>1, <3>3, JudgedNow
  <2> QED
    BY ZenonT(100), <1>6, <2>2, <2>3 DEF Turned
<1>7. ASSUME run.at \in {"act", "worker"}, ~Turns(Action.limit, config.user),
             judged' = [limit |-> Action.limit, refused |-> FALSE],
             run'.at # "worker" \/ run'.stack = run.stack
      PROVE  Judged'
  <2>1. PICK l : l = Action.limit /\ LimitOk(l)
    BY ZenonT(100), <1>7, AtLimit
  <2>2. FALSE = Turns(l, config.user)
    BY ZenonT(100), <1>7, <2>1 DEF Turns
  <2>3. run'.at # "worker" \/ ~Turns(Action.limit, config.user)'
    BY ZenonT(100), <1>7, <1>c DEF Action, Route, Top
  <2> QED
    BY ZenonT(100), <1>c, <1>7, <2>1, <2>2, <2>3, JudgedNow
<1>8. CASE PickUp
  <2>1. run.at = "act" /\ ~Refused(Action) /\ run' = [run EXCEPT !.at = "worker"]
        /\ judged' = [limit |-> Action.limit, refused |-> FALSE]
    BY Zenon, <1>8 DEF PickUp
  <2>2. ~Turns(Action.limit, config.user) /\ run'.stack = run.stack
    BY ZenonT(100), <1>r, <2>1 DEF Refused, Turns
  <2> QED
    BY ZenonT(100), <1>7, <2>1, <2>2
<1>9. CASE Perform
  <2>1. run.at \in {"act", "worker"} /\ run'.at # "worker"
    BY ZenonT(100), <1>f, <1>g, <1>9 DEF Perform
  <2>2. CASE ~Dispatched
    <3>1. UNCHANGED judged
      BY ZenonT(100), <1>9, <2>2 DEF Perform
    <3> QED
      BY ZenonT(100), <1>1, <2>1, <3>1
  <2>3. CASE Dispatched
    <3>1. judged' = [limit |-> Action.limit, refused |-> FALSE]
      BY ZenonT(100), <1>9, <2>3 DEF Perform
    <3>2. run.at = "worker" \/ ~Refused(Action)
      BY ZenonT(100), <1>9, <2>3 DEF Perform
    <3>3. ~Turns(Action.limit, config.user)
      BY ZenonT(100), <3>2 DEF Judged, Refused, Turns
    <3> QED
      BY ZenonT(100), <1>7, <2>1, <3>1, <3>3
  <2> QED
    BY ZenonT(100), <2>2, <2>3
<1> QED
  BY ZenonT(100), <1>2, <1>3, <1>4, <1>5, <1>6, <1>8, <1>9 DEF RoutingNext, RoutingStep

\* The most generous ceiling wins, for any limits, realms and roles: a user is
\* turned away exactly when some ceiling applies to them and they are at or above
\* every one that does.
THEOREM LimitCorrect ==
  ASSUME NEW routers, NEW names, Routable(routers, names), Limited(routers)
  PROVE  RoutingSpec(routers) /\ UserOk(config.user) => []LimitGenerous
<1> DEFINE Inv == Stacked(routers, names) /\ Judged /\ UserOk(config.user)
<1>1. RoutingInit /\ UserOk(config.user) => Inv
  <2> SUFFICES ASSUME RoutingInit PROVE Stacked(routers, names) /\ Judged
    BY Zenon
  <2>1. Judged
    <3>1. run.at = "none" /\ judged = NotJudged
      BY SMTT(60) DEF RoutingInit, NotRun
    <3> QED
      BY ZenonT(100), <3>1 DEF Judged
  <2> QED
    BY ZenonT(100), <2>1, StackedFirst
<1>2. Inv /\ [RoutingNext(routers)]_<<config, routing>> => Inv'
  <2> SUFFICES ASSUME Inv, [RoutingNext(routers)]_<<config, routing>> PROVE Inv'
    BY Zenon
  <2>1. UNCHANGED config
    BY Zenon DEF RoutingNext
  <2>2. UserOk(config.user)'
    BY ZenonT(100), <2>1
  <2> QED
    BY ZenonT(100), <2>2, StackedKept, JudgedKept
<1>3. Inv => LimitGenerous
  <2> SUFFICES ASSUME Judged, UserOk(config.user), judged # NotJudged
               PROVE  judged.refused <=>
                        /\ config.user.identified /\ Applying(judged.limit, config.user) # {}
                        /\ \A c \in Applying(judged.limit, config.user) : config.user.jobs >= c
    BY Zenon DEF LimitGenerous, Applying
  <2>1. PICK l : LimitOk(l) /\ judged = [limit |-> l, refused |-> Turns(l, config.user)]
    BY Zenon DEF Judged
  <2>2. judged.limit = l /\ judged.refused = Turns(l, config.user)
    BY ZenonT(100), <2>1
  <2> QED
    BY ZenonT(100), <2>1, <2>2, VerdictExact
<1> QED
  BY <1>1, <1>2, <1>3, PTL DEF RoutingSpec

-----------------------------------------------------------------------------
(* A job of the broker is a job of module Routing *)

\* The routers the broker hands out to submit to.
Handed(routers) == \A t \in Threads : Settled(t) => thread[t].routes \in routers

\* Every step of the broker is a step of Routing through one of its routers, or
\* leaves the job alone.
LEMMA RoutesStep ==
  ASSUME NEW routers, Handed(routers), [Next]_vars
  PROVE  [RoutingNext(routers)]_<<config, routing>>
<1>1. CASE Booting \/ Parsing \/ Calling \/ Dropping
  BY ZenonT(100), <1>1, ConfigFixed DEF Booting, Parsing, Calling, Dropping
<1>2. CASE submit_job
  BY ZenonT(100), <1>2 DEF submit_job, Handed, RoutingNext, startup
<1>3. CASE Executing
  BY Zenon, <1>3 DEF Executing, RoutingNext, startup
<1>4. CASE cancel \/ Leave
  BY Zenon, <1>4 DEF cancel, Leave, RoutingNext, startup
<1>5. CASE submit_overloaded \/ Persist \/ Cleanup \/ snapshot
  BY Zenon, <1>5 DEF submit_overloaded, Persist, Cleanup, snapshot, startup
<1>6. CASE Polling
  BY Zenon, <1>6 DEF Polling, poll_job, poll_python, poll_relayed, Poll, RoutingNext, startup
<1>7. CASE UNCHANGED vars
  BY Zenon, <1>7 DEF vars, startup
<1> QED
  BY ZenonT(100), <1>1, <1>2, <1>3, <1>4, <1>5, <1>6, <1>7 DEF Next

\* The broker implements Routing: whatever else goes on in it, startup, other
\* calls, the store, polls over three ways, its job goes through a router it
\* handed out as module Routing says.
THEOREM PipelineRoutes ==
  ASSUME NEW routers
  PROVE  Spec /\ []Handed(routers) => RoutingSpec(routers)
<1>1. PipelineInit => RoutingInit
  BY Zenon DEF PipelineInit
<1>2. Handed(routers) /\ [Next]_vars => [RoutingNext(routers)]_<<config, routing>>
  BY Zenon, RoutesStep
<1> QED
  BY <1>1, <1>2, PTL DEF Spec, RoutingSpec

\* With it, what is proved of Routing holds of the job of a broker.
THEOREM PipelineJobs ==
  ASSUME NEW routers, NEW names, Routable(routers, names), Limited(routers), \A c \in Configs : UserOk(c.user)
  PROVE  Spec /\ []Handed(routers) => []NoLeak /\ []ReasonsExact /\ []CancelHeeded /\ []LimitGenerous
<1>1. Spec => UserOk(config.user)
  <2>1. PipelineInit => UserOk(config.user)
    BY Zenon DEF PipelineInit, Init
  <2> QED
    BY <2>1, PTL DEF Spec
<1> QED
  BY <1>1, PipelineRoutes, NoLeakCorrect, ReasonsCorrect, CancelCorrect, LimitCorrect, PTL
=============================================================================
