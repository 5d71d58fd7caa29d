------------------------------- MODULE Routing -------------------------------
(***************************************************************************)
(* One job on its way through a router: Switch::dispatch tries the routes  *)
(* in order, each from the job as it entered the switch, and runs the      *)
(* actions of a route until one rejects, completes the job or fails.  The  *)
(* caller may cancel, and the client may leave, at any moment.             *)
(*                                                                         *)
(* A switch being tried is a frame: the route r and action a it is at, the *)
(* transforms applied to the job on entry (base) and now (marks), and the  *)
(* rejections to report (reasons).  Nested switches stack frames.          *)
(***************************************************************************)
EXTENDS Configuration, Outcomes

VARIABLES
  run,        \* [at, stack]: at is "none", "gate", "act", "worker", "done" or "rejected"
  cancelled,  \* cancellation was requested
  present,    \* the client is polling, or left less than the buffer ago
  status,     \* "queued", or "processing" once a worker has the job
  result,     \* the result of the job, in a set of at most one
  late,       \* history: actions started after the cancellation
  shown,      \* history: the rejections that are not silent, in order
  judged      \* history: the limit that was last applied, and its verdict

routing == <<run, cancelled, present, status, result, late, shown, judged>>

-----------------------------------------------------------------------------
(* The ceiling of a user *)

\* The first ceiling found is the one that counts.
resolve_first(limit, user) ==
  IF ~user.identified THEN Unset
  ELSE IF limit.max # Unset \/ user.realm \notin RealmsOf(limit) THEN limit.max
  ELSE limit.realms[user.realm].max

\* The highest of the global default, the default of the user's realm and the
\* ceilings of the user's roles in that realm; none for an unknown user.
resolve(limit, user) ==
  LET more(x, y) == IF x >= y THEN x ELSE y
      block == limit.realms[user.realm]
      most[i \in 0..Len(user.roles)] ==
        IF i = 0 THEN more(limit.max, block.max)
        ELSE IF user.roles[i] \in DOMAIN block.roles
             THEN more(most[i - 1], block.roles[user.roles[i]]) ELSE most[i - 1] IN
  IF ~user.identified THEN Unset
  ELSE IF user.realm \notin RealmsOf(limit) THEN limit.max
  ELSE most[Len(user.roles)]

Refused(action) ==
  LET ceiling == resolve(action.limit, config.user) IN
  ceiling # Unset /\ config.user.jobs >= ceiling

-----------------------------------------------------------------------------
NotRun == [at |-> "none", stack |-> <<>>]
NotJudged == [limit |-> NoLimit, refused |-> FALSE]

RoutingInit ==
  /\ run = NotRun /\ cancelled = FALSE /\ present = TRUE /\ status = "queued"
  /\ result = {} /\ late = 0 /\ shown = <<>> /\ judged = NotJudged

Frame(routes, base) ==
  [routes |-> routes, r |-> 1, a |-> 1, base |-> base, marks |-> base, reasons |-> <<>>]
Top == run.stack[Len(run.stack)]
\* The frames below the top one: the switch that dispatched this one and its outer ones.
Outer == SubSeq(run.stack, 1, Len(run.stack) - 1)
Route == Top.routes[Top.r]
Action == Route.actions[Top.a]
Replace(stack, frame) == [stack EXCEPT ![Len(stack)] = frame]
GoOn(frame) == run' = [at |-> "gate", stack |-> Replace(run.stack, frame)]

\* The next route sees the job as the last one left it.
NextRouteKeeping(frame) == [frame EXCEPT !.r = @ + 1, !.a = 1]
\* The route is not advanced past the one that rejected.
NextRouteAgain(frame) == [frame EXCEPT !.a = 1, !.marks = frame.base]
\* The next route starts again from the job that entered the switch.
NextRoute(frame) == [frame EXCEPT !.r = @ + 1, !.a = 1, !.marks = frame.base]
NextAction(frame) == [frame EXCEPT !.a = @ + 1]
Noted(frame, reasons) == [frame EXCEPT !.reasons = @ \o reasons]

Finish(answer) ==
  /\ run' = [at |-> "done", stack |-> <<>>]
  /\ result' = {dispatch(answer)}

Start(routes) ==
  /\ run.at = "none"
  /\ run' = [at |-> "gate", stack |-> <<Frame(routes, {})>>]
  /\ UNCHANGED <<cancelled, present, status, result, late, shown, judged>>

\* A nested switch rejects silently whatever its routes said.
SwitchEndsMute ==
  /\ run.at = "gate" /\ Top.r > Len(Top.routes)
  /\ IF Len(run.stack) = 1
     THEN /\ run' = [at |-> "rejected", stack |-> <<>>]
          /\ result' = {dispatch(Reject(Top.reasons, Top.reasons = <<>>))}
     ELSE /\ run' = [at |-> "gate", stack |-> Replace(Outer, NextRoute(Outer[Len(Outer)]))]
          /\ UNCHANGED result
  /\ UNCHANGED <<cancelled, present, status, late, shown, judged>>

\* All routes rejected the job: the switch rejects it too, silently if none of
\* the rejections was to be seen.
SwitchEnds ==
  /\ run.at = "gate" /\ Top.r > Len(Top.routes)
  /\ IF Len(run.stack) = 1
     THEN /\ run' = [at |-> "rejected", stack |-> <<>>]
          /\ result' = {dispatch(Reject(Top.reasons, Top.reasons = <<>>))}
     ELSE /\ run' = [at |-> "gate",
                     stack |-> Replace(Outer, NextRoute(Noted(Outer[Len(Outer)], Top.reasons)))]
          /\ UNCHANGED result
  /\ UNCHANGED <<cancelled, present, status, late, shown, judged>>

\* Cancellation is only looked at by targets.
BeginUngated == run' = [run EXCEPT !.at = "act"] /\ UNCHANGED result
\* Before every action the cancellation flag is read.
Begin == IF cancelled THEN Finish(Fails("Cancelled"))
         ELSE run' = [run EXCEPT !.at = "act"] /\ UNCHANGED result

Gate ==
  /\ run.at = "gate" /\ Top.r <= Len(Top.routes)
  /\ Begin
  /\ UNCHANGED <<cancelled, present, status, late, shown, judged>>

\* A nested switch is dispatched with the job as it is now.
Descend ==
  /\ run.at = "act" /\ Action.kind = "switch"
  /\ run' = [at |-> "gate", stack |-> Append(run.stack, Frame(Action.routes, Top.marks))]
  /\ UNCHANGED <<cancelled, present, status, result, late, shown, judged>>

Dispatched == Action.dispatcher # NoDispatcher
Target == Action.kind = "target"

\* The call of a dispatcher is refused, or ends while it waits; an inline
\* target is not called for a job that was cancelled or whose client left.
Turned ==
  /\ run.at = "act" /\ Action.kind # "switch"
  /\ \/ Dispatched /\ Refused(Action) /\ Finish(Fails("UserLimitExceeded"))
        /\ judged' = [limit |-> Action.limit, refused |-> TRUE]
     \/ /\ ~(Dispatched /\ Refused(Action))
        /\ \/ Dispatched /\ config.contended /\ Finish(Fails("QueueFull"))
           \/ (Dispatched \/ Target) /\ cancelled /\ Finish(Fails("Cancelled"))
           \/ Target /\ ~cancelled /\ ~present /\ Finish(Fails("ClientGone"))
        /\ UNCHANGED judged
  /\ UNCHANGED <<cancelled, present, status, late, shown>>

\* The answers of the actions of each type; workers and HTTP servers are
\* outside, so every answer of theirs is possible.
Answers(action) ==
  IF action.type = "gate" THEN {PyCheckAdapter(action.name, x) : x \in {"pass", "Reject", "RejectSilent", "raise"}}
  ELSE IF action.type = "tag" THEN {PyTransformAdapter(action.name, x) : x \in {"pass", "Reject", "raise"}}
  ELSE IF action.type = "http" THEN {execute(action.name, x) : x \in {"2xx", "4xx", "5xx"}}
  ELSE IF action.type = "remote" THEN {WorkerOutcome(action.name, x) : x \in {"data", "object", "job", "reject", "error", "evicted"}}
  ELSE {PyTargetAdapter(action.name, x) : x \in {"Success", "Redirect", "Error", "Reject", "RejectSilent", "raise"}}

\* The silence of a rejection, unless the configuration overrides it.
Silent(action, answer) ==
  IF action.silent = "unset" THEN answer.silent ELSE action.silent = "yes"

\* A remote worker takes the job, after the same checks.
PickUp ==
  /\ run.at = "act" /\ Action.type = "remote"
  /\ ~Refused(Action) /\ ~cancelled /\ present
  /\ run' = [run EXCEPT !.at = "worker"]
  /\ status' = "processing"
  /\ judged' = [limit |-> Action.limit, refused |-> FALSE]
  /\ UNCHANGED <<cancelled, present, result, late, shown>>

\* A transform that runs inline changes the copy of this route whatever it
\* answers; a dispatched one works on its own copy, taken over only when it
\* answers Continue.
Worked(answer) ==
  [Top EXCEPT !.marks = IF Action.kind = "transform" /\ (answer = Pass \/ ~Dispatched)
                        THEN @ \cup {Action.name} ELSE @]
\* The action runs and its answer is acted upon.
Perform ==
  /\ \/ run.at = "worker"
     \/ /\ run.at = "act" /\ Action.kind # "switch" /\ Action.type # "remote"
        /\ Dispatched => ~Refused(Action) /\ Action.workers # 0
        /\ Target => ~cancelled /\ present
        /\ Dispatched => ~cancelled
  /\ \E answer \in Answers(Action) :
       \/ /\ answer.is = "pass"
          /\ GoOn(NextAction(Worked(answer))) /\ UNCHANGED <<result, shown>>
       \/ /\ answer.is = "reject"
          /\ IF Silent(Action, answer) THEN GoOn(NextRoute(Worked(answer))) /\ UNCHANGED shown
             ELSE /\ GoOn(NextRoute(Noted(Worked(answer), answer.reasons)))
                  /\ shown' = shown \o answer.reasons
          /\ UNCHANGED result
       \/ /\ answer.is \notin {"pass", "reject"}
          /\ Finish(answer) /\ UNCHANGED shown
  /\ late' = IF cancelled /\ run.at = "act" THEN late + 1 ELSE late
  /\ judged' = IF Dispatched THEN [limit |-> Action.limit, refused |-> FALSE] ELSE judged
  /\ UNCHANGED <<cancelled, present, status>>

\* Bits::cancel finds the job while it is in the table.
Cancel ==
  /\ run.at # "none" /\ ~cancelled /\ config.cancels
  /\ cancelled' = TRUE
  /\ UNCHANGED <<run, present, status, result, late, shown, judged>>

RoutingStep == SwitchEnds \/ Gate \/ Descend \/ Turned \/ PickUp \/ Perform

\* The client stays away for longer than the reconnect buffer.
Away ==
  /\ run.at # "none" /\ present
  /\ present' = FALSE
  /\ UNCHANGED <<run, cancelled, status, result, late, shown, judged>>

\* A poll shows that the client is there and takes the result.
Polled ==
  /\ run.at # "none"
  /\ present' = TRUE /\ result' = {}
  /\ UNCHANGED <<run, cancelled, status, late, shown, judged>>

\* A job through one of the routers, whatever its client does.
RoutingNext(routers) ==
  /\ \/ \E routes \in routers : Start(routes)
     \/ RoutingStep \/ Cancel \/ Away \/ Polled
  /\ UNCHANGED config

RoutingSpec(routers) == RoutingInit /\ [][RoutingNext(routers)]_<<config, routing>>

-----------------------------------------------------------------------------
\* The transforms of a frame's route before the action it is at.
Passed(f) ==
  LET steps == f.routes[f.r].actions IN
  {steps[i].name : i \in {j \in 1..(f.a - 1) : steps[j].kind = "transform"}}

\* The transforms a job has been through at an action: those of the steps before
\* it in its own route and in the routes that enclose it, and no others.
Applied == UNION {Passed(f) : f \in {run.stack[i] : i \in DOMAIN run.stack}}

\* What a rejected route did to the job never reaches a later one: at every
\* action the job carries exactly the transforms of the routes it is in.  The
\* router copies the job lazily and restarts each route from the original.
NoLeak == run.at \in {"act", "worker"} => Top.marks = Applied

\* A job that no route took is answered with exactly the rejections that are not
\* silent, in the order the routes gave them, those of nested switches included.
ReasonsExact == run.at = "rejected" /\ result # {} => result = {Error(shown)}

\* After a cancellation at most the one action that was about to start still
\* runs: the flag is read before every action and again by every target.
CancelHeeded == late <= 1

\* The most generous ceiling wins: a user is turned away only when some ceiling
\* applies to them and they are at or above every one that does.
LimitGenerous ==
  LET limit == judged.limit
      user == config.user
      own == IF user.realm \in RealmsOf(limit) THEN limit.realms[user.realm] ELSE [max |-> Unset, roles |-> <<>>]
      held == {user.roles[i] : i \in DOMAIN user.roles}
      ceilings == ({limit.max, own.max} \cup {own.roles[x] : x \in held \cap DOMAIN own.roles})
                  \ {Unset} IN
  judged # NotJudged =>
    (judged.refused <=> user.identified /\ ceilings # {} /\ \A c \in ceilings : user.jobs >= c)

-----------------------------------------------------------------------------
(* What the proofs about routing ask of the routers and of the user        *)

\* routers are what validate lets through, closed under the routes of nested
\* switches: no route is empty, its last action is a target or a switch, and
\* these are not of a type that checks or transforms.
Routable(routers, names) ==
  \A routes \in routers :
    /\ Len(routes) \in Nat
    /\ \A r \in 1..Len(routes) :
         LET steps == routes[r].actions IN
         /\ Len(steps) \in Nat \ {0}
         /\ steps[Len(steps)].kind \in {"target", "switch"}
         /\ \A a \in 1..Len(steps) :
              /\ steps[a].name \in names
              /\ steps[a].kind = "switch" => steps[a].routes \in routers
              /\ steps[a].kind \in {"target", "switch"} => steps[a].type \notin {"gate", "tag"}

\* What parse_user_limit lets through: a ceiling is absent or not negative.
Ceilings == {n \in Int : n >= Unset}
BlockOk(block) == block.max \in Ceilings /\ \A role \in DOMAIN block.roles : block.roles[role] \in Ceilings
LimitOk(limit) == limit.max \in Ceilings /\ \A realm \in RealmsOf(limit) : BlockOk(limit.realms[realm])
UserOk(user) == Len(user.roles) \in Nat /\ DOMAIN user.roles = 1..Len(user.roles) /\ user.jobs \in Nat

\* Every limit in the routers is one parse_user_limit lets through.
Limited(routers) ==
  \A routes \in routers : \A r \in 1..Len(routes) :
    \A a \in 1..Len(routes[r].actions) : LimitOk(routes[r].actions[a].limit)
=============================================================================
