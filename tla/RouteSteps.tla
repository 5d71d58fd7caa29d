------------------------------ MODULE RouteSteps ------------------------------
(***************************************************************************)
(* One step of the routes section of a configuration: a reference or an    *)
(* inline action resolved, a target shared by name, a dispatcher attached  *)
(* where one is configured; and the validity of a list of routes.          *)
(*                                                                         *)
(* Parsing threads a context ctx through the entries in order; err is the  *)
(* first error.  regs are the remote pools the dispatchers built so far    *)
(* have to register, in order: Startup performs the registrations.         *)
(***************************************************************************)
EXTENDS Configuration

CONSTANTS
  Types,         \* the registered actions: the kind each type name creates
  BadPoolNames   \* registry names with a character validate_pool_name refuses

Ok == "ok"
FirstError(errors) ==
  LET bad == {i \in DOMAIN errors : errors[i] # Ok} IN
  IF bad = {} THEN Ok ELSE errors[CHOOSE i \in bad : \A j \in bad : i <= j]
Unless(cond, error) == IF cond THEN Ok ELSE error

Fail(ctx, error) == [ctx EXCEPT !.err = error]
Give(ctx, action) == [ctx EXCEPT !.out = action]

-----------------------------------------------------------------------------
(* The dispatcher block *)

\* Unset is a field that is absent; zero is a ceiling like any other.
parse_ceiling(value, path) == Unless(value = Unset \/ value >= 0, path)

\* A block without any ceiling, and an unknown key at any level, is refused.
parse_user_limit(limit) ==
  LET realm_error(realm) ==
        FirstError(<<Unless(~realm.extra, "user_limit.realm"),
                     parse_ceiling(realm.max, "user_limit.realm.max"),
                     Unless(\A role \in DOMAIN realm.roles : realm.roles[role] >= 0, "user_limit.role"),
                     Unless(realm.max # Unset \/ DOMAIN realm.roles # {}, "user_limit.realm")>>)
      realm_errors == {realm_error(limit.realms[r]) : r \in RealmsOf(limit)} \ {Ok}
  IN FirstError(<<parse_ceiling(limit.max, "user_limit.max"),
                  Unless(~limit.extra, "user_limit"),
                  IF realm_errors = {} THEN Ok ELSE CHOOSE error \in realm_errors : TRUE,
                  Unless(limit.max # Unset \/ RealmsOf(limit) # {}, "user_limit")>>)

parse_dispatcher_fields(block) ==
  FirstError(<<Unless(block.decodes, "dispatcher"),
               Unless(block.queue_capacity = Unset \/ block.queue_capacity >= 1,
                      "dispatcher.queue_capacity"),
               IF block.user_limit THEN parse_user_limit(block.limit) ELSE Ok,
               Unless(~block.removed, "dispatcher.concurrency")>>)

\* The default, a zero heartbeat timeout and the pool name are only looked at
\* for the remote pool.  The number of local workers is not checked.
from_config(executor, block, entry_name) ==
  IF executor # "remote_pool" THEN Ok
  ELSE FirstError(<<Unless(block.heartbeat_timeout > 0, "dispatcher"),
                    Unless(entry_name \notin BadPoolNames, "dispatcher")>>)

\* The remote target and the remote pool need each other, and both need the
\* worker server; a limit alone brings a fifo queue to enforce it on.
attach_dispatcher(entry_name, type_name, block, silent, ctx) ==
  LET remote == type_name = "remote"
      executor == IF remote /\ block.executor = "none" THEN "remote_pool" ELSE block.executor
      queue == IF block.user_limit /\ block.queue = "none" /\ executor = "none"
               THEN "fifo" ELSE block.queue
      dispatched == queue # "none" \/ executor # "none"
      dispatcher == IF dispatched THEN <<ctx.who, ctx.made>> ELSE NoDispatcher
      err == FirstError(<<Unless(remote => executor = "remote_pool", "dispatcher.executor"),
                          Unless(remote => ctx.worker_server, "bits.worker_server"),
                          Unless(executor = "remote_pool" => remote, "dispatcher.executor"),
                          from_config(executor, block, entry_name)>>) IN
  IF err # Ok THEN Fail(ctx, err)
  ELSE Give([ctx EXCEPT !.made = IF dispatched THEN @ + 1 ELSE @,
                        !.regs = IF remote THEN Append(@, [pool |-> entry_name, to |-> dispatcher]) ELSE @],
            [kind |-> Types[type_name], name |-> entry_name, type |-> type_name,
             dispatcher |-> dispatcher, workers |-> block.workers,
             limit |-> IF block.user_limit THEN block.limit ELSE NoLimit,
             silent |-> silent, routes |-> <<>>])

-----------------------------------------------------------------------------
(* One step of a route *)

create_action(type_name, fits) == Unless(type_name \in DOMAIN Types /\ fits, "action")

action_from_entry(name, entry, ctx) ==
  LET err == FirstError(<<Unless(~entry.removed, "entry"), Unless(entry.type # "none", "entry.type"),
                          parse_dispatcher_fields(entry.dispatcher),
                          Unless(entry.silent # "other", "entry.silent"),
                          create_action(entry.type, entry.fits)>>) IN
  IF err # Ok THEN Fail(ctx, err)
  ELSE attach_dispatcher(name, entry.type, entry.dispatcher, entry.silent, ctx)

Remember(ns, name, done) ==
  IF done.err = Ok /\ ns = "target" /\ done.out.kind = "target"
  THEN [done EXCEPT !.cache = [n \in DOMAIN @ \cup {name} |-> IF n = name THEN done.out ELSE @[n]]]
  ELSE done

\* A target is built once and shared by every step that names it; a check or a
\* transform is built for each step.  What an entry creates need not be of the
\* kind its registry is named for.
resolve_named(ns, name, ctx) ==
  IF ns \notin DOMAIN ctx.registries THEN Fail(ctx, "action")
  ELSE IF ns = "target" /\ name \in DOMAIN ctx.cache THEN Give(ctx, ctx.cache[name])
  ELSE IF name \notin DOMAIN ctx.registries[ns] THEN Fail(ctx, "action")
  ELSE Remember(ns, name, action_from_entry(name, ctx.registries[ns][name], ctx))

validate_inline_action(ns, type_name) == Unless(Types[type_name] = ns, "action")

inline_action(step, ctx) ==
  LET err == FirstError(<<Unless(step.name # "remote", "action"), create_action(step.name, step.fits),
                          IF step.name \in DOMAIN Types
                          THEN validate_inline_action(step.ns, step.name) ELSE Ok,
                          parse_dispatcher_fields(step.dispatcher),
                          Unless(step.silent # "other", "action")>>) IN
  IF err # Ok THEN Fail(ctx, err)
  ELSE attach_dispatcher(step.name, step.name, step.dispatcher, step.silent, ctx)

-----------------------------------------------------------------------------
(* Routes, and the validity of the tree *)

is_terminal(action) == action.kind \in {"target", "switch"}

\* The first terminal step has to be the last one; a nested switch was
\* validated when it was parsed.
validate_route(route) ==
  LET terminal == {i \in DOMAIN route.actions : is_terminal(route.actions[i])} IN
  Unless(terminal = {Len(route.actions)} /\ route.actions # <<>>, "route")

validate(routes) == Unless(\A i \in DOMAIN routes : validate_route(routes[i]) = Ok, "route")

\* A switch around the routes inner was parsed to.
SwitchOf(inner) ==
  LET err == IF inner.err # Ok THEN inner.err ELSE validate(inner.out) IN
  IF err # Ok THEN Fail(inner, err)
  ELSE Give(inner, [kind |-> "switch", name |-> "switch", type |-> "switch",
                    dispatcher |-> NoDispatcher, workers |-> Unset, limit |-> NoLimit,
                    silent |-> "unset", routes |-> inner.out])

\* What was parsed so far, with what was parsed next.
WithAction(sofar, next) ==
  IF next.err # Ok THEN next ELSE Give(next, Append(sofar.out, next.out))
WithRoute(name, sofar, next) ==
  IF next.err # Ok THEN next
  ELSE Give(next, Append(sofar.out, [name |-> name, actions |-> next.out]))
=============================================================================
