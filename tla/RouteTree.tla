------------------------------ MODULE RouteTree ------------------------------
(***************************************************************************)
(* From the routes section of a configuration to the tree of actions a job *)
(* is dispatched through, and the walks over that tree.  Switches nest, so *)
(* these are recursive; they are what the operator parameters of Startup   *)
(* stand for.                                                              *)
(***************************************************************************)
EXTENDS RouteSteps, SequencesExt

RECURSIVE parse_routes(_, _)
parse_action(step, ctx) ==
  IF step.form = "name" THEN resolve_named(step.ns, step.name, ctx)
  ELSE IF step.form = "inline" THEN inline_action(step, ctx)
  ELSE IF step.form # "switch" THEN Fail(ctx, "action")
  ELSE SwitchOf(parse_routes(step.routes, ctx))

parse_actions(steps, ctx) ==
  FoldLeft(LAMBDA sofar, step :
             IF sofar.err # Ok THEN sofar
             ELSE WithAction(sofar, parse_action(step, sofar)),
           Give(ctx, <<>>), steps)

\* An entry that is not one name with a list of steps is refused.
parse_routes(entries, ctx) ==
  FoldLeft(LAMBDA sofar, entry :
             IF sofar.err # Ok THEN sofar
             ELSE IF ~entry.wellformed THEN Fail(sofar, "route")
             ELSE WithRoute(entry.name, sofar, parse_actions(entry.steps, sofar)),
           Give(ctx, <<>>), entries)

-----------------------------------------------------------------------------
(* Walks over the tree *)

RECURSIVE actions_of(_)
actions_of(routes) ==
  UNION {UNION {{route.actions[j]} \cup actions_of(route.actions[j].routes) :
                  j \in DOMAIN route.actions} : route \in {routes[i] : i \in DOMAIN routes}}

\* The dispatchers close_all closes: those of the steps, and of the steps of
\* nested switches.
RECURSIVE close_all(_)
close(action) == {action.dispatcher} \cup close_all(action.routes)
close_all(routes) ==
  UNION {UNION {close(route.actions[j]) : j \in DOMAIN route.actions} :
           route \in {routes[i] : i \in DOMAIN routes}}
=============================================================================
