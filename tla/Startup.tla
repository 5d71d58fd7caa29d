------------------------------- MODULE Startup -------------------------------
(***************************************************************************)
(* A broker comes up from its configuration: parse_bootstrap validates the *)
(* sections in order, connects the store, takes a slot and builds the      *)
(* router; later add_route builds further routers, from any thread.  Both  *)
(* go through RouteFactory::parse_route, which copies the cache of resolved *)
(* targets, parses without the lock and merges afterwards, and through     *)
(* WorkerServer::register_pool, which binds the listener on first use.     *)
(*                                                                         *)
(* Durations are in half seconds; Unset is an absent field and Invalid a   *)
(* value that is no duration (negative, not finite, out of range).         *)
(***************************************************************************)
EXTENDS RouteSteps

CONSTANTS
  Configs,            \* configurations, with the environment each meets
  Adders,             \* threads that call add_route
  ParseRoutes(_, _),  \* parse_routes of RouteTree
  CloseAll(_),        \* close_all of RouteTree
  ActionsOf(_)        \* actions_of RouteTree: all actions of a list of routes

Boot == "boot"
Threads == {Boot} \cup Adders

\* parse_bootstrap is no call of add_route.
ASSUME AddersAssumption == Boot \notin Adders

\* The kinds of store there are; a threshold is absent, invalid or a duration;
\* the poll timeout has a default.
ASSUME ConfigsAssumption ==
  \A c \in Configs :
    /\ c.store \in {"none", "nats", "tikv"}
    /\ c.persist_after \in Nat \cup {Unset, Invalid}
    /\ c.poll_timeout # Unset

Sec == 2
PERSIST_GUARD == Sec
DEFAULT_LEASE_TTL == 30 * Sec

VARIABLES
  boot,       \* parse_bootstrap: [at, tries, err, lease_ttl, persist_after]
  slot,       \* the broker slot, or Unset
  cache,      \* resolved_targets of the route factory
  server,     \* the worker server: [pools, started, listening]
  port_free,  \* the port of the worker server can be bound
  thread,     \* parse_route calls: [at, then, routes, cache, left, made, err]
  added,      \* threads whose router is listed in added_routes
  closed      \* dispatchers closed when the broker was dropped

startup == <<config, boot, slot, cache, server, port_free, thread, added, closed>>

-----------------------------------------------------------------------------
(* parse_bootstrap, section by section: the first error or Ok *)

duration_secs(field, secs) == Unless(secs \notin {Invalid}, field)
positive_duration_secs(field, secs) == Unless(secs = Unset \/ secs > 0, field)

\* A tag is text or an unsigned number, of one to three letters and digits.
require_site_env_tag(field, tag) == Unless(tag = "tag", field)

\* Empty, not finite, negative, or not strictly increasing lists are refused.
validate_buckets(field, buckets) ==
  Unless(/\ buckets # <<>>
         /\ \A i \in DOMAIN buckets : buckets[i] >= 0
         /\ \A i \in 1..(Len(buckets) - 1) : buckets[i] < buckets[i + 1], field)

bits_section(c) ==
  FirstError(<<Unless(c.mapping, "config"), Unless(c.bits, "bits"),
               require_site_env_tag("bits.site", c.site), require_site_env_tag("bits.env", c.env)>>)

bits_timings(c) ==
  FirstError(<<positive_duration_secs("bits.internal_poll_timeout_secs", c.internal_poll_timeout),
               positive_duration_secs("bits.sweep_interval_secs", c.sweep_interval),
               positive_duration_secs("bits.reconnect_buffer_secs", c.reconnect_buffer),
               duration_secs("bits.persist_after_secs", c.persist_after),
               Unless(c.max_jobs # 0, "bits.max_jobs")>>)

server_section(c) ==
  FirstError(<<Unless(c.server, "server"), Unless(c.metrics, "metrics"),
               IF c.buckets_given THEN validate_buckets("metrics", c.buckets) ELSE Ok,
               positive_duration_secs("server.poll_timeout_secs", c.poll_timeout),
               Unless(c.retry_after # 0, "server.retry_after_secs")>>)

\* The threshold is dropped from the comparison with the poll timeout.
persist_unguarded(c) == Ok

\* With a store, a job has to be persisted a guard before its first poll ends.
persist_guard(c) ==
  Unless(c.store = "none" \/ c.persist_after = Unset
         \/ c.persist_after + PERSIST_GUARD < c.poll_timeout, "bits.persist_after_secs")

store_tikv(c) ==
  FirstError(<<Unless(c.endpoints, "bits.persistence.endpoints"),
               Unless(c.lease_ttl >= Sec, "bits.persistence.broker_lease_ttl_secs"),
               positive_duration_secs("bits.persistence.connect_timeout_secs", c.connect_timeout),
               Unless("tikv" \in c.features, "bits.persistence.type")>>)

\* endpoints: the URL and the bucket names are not empty.
store_nats(c) ==
  FirstError(<<Unless(c.endpoints, "bits.persistence.url"),
               Unless(c.replicas >= 1, "bits.persistence.num_replicas"),
               Unless(c.lease_ttl >= Sec, "bits.persistence.broker_lease_ttl_secs"),
               positive_duration_secs("bits.persistence.connect_timeout_secs", c.connect_timeout),
               Unless(c.tombstone_ttl = Unset \/ c.tombstone_ttl >= Sec,
                      "bits.persistence.jobs_tombstone_ttl_secs"),
               Unless(c.attempts >= 1, "bits.persistence.init_max_attempts"),
               Unless("nats" \in c.features, "bits.persistence.type"),
               Unless(c.runtime, "bits.persistence.type")>>)

store_section(c) ==
  IF c.store = "nats" THEN store_nats(c) ELSE IF c.store = "tikv" THEN store_tikv(c) ELSE Ok

\* A threshold without a store is dropped with a warning.
without_store(c) == [lease_ttl |-> DEFAULT_LEASE_TTL, persist_after |-> Unset]
with_store(c) == [lease_ttl |-> c.lease_ttl, persist_after |-> c.persist_after]

-----------------------------------------------------------------------------
NoCache == [n \in {} |-> n]
NoThread == [at |-> "idle", then |-> "idle", routes |-> <<>>, cache |-> NoCache,
             left |-> <<>>, made |-> NoCache, err |-> Ok]

Init ==
  /\ config \in Configs
  /\ boot = [at |-> "settings", tries |-> 0, err |-> Ok, lease_ttl |-> Unset, persist_after |-> Unset]
  /\ slot = Unset
  /\ cache = NoCache
  /\ server = [pools |-> NoCache, started |-> FALSE, listening |-> FALSE]
  /\ port_free = config.port_free
  /\ thread = [t \in Threads |-> NoThread]
  /\ added = {}
  /\ closed = {}

Up == boot.at = "up"
Busy(t) == thread[t].at \notin {"idle", "done", "failed"}
RoutesOf(t) == IF t = Boot THEN config.routes ELSE config.added
With(f, name, value) == [n \in DOMAIN f \cup {name} |-> IF n = name THEN value ELSE f[n]]

BootFails(err) == boot' = [boot EXCEPT !.at = "failed", !.err = err]

\* Everything up to the store is a matter of the text alone.
parse_bootstrap ==
  /\ boot.at = "settings"
  /\ LET err == FirstError(<<bits_section(config), bits_timings(config), server_section(config),
                             persist_guard(config), store_section(config)>>)
         set == IF config.store = "none" THEN without_store(config) ELSE with_store(config) IN
     IF err # Ok THEN BootFails(err)
     ELSE boot' = [boot EXCEPT !.at = IF config.store = "nats" THEN "init"
                                      ELSE IF config.store = "tikv" THEN "slot" ELSE "registries",
                               !.lease_ttl = set.lease_ttl, !.persist_after = set.persist_after]
  /\ UNCHANGED <<config, slot, cache, server, port_free, thread, added, closed>>

\* NatsStore::init, retried up to init_max_attempts times with a growing delay.
init_store ==
  /\ boot.at = "init"
  /\ \E up \in IF config.flaky THEN BOOLEAN ELSE {TRUE} :
       IF up THEN boot' = [boot EXCEPT !.at = "slot", !.tries = @ + 1]
       ELSE IF boot.tries + 1 < config.attempts THEN boot' = [boot EXCEPT !.tries = @ + 1]
       ELSE boot' = [boot EXCEPT !.at = "failed", !.tries = @ + 1, !.err = "bits.persistence"]
  /\ UNCHANGED <<config, slot, cache, server, port_free, thread, added, closed>>

\* allocate_broker_slot is the store's: any free slot, or an error.
allocate_startup_broker_slot ==
  /\ boot.at = "slot"
  /\ \/ boot' = [boot EXCEPT !.at = "registries"] /\ slot' \in 0..1
     \/ config.flaky /\ BootFails("bits.persistence") /\ UNCHANGED slot
  /\ UNCHANGED <<config, cache, server, port_free, thread, added, closed>>

\* Without a store the slot is 0.
registries ==
  /\ boot.at = "registries"
  /\ IF config.registries_decode
     THEN /\ boot' = [boot EXCEPT !.at = "routes"]
          /\ slot' = IF slot = Unset THEN 0 ELSE slot
          /\ thread' = [thread EXCEPT ![Boot].at = "copy"]
     ELSE BootFails("registries") /\ UNCHANGED <<slot, thread>>
  /\ UNCHANGED <<config, cache, server, port_free, added, closed>>

-----------------------------------------------------------------------------
(* RouteFactory::parse_route, in a thread t *)

add_route(t) ==
  /\ Up /\ t \in config.adders /\ thread[t].at = "idle"
  /\ config.serial => \A u \in Adders : ~Busy(u)
  /\ thread' = [thread EXCEPT ![t].at = "copy"]
  /\ UNCHANGED <<config, boot, slot, cache, server, port_free, added, closed>>

\* The call returns an error: parse_bootstrap or add_route passes it on.
Returns(t, err) ==
  /\ thread' = [thread EXCEPT ![t].at = "failed", ![t].err = err]
  /\ IF t = Boot THEN BootFails(err) ELSE UNCHANGED boot

\* What follows once the pools of the new dispatchers are registered: the error
\* the parse stopped at, if any, or the merge.
Registered(t, rest) ==
  IF rest # <<>> \/ thread[t].err = Ok
  THEN /\ thread' = [thread EXCEPT ![t].left = rest, ![t].at = IF rest = <<>> THEN "merge" ELSE "register"]
       /\ UNCHANGED boot
  ELSE Returns(t, thread[t].err)

Parsed(t, p) ==
  IF p.regs = <<>> /\ p.err # Ok THEN Returns(t, p.err)
  ELSE /\ thread' = [thread EXCEPT ![t] =
            [@ EXCEPT !.routes = IF p.err = Ok THEN p.out ELSE <<>>, !.cache = cache,
                      !.made = p.cache, !.left = p.regs, !.err = p.err,
                      !.at = IF p.regs = <<>> THEN "merge" ELSE "register"]]
       /\ UNCHANGED boot

\* Parsing works on a copy of the cache taken under the lock.
parse_route(t) ==
  /\ thread[t].at = "copy"
  /\ Parsed(t, ParseRoutes(RoutesOf(t),
       [registries |-> config.registries, worker_server |-> config.worker_server,
        who |-> t, made |-> 0, cache |-> cache, regs |-> <<>>, err |-> Ok, out |-> <<>>]))
  /\ UNCHANGED <<config, slot, cache, server, port_free, added, closed>>

\* The pool replaces any pool of its name; the listener is started unless the
\* started flag is seen.
register_pool(t) ==
  /\ thread[t].at = "register"
  /\ LET reg == Head(thread[t].left) IN
     server' = [server EXCEPT !.pools = With(@, reg.pool, reg.to)]
  /\ IF server.started THEN Registered(t, Tail(thread[t].left))
     ELSE thread' = [thread EXCEPT ![t].at = "start", ![t].then = "register"] /\ UNCHANGED boot
  /\ UNCHANGED <<config, slot, cache, port_free, added, closed>>

\* The flag is set before the port is bound.
ensure_started(t) ==
  /\ thread[t].at = "start"
  /\ server' = [server EXCEPT !.started = TRUE]
  /\ thread' = [thread EXCEPT ![t].at = "bind"]
  /\ UNCHANGED <<config, boot, slot, cache, port_free, added, closed>>

\* That the port cannot be bound is not passed on.
bind_unreported(t) ==
  /\ thread[t].at = "bind"
  /\ server' = [server EXCEPT !.listening = @ \/ port_free]
  /\ port_free' = FALSE
  /\ IF thread[t].then = "register" THEN Registered(t, Tail(thread[t].left))
     ELSE thread' = [thread EXCEPT ![t].at = "done"] /\ UNCHANGED boot
  /\ UNCHANGED <<config, slot, cache, added, closed>>

bind(t) ==
  /\ thread[t].at = "bind"
  /\ IF port_free
     THEN /\ server' = [server EXCEPT !.listening = TRUE]
          /\ port_free' = FALSE
          /\ IF thread[t].then = "register" THEN Registered(t, Tail(thread[t].left))
             ELSE thread' = [thread EXCEPT ![t].at = "done"] /\ UNCHANGED boot
     ELSE Returns(t, "worker_server") /\ UNCHANGED <<server, port_free>>
  /\ UNCHANGED <<config, slot, cache, added, closed>>

\* What the call resolved is not kept for later calls.
merge_forgetting(t) ==
  /\ thread[t].at = "merge"
  /\ thread' = [thread EXCEPT ![t].at = "validate"]
  /\ UNCHANGED <<config, boot, slot, cache, server, port_free, added, closed>>

\* Targets resolved meanwhile by another call stay.
merge(t) ==
  /\ thread[t].at = "merge"
  /\ cache' = [n \in DOMAIN cache \cup DOMAIN thread[t].made |->
                 IF n \in DOMAIN cache THEN cache[n] ELSE thread[t].made[n]]
  /\ thread' = [thread EXCEPT ![t].at = "validate"]
  /\ UNCHANGED <<config, boot, slot, server, port_free, added, closed>>

\* The end of parse_bootstrap.
validate_switch ==
  /\ thread[Boot].at = "validate"
  /\ IF validate(thread[Boot].routes) # Ok THEN Returns(Boot, "route")
     ELSE /\ boot' = [boot EXCEPT !.at = "up"]
          /\ thread' = [thread EXCEPT ![Boot].at = "done"]
  /\ UNCHANGED <<config, slot, cache, server, port_free, added, closed>>

\* WorkerServer::start: nothing to do without pools.
starts == DOMAIN server.pools # {} /\ ~server.started

\* The end of add_route: the router is listed before the listener is started.
list_route(t) ==
  /\ t \in Adders /\ thread[t].at = "validate"
  /\ IF validate(thread[t].routes) # Ok THEN Returns(t, "route") /\ UNCHANGED added
     ELSE /\ added' = added \cup {t}
          /\ thread' = [thread EXCEPT ![t].at = IF config.worker_server /\ starts THEN "start" ELSE "done",
                                      ![t].then = "done"]
          /\ UNCHANGED boot
  /\ UNCHANGED <<config, slot, cache, server, port_free, closed>>

\* The broker is dropped: every dispatcher of every router is closed and the
\* worker server told to stop.
drop ==
  /\ Up /\ \A t \in Threads : ~Busy(t)
  /\ closed' = UNION {CloseAll(thread[t].routes) : t \in {Boot} \cup added}
  /\ server' = [server EXCEPT !.listening = FALSE]
  /\ boot' = [boot EXCEPT !.at = "dropped"]
  /\ UNCHANGED <<config, slot, cache, port_free, thread, added>>

\* Another process releases the port.
PortReleased ==
  /\ Up /\ ~port_free /\ ~config.port_free /\ ~server.listening
  /\ port_free' = TRUE
  /\ UNCHANGED <<config, boot, slot, cache, server, thread, added, closed>>

\* A worker's request names its pool in the first segment of the path; the rest
\* goes to the router of that pool, an unknown pool is a 404.
extract_pool_and_rest(path) ==
  IF path = <<>> THEN [pool |-> "", rest |-> <<>>] ELSE [pool |-> Head(path), rest |-> Tail(path)]
NoPool == [to |-> NoDispatcher, rest |-> <<>>]
dispatch_to_pool(path) ==
  LET at == extract_pool_and_rest(path) IN
  IF at.pool \notin DOMAIN server.pools THEN NoPool
  ELSE [to |-> server.pools[at.pool], rest |-> at.rest]

ParseStep == \E t \in Threads : parse_route(t)
StartupStep ==
  \/ parse_bootstrap \/ init_store \/ allocate_startup_broker_slot \/ registries
  \/ validate_switch
  \/ \E t \in Threads :
       register_pool(t) \/ ensure_started(t) \/ bind(t) \/ merge(t) \/ list_route(t)
StartupCall == \/ \E t \in Adders : add_route(t)
               \/ PortReleased

-----------------------------------------------------------------------------
Settled(t) == thread[t].at = "done"
Targets(t) == {a \in ActionsOf(thread[t].routes) : a.kind = "target"}

\* A broker that is up has what its threads rely on: a slot; a lease that lives
\* for at least a second and a sweeper, a reconnect window and polls that wait a
\* positive time; a persistence threshold only with a store, and then a guard
\* short of the poll timeout, so that a job is in the store before the first
\* poll for it ends; and routes that all end in their only terminal action.
UpIsUsable ==
  Up =>
    /\ slot # Unset
    /\ boot.lease_ttl >= Sec
    /\ {config.sweep_interval, config.reconnect_buffer, config.internal_poll_timeout} \cap {0, Invalid} = {}
    /\ config.poll_timeout > 0 /\ config.max_jobs # 0
    /\ boot.persist_after # Unset =>
         /\ config.store # "none"
         /\ boot.persist_after >= 0 /\ boot.persist_after + PERSIST_GUARD < config.poll_timeout
    /\ \A t \in {Boot} \cup added : \A i \in DOMAIN thread[t].routes :
         LET steps == thread[t].routes[i].actions IN
         {j \in DOMAIN steps : is_terminal(steps[j])} = {Len(steps)}

\* The calls that resolved name n themselves, each with a dispatcher of its own,
\* as it was not in their copy of the cache.
Builders(n) == {t \in Threads : n \in DOMAIN thread[t].made /\ n \notin DOMAIN thread[t].cache}
BuiltOnce(n) == \A t, u \in Builders(n) : t = u

\* A target named in the registry is one target, however the calls of add_route
\* interleave: two routers dispatch to it through the same dispatcher, hence
\* under one queue and one per-user cap, and workers that call /name/work reach
\* the queue of a remote one.  The exception is a target that several calls
\* resolved, each before another's merge, or after one that failed before its
\* merge while calls overlap; two routers whose calls both found it in the cache
\* share it even then.
TargetShared ==
  /\ \A t, u \in Threads : Settled(t) /\ Settled(u) =>
       \A a \in Targets(t), b \in Targets(u) :
         /\ a.name = b.name /\ a.name \in DOMAIN config.registries.target
         /\ \/ config.serial \/ BuiltOnce(a.name)
            \/ a.name \in DOMAIN thread[t].cache \cap DOMAIN thread[u].cache
         => a.dispatcher = b.dispatcher
  /\ \A t \in Threads : Settled(t) =>
       \A a \in Targets(t) : a.type = "remote" /\ (config.serial \/ BuiltOnce(a.name)) =>
         dispatch_to_pool(<<a.name, "work">>) = [to |-> a.dispatcher, rest |-> <<"work">>]

BindRefused(t) == thread[t].at = "failed" /\ thread[t].err = "worker_server"

\* A router with a remote target is handed out without a listener for its workers
\* only if some caller was told that the port could not be bound, or is about to
\* be: the started flag, set before the port is bound and never reset, silences
\* later calls only.  Of calls that race for the first bind, the one that loses
\* the port to the other is refused.
ListenerUp ==
  Up =>
    \A t \in Threads : Settled(t) /\ (\E a \in Targets(t) : a.type = "remote") =>
      server.listening \/ \E u \in Threads : thread[u].at = "bind" \/ BindRefused(u)

-----------------------------------------------------------------------------
(* What the proofs about startup ask of ParseRoutes and ActionsOf *)

\* What parse_routes returns for a call that works on the cache before: the
\* cache with what it made of it, where the targets of its routes that are
\* registered, or remote, are found; and a registration for each remote target it
\* made, and only for those.
Regs(s) == {s[i] : i \in DOMAIN s}
Sound(registered, before, p) ==
  /\ \A n \in DOMAIN before : n \in DOMAIN p.cache /\ p.cache[n] = before[n]
  /\ p.err = Ok => \A a \in ActionsOf(p.out) :
       a.kind = "target" /\ (a.name \in registered \/ a.type = "remote") =>
         a.name \in DOMAIN p.cache /\ p.cache[a.name] = a
  /\ p.regs \in Seq(Regs(p.regs))
  /\ \A r \in Regs(p.regs) :
       r.pool \in DOMAIN p.cache /\ r.pool \notin DOMAIN before /\ r.to = p.cache[r.pool].dispatcher
  /\ \A n \in DOMAIN p.cache : n \notin DOMAIN before /\ p.cache[n].type = "remote" =>
       \E r \in Regs(p.regs) : r.pool = n
=============================================================================
