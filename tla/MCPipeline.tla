----------------------------- MODULE MCPipeline -----------------------------
EXTENDS Pipeline, RouteTree

MCTypes == [gate |-> "check", tag |-> "transform", http |-> "target",
            pytarget |-> "target", remote |-> "target"]

\* Dispatcher blocks
Block == [decodes |-> TRUE, queue |-> "none", executor |-> "none", queue_capacity |-> Unset,
          user_limit |-> FALSE, limit |-> NoLimit, removed |-> FALSE,
          heartbeat_timeout |-> 60 * Sec, workers |-> Unset]
Fifo == [Block EXCEPT !.queue = "fifo"]
Pool(n) == [Block EXCEPT !.executor = "async_pool", !.workers = n]
Capped(limit) == [Block EXCEPT !.user_limit = TRUE, !.limit = limit]
Realm(max, roles) == [max |-> max, extra |-> FALSE, roles |-> roles]
Limit(max, realms) == [max |-> max, extra |-> FALSE, realms |-> realms]

\* Registry entries and steps
Entry(type, block) == [type |-> type, dispatcher |-> block, silent |-> "unset", fits |-> TRUE, removed |-> FALSE]
Registries(targets) ==
  [check |-> [open |-> Entry("gate", Block), loud |-> [Entry("gate", Fifo) EXCEPT !.silent = "no"],
              quiet |-> [Entry("gate", Block) EXCEPT !.silent = "yes"], end |-> Entry("http", Block)],
   transform |-> [mark |-> Entry("tag", Block), stamp |-> Entry("tag", Fifo)],
   target |-> targets]
Step(form, ns, name) == [form |-> form, ns |-> ns, name |-> name, dispatcher |-> Block,
                         silent |-> "unset", fits |-> TRUE, routes |-> <<>>]
Named(ns, name) == Step("name", ns, name)
Inline(ns, name) == Step("inline", ns, name)
Nested(routes) == [Step("switch", "none", "none") EXCEPT !.routes = routes]
RouteOf(steps) == [wellformed |-> TRUE, name |-> "route", steps |-> steps]

Http == Entry("http", Block)
Far == Entry("remote", Block)
Plain ==
  [mapping |-> TRUE, bits |-> TRUE, site |-> "tag", env |-> "tag",
   internal_poll_timeout |-> Unset, sweep_interval |-> Unset, reconnect_buffer |-> Unset,
   persist_after |-> Unset, max_jobs |-> Unset, server |-> TRUE, metrics |-> TRUE,
   buckets_given |-> FALSE, buckets |-> <<>>, poll_timeout |-> 25 * Sec, retry_after |-> 5,
   store |-> "none", endpoints |-> TRUE, lease_ttl |-> 30 * Sec, connect_timeout |-> Unset,
   replicas |-> 1, tombstone_ttl |-> Unset, attempts |-> 2, features |-> {"nats", "tikv"},
   runtime |-> TRUE, flaky |-> FALSE, registries_decode |-> TRUE,
   registries |-> Registries([web |-> Http]), routes |-> <<RouteOf(<<Named("target", "web")>>)>>,
   added |-> <<>>, adders |-> {}, worker_server |-> TRUE, port_free |-> TRUE, serial |-> TRUE,
   contended |-> FALSE, cancels |-> FALSE, leaves |-> FALSE, via |-> "http", full |-> FALSE,
   user |-> [identified |-> TRUE, realm |-> "ecmwf", roles |-> <<"ops">>, jobs |-> 1]]
Nats == [Plain EXCEPT !.store = "nats"]
Tikv == [Plain EXCEPT !.store = "tikv"]

\* One section wrong, or at the edge of right.
Settings ==
  {[Plain EXCEPT !.mapping = FALSE], [Plain EXCEPT !.bits = FALSE], [Plain EXCEPT !.site = "other"],
   [Plain EXCEPT !.env = "none"], [Plain EXCEPT !.internal_poll_timeout = 0],
   [Plain EXCEPT !.sweep_interval = Invalid], [Plain EXCEPT !.reconnect_buffer = 0],
   [Plain EXCEPT !.persist_after = Invalid], [Plain EXCEPT !.max_jobs = 0],
   [Plain EXCEPT !.server = FALSE], [Plain EXCEPT !.metrics = FALSE],
   [Plain EXCEPT !.poll_timeout = 0], [Plain EXCEPT !.retry_after = 0],
   [Plain EXCEPT !.registries_decode = FALSE], [Plain EXCEPT !.persist_after = 30 * Sec],
   [Plain EXCEPT !.full = TRUE]}
  \cup {[Plain EXCEPT !.buckets_given = TRUE, !.buckets = b] : b \in {<<>>, <<1, 2>>, <<2, 2>>, <<1, Invalid>>}}
  \cup {[n EXCEPT !.persist_after = p, !.flaky = TRUE] : n \in {Nats, Tikv}, p \in {0, 48, 24 * Sec - 1, 24 * Sec}}
  \cup UNION {{[n EXCEPT !.endpoints = FALSE], [n EXCEPT !.lease_ttl = 1], [n EXCEPT !.features = {}],
               [n EXCEPT !.connect_timeout = 0]} : n \in {Nats, Tikv}}
  \cup {[Nats EXCEPT !.replicas = 0], [Nats EXCEPT !.tombstone_ttl = 1], [Nats EXCEPT !.attempts = 0],
        [Nats EXCEPT !.runtime = FALSE]}

\* Routes that are refused, and the one oddity that is not: a check that is a
\* target.
WithSteps(steps) == [Plain EXCEPT !.routes = <<RouteOf(steps)>>]
WithTarget(entry) == [Plain EXCEPT !.registries = Registries([web |-> entry])]
Routes ==
  {WithSteps(<<>>), WithSteps(<<Named("check", "open")>>),
   WithSteps(<<Named("target", "web"), Named("check", "open")>>),
   WithSteps(<<Named("target", "nowhere")>>), WithSteps(<<Named("persist", "none")>>),
   WithSteps(<<Step("other", "none", "none")>>), WithSteps(<<Inline("target", "remote")>>),
   WithSteps(<<Inline("check", "http")>>), WithSteps(<<Inline("target", "missing")>>),
   WithSteps(<<[Inline("target", "http") EXCEPT !.silent = "other"]>>),
   WithSteps(<<Nested(<<RouteOf(<<Named("check", "open")>>)>>)>>),
   WithSteps(<<Nested(<<>>)>>), WithSteps(<<Named("check", "end")>>),
   [Plain EXCEPT !.routes = <<[RouteOf(<<>>) EXCEPT !.wellformed = FALSE]>>],
   [WithTarget(Far) EXCEPT !.worker_server = FALSE],
   [Plain EXCEPT !.registries = Registries([bad_name |-> Far]), !.routes = <<RouteOf(<<Named("target", "bad_name")>>)>>]}
  \cup {WithTarget(e) :
          e \in {[Http EXCEPT !.removed = TRUE], [Http EXCEPT !.silent = "other"], [Http EXCEPT !.fits = FALSE],
                 Entry("none", Block), Entry("http", [Block EXCEPT !.executor = "remote_pool"]),
                 Entry("remote", Pool(Unset)), Entry("http", Pool(0)),
                 Entry("remote", [Block EXCEPT !.executor = "remote_pool", !.heartbeat_timeout = 0]),
                 Entry("http", [Fifo EXCEPT !.queue_capacity = 0]), Entry("http", [Fifo EXCEPT !.removed = TRUE]),
                 Entry("http", [Fifo EXCEPT !.decodes = FALSE])}}
  \cup {WithTarget(Entry("http", Capped(l))) :
          l \in {Limit(Unset, <<>>), Limit(Invalid, <<>>), [Limit(1, <<>>) EXCEPT !.extra = TRUE],
                 Limit(Unset, [ecmwf |-> Realm(Unset, <<>>)]),
                 Limit(Unset, [ecmwf |-> [Realm(1, <<>>) EXCEPT !.extra = TRUE]]),
                 Limit(Unset, [ecmwf |-> Realm(1, [ops |-> Invalid])])}}

\* Who may run how many jobs.
Limits ==
  {[WithTarget(Entry("http", Capped(l))) EXCEPT !.user = u] :
     l \in {Limit(m, r) : m \in {0, 2},
                          r \in {<<>>, [ecmwf |-> Realm(1, <<>>)], [ecmwf |-> Realm(0, [ops |-> 2])],
                                 [ecmwf |-> Realm(Unset, [dev |-> 5])], [other |-> Realm(5, [ops |-> 5])]}}
           \cup {Limit(Unset, [ecmwf |-> Realm(Unset, [dev |-> 1])])},
     u \in {[identified |-> i, realm |-> "ecmwf", roles |-> r, jobs |-> n] :
              i \in BOOLEAN, r \in {<<>>, <<"dev", "ops">>}, n \in 1..2}}

\* Jobs through two routes and a nested switch, under cancellation and clients
\* that leave.
Deep ==
  <<RouteOf(<<Named("transform", "mark"), Named("check", "open"), Named("check", "quiet"), Inline("target", "http")>>),
    RouteOf(<<Named("transform", "stamp"), Named("check", "loud"),
              Nested(<<RouteOf(<<Named("transform", "mark"), Inline("target", "pytarget")>>),
                       RouteOf(<<Named("target", "far")>>)>>)>>)>>
Jobs ==
  {[Plain EXCEPT !.registries = Registries([far |-> Far]), !.routes = Deep, !.via = v,
                 !.cancels = (v = "http"), !.leaves = (v = "python"), !.contended = (v = "relay"),
                 !.store = s, !.persist_after = IF s = "none" THEN Unset ELSE Sec] :
     v \in {"http", "python", "relay"}, s \in {"none", "tikv"}}

\* Two threads add a route to the same remote target, one of them while the
\* port is taken, or both at once.
Adding ==
  {[Plain EXCEPT !.registries = Registries([web |-> Http, far |-> Far]),
                 !.added = <<RouteOf(<<Named("check", "open"), Named("target", "far")>>)>>,
                 !.routes = r, !.adders = Adders, !.serial = s, !.port_free = p] :
     r \in {<<>>, <<RouteOf(<<Named("target", "web")>>)>>, Deep},
     s \in BOOLEAN, p \in BOOLEAN}
  \cup {[Plain EXCEPT !.adders = {CHOOSE t \in Adders : TRUE}, !.added = <<RouteOf(<<Named("check", "open")>>)>>]}

MCConfigs == Settings \cup Routes \cup Limits \cup Jobs \cup Adding

-----------------------------------------------------------------------------
(* What the proofs ask of parse_routes and actions_of, for the             *)
(* configurations above.                                                   *)

Parse(c, routes, before) ==
  parse_routes(routes, [registries |-> c.registries, worker_server |-> c.worker_server,
                        who |-> Boot, made |-> 0, cache |-> before, regs |-> <<>>, err |-> Ok, out |-> <<>>])
\* A call starts from an empty cache, or from the one an earlier call left.
Parses(c) ==
  {<<before, Parse(c, routes, before)>> :
     before \in {NoCache, Parse(c, c.routes, NoCache).cache, Parse(c, c.added, NoCache).cache},
     routes \in {c.routes, c.added}}

RECURSIVE Routers(_)
Routers(routes) ==
  {routes} \cup UNION {Routers(a.routes) : a \in {x \in ActionsOf(routes) : x.kind = "switch"}}

\* What the parser returns is sound, and its routers, those that pass validate,
\* have the shape and the limits the proofs about jobs are about.
ASSUME ParserAssumption ==
  \A c \in Configs :
    /\ UserOk(c.user)
    /\ \A x \in Parses(c) :
         /\ Sound(DOMAIN c.registries.target, x[1], x[2])
         /\ x[2].err = Ok /\ validate(x[2].out) = Ok =>
              /\ Routable(Routers(x[2].out), {a.name : a \in ActionsOf(x[2].out)})
              /\ Limited(Routers(x[2].out))
=============================================================================
