--------------------------- MODULE StartupProofs ---------------------------
(***************************************************************************)
(* Proofs about startup, add_route and the drop in module Pipeline, for    *)
(* any configurations, any number of threads that add routes, and any      *)
(* parser: a broker that comes up is usable, a target with a name is the   *)
(* same one wherever it is used, and a dropped broker has closed the       *)
(* dispatchers of all its routes.                                          *)
(***************************************************************************)
EXTENDS Pipeline, WellFoundedInduction, TLAPS

\* A set of naturals that is not empty has a least member.
LEMMA Least ==
  ASSUME NEW T, T \subseteq Nat, T # {}
  PROVE  \E x \in T : \A y \in T : x <= y
<1> DEFINE R == {ss \in Nat \X Nat : ss[1] < ss[2]}
<1>1. IsWellFoundedOn(R, Nat)
  BY Zenon, NatLessThanWellFounded DEF OpToRel
<1>2. \A x, y \in Nat : y < x => <<y, x>> \in R
  BY SMTT(60)
<1> HIDE DEF R
<1>3. PICK x \in T : \A y \in T : ~(<<y, x>> \in R)
  BY Zenon, <1>1, WFMin
<1>4. ASSUME NEW y \in T PROVE x <= y
  <2>1. x \in Nat /\ y \in Nat
    BY Zenon, <1>3, <1>4
  <2>2. ~(y < x)
    BY Zenon, <1>2, <1>3, <2>1
  <2> QED
    BY SMT, <2>1, <2>2
<1> QED
  BY Zenon, <1>3, <1>4

-----------------------------------------------------------------------------
(* Startup *)

\* The first error is Ok only if there is none.
LEMMA NoError ==
  ASSUME NEW errors, DOMAIN errors \subseteq Nat, FirstError(errors) = Ok
  PROVE  \A i \in DOMAIN errors : errors[i] = Ok
<1>1. PICK bad : bad = {i \in DOMAIN errors : errors[i] # Ok}
  OBVIOUS
<1>2. SUFFICES ASSUME bad # {} PROVE FALSE
  BY Zenon, <1>1
<1>3. bad \subseteq Nat
  BY Zenon, <1>1
<1>4. PICK first : first = CHOOSE i \in bad : \A j \in bad : i <= j
  OBVIOUS
<1>5. first \in bad
  BY Zenon, <1>2, <1>3, <1>4, Least
<1>6. FirstError(errors) = errors[first]
  BY Zenon, <1>1, <1>2, <1>4 DEF FirstError
<1> QED
  BY Zenon, <1>1, <1>5, <1>6

\* What the checks of the settings establish.
Usable ==
  /\ boot.lease_ttl >= Sec
  /\ {config.sweep_interval, config.reconnect_buffer, config.internal_poll_timeout} \cap {0, Invalid} = {}
  /\ config.poll_timeout > 0 /\ config.max_jobs # 0
  /\ boot.persist_after # Unset =>
       /\ config.store # "none"
       /\ boot.persist_after >= 0 /\ boot.persist_after + PERSIST_GUARD < config.poll_timeout

\* A positive duration is absent or positive.
LEMMA PositiveDuration ==
  ASSUME NEW field, field # Ok, NEW secs, positive_duration_secs(field, secs) = Ok
  PROVE  secs = Unset \/ secs > 0
BY Zenon DEF positive_duration_secs, Unless

\* parse_bootstrap goes on to the store only with settings that can be used.
LEMMA SettingsUsable ==
  ASSUME config \in Configs, DOMAIN boot = {"at", "tries", "err", "lease_ttl", "persist_after"},
         parse_bootstrap, boot'.at # "failed"
  PROVE  Usable'
<1>1. PICK errs : errs = <<bits_section(config), bits_timings(config), server_section(config),
                           persist_guard(config), store_section(config)>>
  OBVIOUS
<1>2. PICK set : set = IF config.store = "none" THEN without_store(config) ELSE with_store(config)
  OBVIOUS
<1>3. FirstError(errs) = Ok /\ UNCHANGED config
      /\ \E at : boot' = [boot EXCEPT !.at = at, !.lease_ttl = set.lease_ttl, !.persist_after = set.persist_after]
  <2>1. BootFails(FirstError(errs)) => boot'.at = "failed"
    BY Zenon DEF BootFails
  <2> QED
    BY Zenon, <1>1, <1>2, <2>1 DEF parse_bootstrap
<1>4. boot'.lease_ttl = set.lease_ttl /\ boot'.persist_after = set.persist_after
  BY SMT, <1>3
<1>5. \A i \in DOMAIN errs : errs[i] = Ok
  <2>1. DOMAIN errs \subseteq Nat
    BY SMT, <1>1
  <2> QED
    BY Zenon, <1>3, <2>1, NoError
<1>6. /\ bits_timings(config) = Ok /\ server_section(config) = Ok /\ persist_guard(config) = Ok
      /\ store_section(config) = Ok
  <2>1. DOMAIN errs = 1..5 /\ errs[2] = bits_timings(config) /\ errs[3] = server_section(config)
        /\ errs[4] = persist_guard(config) /\ errs[5] = store_section(config)
    BY SMT, <1>1
  <2> QED
    BY SMT, <1>5, <2>1
<1>7. /\ config.sweep_interval = Unset \/ config.sweep_interval > 0
      /\ config.reconnect_buffer = Unset \/ config.reconnect_buffer > 0
      /\ config.internal_poll_timeout = Unset \/ config.internal_poll_timeout > 0
      /\ config.persist_after # Invalid /\ config.max_jobs # 0
  <2>1. PICK e : e = <<positive_duration_secs("bits.internal_poll_timeout_secs", config.internal_poll_timeout),
               positive_duration_secs("bits.sweep_interval_secs", config.sweep_interval),
               positive_duration_secs("bits.reconnect_buffer_secs", config.reconnect_buffer),
               duration_secs("bits.persist_after_secs", config.persist_after),
               Unless(config.max_jobs # 0, "bits.max_jobs")>>
    BY ZenonT(100)
  <2>2. FirstError(e) = Ok /\ DOMAIN e = 1..5 /\ DOMAIN e \subseteq Nat
    BY SMT, <1>6, <2>1 DEF bits_timings
  <2>3. \A i \in 1..5 : e[i] = Ok
    BY Zenon, <2>2, NoError
  <2>4. /\ positive_duration_secs("bits.internal_poll_timeout_secs", config.internal_poll_timeout) = Ok
        /\ positive_duration_secs("bits.sweep_interval_secs", config.sweep_interval) = Ok
        /\ positive_duration_secs("bits.reconnect_buffer_secs", config.reconnect_buffer) = Ok
        /\ duration_secs("bits.persist_after_secs", config.persist_after) = Ok
        /\ Unless(config.max_jobs # 0, "bits.max_jobs") = Ok
    BY SMT, <2>1, <2>3
  <2>5. {"bits.internal_poll_timeout_secs", "bits.sweep_interval_secs", "bits.reconnect_buffer_secs",
         "bits.persist_after_secs", "bits.max_jobs"} \cap {Ok} = {}
    BY SMT DEF Ok
  <2> QED
    BY Zenon, <2>4, <2>5, PositiveDuration DEF duration_secs, Unless
<1>8. config.poll_timeout = Unset \/ config.poll_timeout > 0
  <2>1. PICK e : e = <<Unless(config.server, "server"), Unless(config.metrics, "metrics"),
               IF config.buckets_given THEN validate_buckets("metrics", config.buckets) ELSE Ok,
               positive_duration_secs("server.poll_timeout_secs", config.poll_timeout),
               Unless(config.retry_after # 0, "server.retry_after_secs")>>
    BY ZenonT(100)
  <2>2. FirstError(e) = Ok
    BY Zenon, <1>6, <2>1 DEF server_section
  <2>3. DOMAIN e = 1..5 /\ DOMAIN e \subseteq Nat /\ 4 \in 1..5
        /\ e[4] = positive_duration_secs("server.poll_timeout_secs", config.poll_timeout)
    BY SMT, <2>1
  <2>4. e[4] = Ok
    BY Zenon, <2>2, <2>3, NoError
  <2>5. "server.poll_timeout_secs" # Ok
    BY SMT DEF Ok
  <2> QED
    BY Zenon, <2>3, <2>4, <2>5, PositiveDuration
<1>9. config.store = "none" \/ config.persist_after = Unset
      \/ config.persist_after + PERSIST_GUARD < config.poll_timeout
  <2>1. "bits.persist_after_secs" # Ok
    BY SMT DEF Ok
  <2> QED
    BY Zenon, <1>6, <2>1 DEF persist_guard, Unless
<1>10. config.store \in {"nats", "tikv"} => config.lease_ttl >= Sec
  <2>1. "bits.persistence.broker_lease_ttl_secs" # Ok
    BY SMT DEF Ok
  <2>2. CASE config.store = "tikv"
    <3>1. PICK e : e = <<Unless(config.endpoints, "bits.persistence.endpoints"),
               Unless(config.lease_ttl >= Sec, "bits.persistence.broker_lease_ttl_secs"),
               positive_duration_secs("bits.persistence.connect_timeout_secs", config.connect_timeout),
               Unless("tikv" \in config.features, "bits.persistence.type")>>
      BY ZenonT(100)
    <3>2. FirstError(e) = Ok
      BY Zenon, <1>6, <2>2, <3>1 DEF store_section, store_tikv
    <3>3. DOMAIN e \subseteq Nat /\ 2 \in DOMAIN e
          /\ e[2] = Unless(config.lease_ttl >= Sec, "bits.persistence.broker_lease_ttl_secs")
      BY SMT, <3>1
    <3> QED
      BY Zenon, <2>1, <3>2, <3>3, NoError DEF Unless
  <2>3. CASE config.store = "nats"
    <3>1. PICK e : e = <<Unless(config.endpoints, "bits.persistence.url"),
               Unless(config.replicas >= 1, "bits.persistence.num_replicas"),
               Unless(config.lease_ttl >= Sec, "bits.persistence.broker_lease_ttl_secs"),
               positive_duration_secs("bits.persistence.connect_timeout_secs", config.connect_timeout),
               Unless(config.tombstone_ttl = Unset \/ config.tombstone_ttl >= Sec,
                      "bits.persistence.jobs_tombstone_ttl_secs"),
               Unless(config.attempts >= 1, "bits.persistence.init_max_attempts"),
               Unless("nats" \in config.features, "bits.persistence.type"),
               Unless(config.runtime, "bits.persistence.type")>>
      BY ZenonT(100)
    <3>2. FirstError(e) = Ok
      BY Zenon, <1>6, <2>3, <3>1 DEF store_section, store_nats
    <3>3. DOMAIN e \subseteq Nat /\ 3 \in DOMAIN e
          /\ e[3] = Unless(config.lease_ttl >= Sec, "bits.persistence.broker_lease_ttl_secs")
      BY SMT, <3>1
    <3> QED
      BY Zenon, <2>1, <3>2, <3>3, NoError DEF Unless
  <2> QED
    BY Zenon, <2>2, <2>3
<1>11. /\ config.store \in {"none", "nats", "tikv"}
       /\ config.persist_after \in Nat \cup {Unset, Invalid}
       /\ config.poll_timeout # Unset
  BY Zenon, ConfigsAssumption
<1>12. set.lease_ttl >= Sec
  BY SMT, <1>2, <1>10, <1>11 DEF without_store, with_store, DEFAULT_LEASE_TTL, Sec
<1>13. set.persist_after # Unset => config.store # "none" /\ set.persist_after = config.persist_after
  BY SMT, <1>2 DEF without_store, with_store
<1>14. {config.sweep_interval, config.reconnect_buffer, config.internal_poll_timeout} \cap {0, Invalid} = {}
  BY SMT, <1>7 DEF Unset, Invalid
<1>15. set.persist_after # Unset =>
         /\ config.store # "none"
         /\ set.persist_after >= 0 /\ set.persist_after + PERSIST_GUARD < config.poll_timeout
  <2>1. config.persist_after # Unset => config.persist_after >= 0
    BY SMT, <1>7, <1>11
  <2> QED
    BY Zenon, <1>9, <1>13, <2>1
<1>16. config.poll_timeout > 0 /\ config.max_jobs # 0
  BY Zenon, <1>7, <1>8, <1>11
<1> QED
  BY Zenon, <1>3, <1>4, <1>12, <1>14, <1>15, <1>16 DEF Usable

\* The routes of a thread are parsed and valid.
Valid(t) == thread[t].at \notin {"idle", "copy"} /\ validate(thread[t].routes) = Ok

\* The fields the proofs follow.
Shaped ==
  /\ config \in Configs
  /\ DOMAIN boot = {"at", "tries", "err", "lease_ttl", "persist_after"}
  /\ thread = [t \in Threads |-> thread[t]]
  /\ \A t \in Threads : {"at", "routes"} \subseteq DOMAIN thread[t]

\* The inductive invariant of startup: once past the settings they are usable;
\* once at the routes there is a slot; the bootstrap thread works on the routes
\* only then; and a router that is in use, or listed, is valid.
StartOk ==
  /\ Shaped
  /\ boot.at \notin {"settings", "failed"} => Usable
  /\ boot.at \in {"routes", "up", "dropped"} => slot # Unset
  /\ Busy(Boot) => boot.at = "routes"
  /\ boot.at \in {"up", "dropped"} => Valid(Boot)
  /\ \A t \in added : t \in Adders /\ Valid(t)

\* A valid route ends in its only terminal action.
LEMMA ValidRoutes ==
  ASSUME NEW routes, validate(routes) = Ok
  PROVE  \A i \in DOMAIN routes :
           LET steps == routes[i].actions IN {j \in DOMAIN steps : is_terminal(steps[j])} = {Len(steps)}
<1>1. "route" # Ok
  BY SMT DEF Ok
<1>2. \A i \in DOMAIN routes : validate_route(routes[i]) = Ok
  BY Zenon, <1>1 DEF validate, Unless
<1> QED
  BY Zenon, <1>1, <1>2 DEF validate_route, Unless

\* A broker that is up is usable.
LEMMA StartOkSuffices == StartOk => UpIsUsable
<1> SUFFICES ASSUME StartOk, boot.at = "up" PROVE UpIsUsable
  BY Zenon DEF UpIsUsable, Up
<1>1. Usable /\ slot # Unset /\ \A t \in {Boot} \cup added : validate(thread[t].routes) = Ok
  <2>1. boot.at \notin {"settings", "failed"} /\ boot.at \in {"routes", "up", "dropped"} /\ boot.at \in {"up", "dropped"}
    BY Zenon
  <2> QED
    BY Zenon, <2>1 DEF StartOk, Valid
<1>2. \A t \in {Boot} \cup added : \A i \in DOMAIN thread[t].routes :
        LET steps == thread[t].routes[i].actions IN {j \in DOMAIN steps : is_terminal(steps[j])} = {Len(steps)}
  BY Zenon, <1>1, ValidRoutes
<1> QED
  BY Zenon, <1>1, <1>2 DEF UpIsUsable, Usable

\* Nothing is up at first.
LEMMA StartOkFirst == Init => StartOk
<1> SUFFICES ASSUME Init PROVE StartOk
  OBVIOUS
<1>1. boot.at = "settings" /\ DOMAIN boot = {"at", "tries", "err", "lease_ttl", "persist_after"}
  BY SMT DEF Init
<1>2. NoThread.at = "idle" /\ {"at", "routes"} \subseteq DOMAIN NoThread
  BY SMT DEF NoThread
<1>3. \A t \in Threads : thread[t] = NoThread
  BY Zenon DEF Init
<1>4. thread = [t \in Threads |-> thread[t]]
  BY SMT DEF Init
<1>5. Boot \in Threads
  BY Zenon DEF Threads
<1>6. ~Busy(Boot)
  BY Zenon, <1>2, <1>3, <1>5 DEF Busy
<1>7. Shaped
  BY Zenon, <1>1, <1>2, <1>3, <1>4 DEF Shaped, Init
<1> QED
  BY Zenon, <1>1, <1>6, <1>7 DEF StartOk, Init

\* A step of one thread on its routes.
Moves(t) ==
  /\ thread' = [u \in Threads |-> thread'[u]]
  /\ \A u \in Threads \ {t} : thread'[u] = thread[u]
  /\ {"at", "routes"} \subseteq DOMAIN thread'[t]
  /\ thread'[t].at \notin {"idle", "copy"}
  /\ thread[t].at # "copy" => thread'[t].routes = thread[t].routes
  /\ \/ UNCHANGED boot
     \/ t = Boot /\ \E err : BootFails(err) /\ thread'[t].at = "failed"

\* It keeps the invariant if the router is not put into use.
LEMMA StartOkMoves ==
  ASSUME StartOk, NEW t \in Threads, Busy(t), Moves(t), UNCHANGED <<config, slot, added>>
  PROVE  StartOk'
<1>1. Boot \in Threads /\ Adders \subseteq Threads /\ Boot \notin Adders
  BY Zenon, AddersAssumption DEF Threads
<1>2. Shaped'
  <2>1. ASSUME NEW err, BootFails(err) PROVE DOMAIN boot' = DOMAIN boot
    BY SMT, <2>1 DEF BootFails
  <2> QED
    BY Zenon, <2>1 DEF StartOk, Shaped, Moves
<1>3. ASSUME NEW u \in Threads, Valid(u) PROVE Valid(u)'
  BY Zenon, <1>3 DEF Valid, Moves
<1>4. \A u \in added' : u \in Adders /\ Valid(u)'
  BY Zenon, <1>1, <1>3 DEF StartOk
<1>5. CASE UNCHANGED boot
  <2>1. Busy(Boot)' => Busy(Boot)
    BY Zenon, <1>1 DEF Moves, Busy
  <2>2. Usable' = Usable
    BY Zenon, <1>5 DEF Usable
  <2> QED
    BY Zenon, <1>1, <1>2, <1>3, <1>4, <1>5, <2>1, <2>2 DEF StartOk
<1>6. CASE t = Boot /\ \E err : BootFails(err) /\ thread'[t].at = "failed"
  <2>1. boot'.at = "failed"
    BY Zenon, <1>6 DEF BootFails, StartOk, Shaped
  <2>2. ~Busy(Boot)'
    BY Zenon, <1>6 DEF Busy
  <2> QED
    BY Zenon, <1>2, <1>4, <2>1, <2>2 DEF StartOk
<1> QED
  BY Zenon, <1>5, <1>6 DEF Moves

\* A thread goes to another place with the same routes.
Goes(t, at) ==
  /\ thread' = [u \in Threads |-> thread'[u]]
  /\ \A u \in Threads \ {t} : thread'[u] = thread[u]
  /\ {"at", "routes"} \subseteq DOMAIN thread'[t]
  /\ thread'[t].at = at /\ thread'[t].routes = thread[t].routes

\* The assignments of the steps of a thread.
LEMMA GoesBy ==
  ASSUME Shaped, NEW t \in Threads, NEW at, NEW x,
         \/ thread' = [thread EXCEPT ![t].at = at]
         \/ thread' = [thread EXCEPT ![t].at = at, ![t].err = x]
         \/ thread' = [thread EXCEPT ![t].at = at, ![t].then = x]
         \/ thread' = [thread EXCEPT ![t].left = x, ![t].at = at]
  PROVE  Goes(t, at)
<1>0. thread = [u \in Threads |-> thread[u]] /\ {"at", "routes"} \subseteq DOMAIN thread[t]
  BY Zenon DEF Shaped
<1>1. CASE thread' = [thread EXCEPT ![t].at = at]
  BY SMT, <1>0, <1>1 DEF Goes
<1>2. CASE thread' = [thread EXCEPT ![t].at = at, ![t].err = x]
  BY SMTT(60), <1>0, <1>2 DEF Goes
<1>3. CASE thread' = [thread EXCEPT ![t].at = at, ![t].then = x]
  BY SMT, <1>0, <1>3 DEF Goes
<1>4. CASE thread' = [thread EXCEPT ![t].left = x, ![t].at = at]
  <2>1. PICK f : f = [thread EXCEPT ![t].left = x]
    OBVIOUS
  <2>2. /\ f = [u \in Threads |-> f[u]]
        /\ \A u \in Threads \ {t} : f[u] = thread[u]
        /\ DOMAIN f[t] = DOMAIN thread[t] /\ f[t].routes = thread[t].routes
    BY SMT, <1>0, <2>1
  <2>3. PICK g : g = [f[t] EXCEPT !.at = at]
    OBVIOUS
  <2>4. DOMAIN g = DOMAIN f[t] /\ g.routes = f[t].routes /\ g.at = at
    BY SMT, <1>0, <2>2, <2>3
  <2>5. thread' = [f EXCEPT ![t].at = at]
    BY <1>4, <2>1
  <2>6. thread' = [f EXCEPT ![t] = g]
    BY <2>3, <2>5
  <2>7. /\ thread' = [u \in Threads |-> thread'[u]]
        /\ \A u \in Threads \ {t} : thread'[u] = f[u]
        /\ thread'[t] = g
    BY SMT, <2>2, <2>6
  <2> QED
    BY Zenon, <1>0, <2>2, <2>4, <2>7 DEF Goes
<1> QED
  BY Zenon, <1>1, <1>2, <1>3, <1>4

\* A call that returns an error, or goes on with its registrations.
LEMMA MovesBy ==
  ASSUME Shaped, NEW t \in Threads
  PROVE  /\ \A at : Goes(t, at) /\ at \notin {"idle", "copy"} /\ UNCHANGED boot => Moves(t)
         /\ \A err : Returns(t, err) => Moves(t)
         /\ \A rest : Registered(t, rest) => Moves(t)
<1>1. ASSUME NEW at, Goes(t, at), at \notin {"idle", "copy"}, UNCHANGED boot PROVE Moves(t)
  BY Zenon, <1>1 DEF Goes, Moves
<1>2. ASSUME NEW err, Returns(t, err) PROVE Moves(t)
  <2>1. Goes(t, "failed") /\ (UNCHANGED boot \/ (t = Boot /\ BootFails(err)))
    BY Zenon, <1>2, GoesBy DEF Returns
  <2> QED
    BY Zenon, <2>1 DEF Goes, Moves
<1>3. ASSUME NEW rest, Registered(t, rest) PROVE Moves(t)
  <2>1. CASE Returns(t, thread[t].err)
    BY Zenon, <1>2, <2>1
  <2>2. CASE \E at \in {"merge", "register"} :
               thread' = [thread EXCEPT ![t].left = rest, ![t].at = at] /\ UNCHANGED boot
    BY Zenon, <1>1, <2>2, GoesBy
  <2> QED
    BY Zenon, <1>3, <2>1, <2>2 DEF Registered
<1> QED
  BY Zenon, <1>1, <1>2, <1>3

\* A parse puts new routes in place of none.
LEMMA ParsedMoves ==
  ASSUME Shaped, NEW t \in Threads, thread[t].at = "copy", NEW p, Parsed(t, p)
  PROVE  Moves(t)
<1>1. CASE Returns(t, p.err)
  BY Zenon, <1>1, MovesBy
<1>2. CASE ~Returns(t, p.err)
  <2>r. PICK routes : routes = IF p.err = Ok THEN p.out ELSE <<>>
    OBVIOUS
  <2>a. PICK at : at = (IF p.regs = <<>> THEN "merge" ELSE "register") /\ at \in {"merge", "register"}
    OBVIOUS
  <2>1. thread' = [thread EXCEPT ![t] = [@ EXCEPT !.routes = routes, !.cache = cache, !.made = p.cache,
                                                    !.left = p.regs, !.err = p.err, !.at = at]]
    BY Zenon, <1>2, <2>r, <2>a DEF Parsed
  <2>2. UNCHANGED boot
    BY Zenon, <1>2 DEF Parsed
  <2>3. PICK c : c = [thread[t] EXCEPT !.routes = routes, !.cache = cache, !.made = p.cache,
                                       !.left = p.regs, !.err = p.err, !.at = at]
    OBVIOUS
  <2>4. thread' = [thread EXCEPT ![t] = c]
    BY Zenon, <2>1, <2>3
  <2>5. DOMAIN c = DOMAIN thread[t] /\ c.at = at
    BY SMT, <2>3 DEF Shaped
  <2>6. /\ thread' = [u \in Threads |-> thread'[u]]
        /\ \A u \in Threads \ {t} : thread'[u] = thread[u]
        /\ thread'[t] = c
    BY SMT, <2>4 DEF Shaped
  <2> QED
    BY Zenon, <2>a, <2>2, <2>5, <2>6 DEF Moves, Shaped
<1> QED
  BY Zenon, <1>1, <1>2

\* parse_bootstrap moves to the place at, and keeps its settings.
BootGoes(at) ==
  /\ DOMAIN boot' = DOMAIN boot /\ boot'.at = at
  /\ boot'.lease_ttl = boot.lease_ttl /\ boot'.persist_after = boot.persist_after

\* The assignments of its steps.
LEMMA BootGoesBy ==
  ASSUME Shaped, NEW at, NEW tries, NEW err,
         \/ boot' = [boot EXCEPT !.at = at]
         \/ boot' = [boot EXCEPT !.at = at, !.tries = tries]
         \/ boot' = [boot EXCEPT !.at = at, !.err = err]
         \/ boot' = [boot EXCEPT !.at = at, !.tries = tries, !.err = err]
  PROVE  BootGoes(at)
<1>0. DOMAIN boot = {"at", "tries", "err", "lease_ttl", "persist_after"}
  BY Zenon DEF Shaped
<1>1. CASE boot' = [boot EXCEPT !.at = at]
  BY SMT, <1>0, <1>1 DEF BootGoes
<1>2. CASE boot' = [boot EXCEPT !.at = at, !.tries = tries]
  BY SMT, <1>0, <1>2 DEF BootGoes
<1>3. CASE boot' = [boot EXCEPT !.at = at, !.err = err]
  BY SMT, <1>0, <1>3 DEF BootGoes
<1>4. CASE boot' = [boot EXCEPT !.at = at, !.tries = tries, !.err = err]
  BY SMT, <1>0, <1>4 DEF BootGoes
<1> QED
  BY Zenon, <1>1, <1>2, <1>3, <1>4

\* The settings stay usable.
LEMMA UsableKept ==
  ASSUME Usable, NEW at, BootGoes(at), UNCHANGED config
  PROVE  Usable'
BY Zenon DEF Usable, BootGoes

\* Steps of parse_bootstrap before the routes.
LEMMA StartOkBoot ==
  ASSUME StartOk, UNCHANGED <<config, thread, added>>, boot.at \notin {"routes", "up", "dropped"},
         DOMAIN boot' = DOMAIN boot,
         boot'.at = "failed" \/ (boot'.at \in {"init", "slot", "registries"} /\ Usable')
  PROVE  StartOk'
<1>1. Shaped'
  BY Zenon DEF StartOk, Shaped
<1>2. ~Busy(Boot)'
  BY Zenon DEF StartOk, Busy
<1>3. \A t : Valid(t) => Valid(t)'
  BY Zenon DEF Valid
<1>4. boot'.at \notin {"routes", "up", "dropped"}
  BY Zenon
<1> QED
  BY Zenon, <1>1, <1>2, <1>3, <1>4 DEF StartOk

\* The settings and the store.
LEMMA StartOkSettings ==
  ASSUME StartOk, parse_bootstrap \/ init_store \/ allocate_startup_broker_slot
  PROVE  StartOk'
<1>1. Shaped /\ config \in Configs /\ DOMAIN boot = {"at", "tries", "err", "lease_ttl", "persist_after"}
  BY Zenon DEF StartOk, Shaped
<1>2. CASE parse_bootstrap
  <2>1. boot.at = "settings" /\ UNCHANGED <<config, thread, added>>
    BY Zenon, <1>2 DEF parse_bootstrap
  <2>2. \/ \E err : boot' = [boot EXCEPT !.at = "failed", !.err = err]
        \/ \E at \in {"init", "slot", "registries"} : \E ttl, after :
             boot' = [boot EXCEPT !.at = at, !.lease_ttl = ttl, !.persist_after = after]
    BY Zenon, <1>2 DEF parse_bootstrap, BootFails
  <2>3. DOMAIN boot' = DOMAIN boot /\ boot'.at \in {"failed", "init", "slot", "registries"}
    <3>1. ASSUME NEW err, boot' = [boot EXCEPT !.at = "failed", !.err = err]
          PROVE  DOMAIN boot' = DOMAIN boot /\ boot'.at = "failed"
      BY SMT, <1>1, <3>1
    <3>2. ASSUME NEW at, NEW ttl, NEW after,
                 boot' = [boot EXCEPT !.at = at, !.lease_ttl = ttl, !.persist_after = after]
          PROVE  DOMAIN boot' = DOMAIN boot /\ boot'.at = at
      BY SMT, <1>1, <3>2
    <3> QED
      BY Zenon, <2>2, <3>1, <3>2
  <2>4. boot'.at # "failed" => Usable'
    BY Zenon, <1>1, <1>2, SettingsUsable
  <2> QED
    BY Zenon, <2>1, <2>3, <2>4, StartOkBoot
<1>3. CASE init_store
  <2>1. boot.at = "init" /\ UNCHANGED <<config, thread, added>>
    BY Zenon, <1>3 DEF init_store
  <2>3. \/ boot' = [boot EXCEPT !.at = "slot", !.tries = @ + 1]
        \/ boot' = [boot EXCEPT !.tries = @ + 1]
        \/ boot' = [boot EXCEPT !.at = "failed", !.tries = @ + 1, !.err = "bits.persistence"]
    BY Zenon, <1>3 DEF init_store
  <2>4. BootGoes("slot") \/ BootGoes("init") \/ BootGoes("failed")
    <3>1. boot' = [boot EXCEPT !.tries = @ + 1] => BootGoes("init")
      BY SMT, <1>1, <2>1 DEF BootGoes
    <3> QED
      BY Zenon, <1>1, <2>3, <3>1, BootGoesBy
  <2>5. Usable'
    BY Zenon, <2>1, <2>4, UsableKept DEF StartOk
  <2>6. DOMAIN boot' = DOMAIN boot /\ (boot'.at = "failed" \/ boot'.at \in {"init", "slot", "registries"})
    BY Zenon, <2>4 DEF BootGoes
  <2> QED
    BY Zenon, <2>1, <2>5, <2>6, StartOkBoot
<1>4. CASE allocate_startup_broker_slot
  <2>1. boot.at = "slot" /\ UNCHANGED <<config, thread, added>>
    BY Zenon, <1>4 DEF allocate_startup_broker_slot
  <2>2. BootGoes("registries") \/ BootGoes("failed")
    BY Zenon, <1>1, <1>4, BootGoesBy DEF allocate_startup_broker_slot, BootFails
  <2>3. Usable'
    BY Zenon, <2>1, <2>2, UsableKept DEF StartOk
  <2>4. DOMAIN boot' = DOMAIN boot /\ (boot'.at = "failed" \/ boot'.at \in {"init", "slot", "registries"})
    BY Zenon, <2>2 DEF BootGoes
  <2> QED
    BY Zenon, <2>1, <2>3, <2>4, StartOkBoot
<1> QED
  BY Zenon, <1>2, <1>3, <1>4

\* A thread that goes elsewhere keeps its fields.
LEMMA ShapedKept ==
  ASSUME Shaped, NEW t \in Threads, NEW at, Goes(t, at), UNCHANGED config, DOMAIN boot' = DOMAIN boot
  PROVE  Shaped'
<1>1. \A u \in Threads : {"at", "routes"} \subseteq DOMAIN thread'[u]
  <2> TAKE u \in Threads
  <2>1. CASE u = t
    BY Zenon, <2>1 DEF Goes
  <2>2. CASE u # t
    BY Zenon, <2>2 DEF Goes, Shaped
  <2> QED
    BY Zenon, <2>1, <2>2
<1> QED
  BY Zenon, <1>1 DEF Shaped, Goes

\* The slot is there and the routes are parsed next.
LEMMA StartOkRegistries == ASSUME StartOk, registries PROVE StartOk'
<1>1. Shaped /\ Boot \in Threads /\ Boot \notin Adders /\ Adders \subseteq Threads
  BY Zenon, AddersAssumption DEF StartOk, Threads
<1>2. boot.at = "registries" /\ UNCHANGED <<config, added>>
  BY Zenon DEF registries
<1>3. Usable
  BY Zenon, <1>2 DEF StartOk
<1>4. CASE BootFails("registries") /\ UNCHANGED thread
  <2>1. BootGoes("failed")
    BY Zenon, <1>1, <1>4, BootGoesBy DEF BootFails
  <2> QED
    BY Zenon, <1>2, <1>4, <2>1, StartOkBoot DEF BootGoes
<1>5. CASE /\ boot' = [boot EXCEPT !.at = "routes"]
           /\ slot' = IF slot = Unset THEN 0 ELSE slot
           /\ thread' = [thread EXCEPT ![Boot].at = "copy"]
  <2>1. BootGoes("routes") /\ Goes(Boot, "copy")
    BY Zenon, <1>1, <1>5, BootGoesBy, GoesBy
  <2>2. Usable' /\ boot'.at = "routes" /\ DOMAIN boot' = DOMAIN boot
    BY Zenon, <1>2, <1>3, <2>1, UsableKept DEF BootGoes
  <2>3. slot' # Unset
    BY SMT, <1>5 DEF Unset
  <2>4. Shaped'
    BY Zenon, <1>1, <1>2, <2>1, <2>2, ShapedKept
  <2>5. \A t \in added' : t \in Adders /\ Valid(t)'
    BY Zenon, <1>1, <1>2, <2>1 DEF StartOk, Valid, Goes
  <2>6. boot'.at \notin {"up", "dropped"}
    BY Zenon, <2>2
  <2> QED
    BY Zenon, <2>2, <2>3, <2>4, <2>5, <2>6 DEF StartOk
<1> QED
  BY Zenon, <1>4, <1>5 DEF registries

\* The threads that parse and register.
LEMMA StartOkThread ==
  ASSUME StartOk, NEW t \in Threads, parse_route(t) \/ register_pool(t) \/ ensure_started(t) \/ bind(t) \/ merge(t)
  PROVE  StartOk'
<1>1. Shaped
  BY Zenon DEF StartOk
<1>2. UNCHANGED <<config, slot, added>>
  BY Zenon DEF parse_route, register_pool, ensure_started, bind, merge
<1>3. Busy(t)
  BY Zenon DEF Busy, parse_route, register_pool, ensure_started, bind, merge
<1>g. ASSUME NEW at, Goes(t, at), at \notin {"idle", "copy"}, UNCHANGED boot PROVE Moves(t)
  BY Zenon, <1>1, <1>g, MovesBy
<1>4. CASE parse_route(t)
  <2>1. \E p : Parsed(t, p) /\ thread[t].at = "copy"
    BY Zenon, <1>4 DEF parse_route
  <2> QED
    BY Zenon, <1>1, <1>2, <1>3, <2>1, ParsedMoves, StartOkMoves
<1>5. CASE register_pool(t)
  <2>1. \/ \E rest : Registered(t, rest)
        \/ thread' = [thread EXCEPT ![t].at = "start", ![t].then = "register"] /\ UNCHANGED boot
    BY Zenon, <1>5 DEF register_pool
  <2>2. CASE \E rest : Registered(t, rest)
    BY Zenon, <1>1, <1>2, <1>3, <2>2, MovesBy, StartOkMoves
  <2>3. CASE thread' = [thread EXCEPT ![t].at = "start", ![t].then = "register"] /\ UNCHANGED boot
    <3>1. Goes(t, "start")
      BY Zenon, <1>1, <2>3, GoesBy
    <3> QED
      BY Zenon, <1>2, <1>3, <1>g, <2>3, <3>1, StartOkMoves
  <2> QED
    BY Zenon, <2>1, <2>2, <2>3
<1>6. CASE ensure_started(t)
  <2>1. thread' = [thread EXCEPT ![t].at = "bind"] /\ UNCHANGED boot
    BY Zenon, <1>6 DEF ensure_started
  <2>2. Goes(t, "bind")
    BY Zenon, <1>1, <2>1, GoesBy
  <2> QED
    BY Zenon, <1>2, <1>3, <1>g, <2>1, <2>2, StartOkMoves
<1>7. CASE bind(t)
  <2>1. \/ \E rest : Registered(t, rest)
        \/ thread' = [thread EXCEPT ![t].at = "done"] /\ UNCHANGED boot
        \/ Returns(t, "worker_server")
    BY Zenon, <1>7 DEF bind
  <2>2. CASE (\E rest : Registered(t, rest)) \/ Returns(t, "worker_server")
    BY Zenon, <1>1, <1>2, <1>3, <2>2, MovesBy, StartOkMoves
  <2>3. CASE thread' = [thread EXCEPT ![t].at = "done"] /\ UNCHANGED boot
    <3>1. Goes(t, "done")
      BY Zenon, <1>1, <2>3, GoesBy
    <3> QED
      BY Zenon, <1>2, <1>3, <1>g, <2>3, <3>1, StartOkMoves
  <2> QED
    BY Zenon, <2>1, <2>2, <2>3
<1>8. CASE merge(t)
  <2>1. thread' = [thread EXCEPT ![t].at = "validate"] /\ UNCHANGED boot
    BY Zenon, <1>8 DEF merge
  <2>2. Goes(t, "validate")
    BY Zenon, <1>1, <2>1, GoesBy
  <2> QED
    BY Zenon, <1>2, <1>3, <1>g, <2>1, <2>2, StartOkMoves
<1> QED
  BY Zenon, <1>4, <1>5, <1>6, <1>7, <1>8

\* The end of parse_bootstrap.
LEMMA StartOkUp == ASSUME StartOk, validate_switch PROVE StartOk'
<1>1. Shaped /\ Boot \in Threads /\ Boot \notin Adders /\ Adders \subseteq Threads
  BY Zenon, AddersAssumption DEF StartOk, Threads
<1>2. thread[Boot].at = "validate" /\ UNCHANGED <<config, slot, added>> /\ Busy(Boot)
  BY Zenon DEF validate_switch, Busy
<1>3. boot.at = "routes" /\ Usable /\ slot # Unset
  BY Zenon, <1>2 DEF StartOk
<1>4. CASE Returns(Boot, "route")
  BY Zenon, <1>1, <1>2, <1>4, MovesBy, StartOkMoves
<1>5. CASE /\ validate(thread[Boot].routes) = Ok
           /\ boot' = [boot EXCEPT !.at = "up"]
           /\ thread' = [thread EXCEPT ![Boot].at = "done"]
  <2>1. BootGoes("up") /\ Goes(Boot, "done")
    BY Zenon, <1>1, <1>5, BootGoesBy, GoesBy
  <2>2. Usable' /\ boot'.at = "up" /\ DOMAIN boot' = DOMAIN boot
    BY Zenon, <1>2, <1>3, <2>1, UsableKept DEF BootGoes
  <2>3. Shaped'
    BY Zenon, <1>1, <1>2, <2>1, <2>2, ShapedKept
  <2>4. \A t \in added' : t \in Adders /\ Valid(t)'
    BY Zenon, <1>1, <1>2, <2>1 DEF StartOk, Valid, Goes
  <2>5. Valid(Boot)' /\ ~Busy(Boot)'
    BY Zenon, <1>5, <2>1 DEF Valid, Busy, Goes
  <2>6. slot' # Unset
    BY Zenon, <1>2, <1>3
  <2> QED
    BY Zenon, <2>2, <2>3, <2>4, <2>5, <2>6 DEF StartOk
<1> QED
  BY Zenon, <1>4, <1>5 DEF validate_switch

\* The end of add_route.
LEMMA StartOkListed == ASSUME StartOk, NEW t \in Threads, list_route(t) PROVE StartOk'
<1>1. Shaped /\ Boot \in Threads /\ Boot \notin Adders /\ Adders \subseteq Threads
  BY Zenon, AddersAssumption DEF StartOk, Threads
<1>2. t \in Adders /\ thread[t].at = "validate" /\ UNCHANGED <<config, slot>> /\ Busy(t)
  BY Zenon DEF list_route, Busy
<1>3. CASE Returns(t, "route") /\ UNCHANGED added
  BY Zenon, <1>1, <1>2, <1>3, MovesBy, StartOkMoves
<1>4. CASE /\ validate(thread[t].routes) = Ok /\ added' = added \cup {t} /\ UNCHANGED boot
           /\ \E at \in {"start", "done"} : thread' = [thread EXCEPT ![t].at = at, ![t].then = "done"]
  <2>1. PICK at \in {"start", "done"} : Goes(t, at)
    BY Zenon, <1>1, <1>4, GoesBy
  <2>2. at \notin {"idle", "copy"} /\ thread[t].at \notin {"idle", "copy"}
    BY Zenon, <1>2
  <2>3. \A u \in Threads : Valid(u) => Valid(u)'
    BY Zenon, <2>1, <2>2 DEF Valid, Goes
  <2>4. Valid(t)'
    BY Zenon, <1>4, <2>1, <2>2 DEF Valid, Goes
  <2>5. Shaped'
    BY Zenon, <1>1, <1>2, <1>4, <2>1, ShapedKept
  <2>6. Busy(Boot)' => Busy(Boot)
    BY Zenon, <1>1, <1>2, <2>1 DEF Goes, Busy
  <2>7. Usable' = Usable
    BY Zenon, <1>2, <1>4 DEF Usable
  <2>8. \A u \in added' : u \in Adders /\ Valid(u)'
    BY Zenon, <1>1, <1>2, <1>4, <2>3, <2>4 DEF StartOk
  <2> QED
    BY ZenonT(100), <1>1, <1>2, <1>4, <2>3, <2>5, <2>6, <2>7, <2>8 DEF StartOk
<1> QED
  BY Zenon, <1>3, <1>4 DEF list_route

\* A thread calls add_route: it was not listed before.
LEMMA StartOkAdd == ASSUME StartOk, NEW t \in Adders, add_route(t) PROVE StartOk'
<1>1. Shaped /\ Boot \in Threads /\ Boot # t /\ t \in Threads /\ Adders \subseteq Threads
  BY Zenon, AddersAssumption DEF StartOk, Threads
<1>2. thread[t].at = "idle" /\ UNCHANGED <<config, boot, slot, added>>
  BY Zenon DEF add_route
<1>3. Goes(t, "copy")
  BY Zenon, <1>1, GoesBy DEF add_route
<1>4. ASSUME NEW u \in Threads, Valid(u) PROVE Valid(u)'
  BY Zenon, <1>2, <1>3, <1>4 DEF Valid, Goes
<1>5. Busy(Boot)' => Busy(Boot)
  BY Zenon, <1>1, <1>3 DEF Goes, Busy
<1>6. Usable' = Usable
  BY Zenon, <1>2 DEF Usable
<1>7. Shaped'
  BY Zenon, <1>1, <1>2, <1>3, ShapedKept
<1>8. \A u \in added' : u \in Adders /\ Valid(u)'
  BY Zenon, <1>1, <1>2, <1>4 DEF StartOk
<1> QED
  BY ZenonT(100), <1>1, <1>2, <1>4, <1>5, <1>6, <1>7, <1>8 DEF StartOk

\* The broker is dropped.
LEMMA StartOkDrop == ASSUME StartOk, drop PROVE StartOk'
<1>1. boot.at = "up" /\ UNCHANGED <<config, slot, thread, added>> /\ boot' = [boot EXCEPT !.at = "dropped"]
  BY Zenon DEF drop, Up
<1>2. BootGoes("dropped")
  BY Zenon, <1>1, BootGoesBy DEF StartOk
<1>3. Usable /\ slot # Unset /\ Valid(Boot) /\ ~Busy(Boot)
  BY Zenon, <1>1 DEF StartOk
<1>4. Usable' /\ boot'.at = "dropped"
  BY Zenon, <1>1, <1>2, <1>3, UsableKept DEF BootGoes
<1>5. Shaped'
  BY Zenon, <1>1, <1>2 DEF StartOk, Shaped, BootGoes
<1>6. (\A t : Valid(t) => Valid(t)') /\ ~Busy(Boot)'
  BY Zenon, <1>1, <1>3 DEF Valid, Busy
<1> QED
  BY Zenon, <1>1, <1>3, <1>4, <1>5, <1>6 DEF StartOk

\* Steps that leave startup alone.
LEMMA StartOkApart ==
  ASSUME StartOk, UNCHANGED <<config, boot, slot, thread, added>>
  PROVE  StartOk'
BY Zenon DEF StartOk, Shaped, Usable, Valid, Busy

\* Every step keeps StartOk.
LEMMA StartOkKept == ASSUME StartOk, [Next]_vars PROVE StartOk'
<1>1. CASE Booting
  <2>1. StartupStep
    BY Zenon, <1>1 DEF Booting
  <2> QED
    BY Zenon, <2>1, StartOkSettings, StartOkRegistries, StartOkUp, StartOkThread, StartOkListed DEF StartupStep
<1>2. CASE Parsing
  BY Zenon, <1>2, StartOkThread DEF Parsing, ParseStep
<1>3. CASE Calling
  <2>1. CASE \E t \in Adders : add_route(t)
    BY Zenon, <2>1, StartOkAdd
  <2>2. CASE PortReleased
    BY Zenon, <2>2, StartOkApart DEF PortReleased
  <2> QED
    BY Zenon, <1>3, <2>1, <2>2 DEF Calling, StartupCall
<1>4. CASE Dropping
  BY Zenon, <1>4, StartOkDrop DEF Dropping
<1>5. CASE submit_job \/ submit_overloaded \/ Executing \/ cancel \/ Persist \/ Cleanup \/ Leave \/ snapshot
  BY Zenon, <1>5, StartOkApart DEF submit_job, submit_overloaded, Executing, cancel, Persist, Cleanup, Leave,
    snapshot, startup
<1>6. CASE Polling
  BY Zenon, <1>6, StartOkApart DEF Polling, poll_job, poll_python, poll_relayed, Poll, startup
<1>7. CASE UNCHANGED vars
  BY Zenon, <1>7, StartOkApart DEF vars, startup
<1> QED
  BY ZenonT(100), <1>1, <1>2, <1>3, <1>4, <1>5, <1>6, <1>7 DEF Next

\* A broker that comes up is usable, whatever its configuration, its parser and
\* the threads that add routes to it: it has a slot, settings its workers can
\* rely on, and routers whose routes all end in their only terminal action.
THEOREM UpCorrect == Spec => []UpIsUsable
<1>1. PipelineInit => StartOk
  BY Zenon, StartOkFirst DEF PipelineInit
<1>2. StartOk /\ [Next]_vars => StartOk'
  BY Zenon, StartOkKept
<1>3. StartOk => UpIsUsable
  BY Zenon, StartOkSuffices
<1> QED
  BY <1>1, <1>2, <1>3, PTL DEF Spec

-----------------------------------------------------------------------------
(* Targets are shared *)

\* The fields of a call.
Fields == {"at", "then", "routes", "cache", "left", "made", "err"}

\* The calls m but for the field f of the call of t.
Calls(m) == m = [u \in Threads |-> m[u]]
Apart(m, n, t) ==
  /\ Calls(n)
  /\ \A u \in Threads \ {t} : n[u] = m[u]
  /\ DOMAIN n[t] = Fields
  /\ n[t].routes = m[t].routes /\ n[t].cache = m[t].cache /\ n[t].made = m[t].made

\* The field at of one call is assigned.
PutAt(m, t, x) == [m EXCEPT ![t].at = x]

\* It leaves the rest of the call.
LEMMA PutsAt ==
  ASSUME NEW m, Calls(m), NEW t \in Threads, DOMAIN m[t] = Fields, NEW x, NEW n,
         n = PutAt(m, t, x)
  PROVE  Apart(m, n, t) /\ n[t].at = x /\ n[t].then = m[t].then /\ n[t].left = m[t].left /\ n[t].err = m[t].err
<1>1. PICK d : d = [m[t] EXCEPT !.at = x]
  OBVIOUS
<1>2. /\ DOMAIN d = Fields /\ d.routes = m[t].routes /\ d.cache = m[t].cache /\ d.made = m[t].made
      /\ d.at = x /\ d.then = m[t].then /\ d.left = m[t].left /\ d.err = m[t].err
  BY SMT, <1>1 DEF Fields
<1>3. n = [m EXCEPT ![t] = d]
  BY <1>1 DEF PutAt
<1>4. Calls(n) /\ n[t] = d /\ \A u \in Threads \ {t} : n[u] = m[u]
  BY SMT, <1>3 DEF Calls
<1> QED
  BY Zenon, <1>2, <1>4 DEF Apart

\* The field then of one call is assigned.
PutThen(m, t, x) == [m EXCEPT ![t].then = x]

\* It leaves the rest of the call.
LEMMA PutsThen ==
  ASSUME NEW m, Calls(m), NEW t \in Threads, DOMAIN m[t] = Fields, NEW x, NEW n,
         n = PutThen(m, t, x)
  PROVE  Apart(m, n, t) /\ n[t].then = x /\ n[t].at = m[t].at /\ n[t].left = m[t].left /\ n[t].err = m[t].err
<1>1. PICK d : d = [m[t] EXCEPT !.then = x]
  OBVIOUS
<1>2. /\ DOMAIN d = Fields /\ d.routes = m[t].routes /\ d.cache = m[t].cache /\ d.made = m[t].made
      /\ d.then = x /\ d.at = m[t].at /\ d.left = m[t].left /\ d.err = m[t].err
  BY SMT, <1>1 DEF Fields
<1>3. n = [m EXCEPT ![t] = d]
  BY <1>1 DEF PutThen
<1>4. Calls(n) /\ n[t] = d /\ \A u \in Threads \ {t} : n[u] = m[u]
  BY SMT, <1>3 DEF Calls
<1> QED
  BY Zenon, <1>2, <1>4 DEF Apart

\* The field left of one call is assigned.
PutLeft(m, t, x) == [m EXCEPT ![t].left = x]

\* It leaves the rest of the call.
LEMMA PutsLeft ==
  ASSUME NEW m, Calls(m), NEW t \in Threads, DOMAIN m[t] = Fields, NEW x, NEW n,
         n = PutLeft(m, t, x)
  PROVE  Apart(m, n, t) /\ n[t].left = x /\ n[t].at = m[t].at /\ n[t].then = m[t].then /\ n[t].err = m[t].err
<1>1. PICK d : d = [m[t] EXCEPT !.left = x]
  BY ZenonT(100)
<1>2. /\ DOMAIN d = Fields /\ d.routes = m[t].routes /\ d.cache = m[t].cache /\ d.made = m[t].made
      /\ d.left = x /\ d.at = m[t].at /\ d.then = m[t].then /\ d.err = m[t].err
  BY SMT, <1>1 DEF Fields
<1>3. n = [m EXCEPT ![t] = d]
  BY <1>1 DEF PutLeft
<1>4. Calls(n) /\ n[t] = d /\ \A u \in Threads \ {t} : n[u] = m[u]
  BY SMT, <1>3 DEF Calls
<1> QED
  BY Zenon, <1>2, <1>4 DEF Apart

\* The field err of one call is assigned.
PutErr(m, t, x) == [m EXCEPT ![t].err = x]

\* It leaves the rest of the call.
LEMMA PutsErr ==
  ASSUME NEW m, Calls(m), NEW t \in Threads, DOMAIN m[t] = Fields, NEW x, NEW n,
         n = PutErr(m, t, x)
  PROVE  Apart(m, n, t) /\ n[t].err = x /\ n[t].at = m[t].at /\ n[t].then = m[t].then /\ n[t].left = m[t].left
<1>1. PICK d : d = [m[t] EXCEPT !.err = x]
  BY ZenonT(100)
<1>2. /\ DOMAIN d = Fields /\ d.routes = m[t].routes /\ d.cache = m[t].cache /\ d.made = m[t].made
      /\ d.err = x /\ d.at = m[t].at /\ d.then = m[t].then /\ d.left = m[t].left
  BY SMT, <1>1 DEF Fields
<1>3. n = [m EXCEPT ![t] = d]
  BY <1>1 DEF PutErr
<1>4. Calls(n) /\ n[t] = d /\ \A u \in Threads \ {t} : n[u] = m[u]
  BY SMT, <1>3 DEF Calls
<1> QED
  BY Zenon, <1>2, <1>4 DEF Apart

\* A cache that another one extends.
Within(c, d) == \A n \in DOMAIN c : n \in DOMAIN d /\ d[n] = c[n]

\* A call has its routes and registers their pools; it has merged its targets.
Building(t) ==
  thread[t].at \in {"register", "merge"} \/ (thread[t].at \in {"start", "bind"} /\ thread[t].then = "register")
Merged(t) ==
  thread[t].at \in {"validate", "done"} \/ (thread[t].at \in {"start", "bind"} /\ thread[t].then # "register")

\* The targets that are shared by name: those of the registry, and remote ones.
Named(a) == a.name \in DOMAIN config.registries.target \/ a.type = "remote"

\* The copy of the cache agrees with the cache, which only grows, and with what
\* the call made of it; a router has the targets its call made.  When calls do
\* not overlap, the copy is the cache until the merge, and what was made is in
\* the cache from then on.
Known(t) ==
  /\ Building(t) \/ Merged(t) =>
       /\ Within(thread[t].cache, cache)
       /\ Within(thread[t].cache, thread[t].made)
       /\ thread[t].err = Ok => \A a \in Targets(t) : Named(a) =>
            a.name \in DOMAIN thread[t].made /\ thread[t].made[a.name] = a
  /\ Merged(t) \/ thread[t].at = "merge" => thread[t].err = Ok
  /\ config.serial /\ Building(t) => cache = thread[t].cache
  /\ config.serial /\ Merged(t) => Within(thread[t].made, cache)

\* Calls of add_route are made on a broker that is up, and one at a time where
\* they do not overlap.
AddersUp == \A t \in Adders : Busy(t) => boot.at = "up"
Alone(t) == config.serial => \A u \in Threads \ {t} : ~Busy(u)

SharedOk ==
  /\ StartOk
  /\ \A t \in Threads : DOMAIN thread[t] = Fields /\ Known(t) /\ (Busy(t) => Alone(t))
  /\ AddersUp

\* Growth of a cache is transitive.
LEMMA WithinTrans == \A c, d, e : Within(c, d) /\ Within(d, e) => Within(c, e)
BY Zenon DEF Within

\* The call of one thread goes on and the others wait or are done.
LEMMA SharedFrame ==
  ASSUME SharedOk, StartOk', NEW t \in Threads, Alone(t), UNCHANGED config, Within(cache, cache'),
         \A u \in Threads \ {t} : thread'[u] = thread[u], DOMAIN thread'[t] = Fields,
         Known(t)', AddersUp'
  PROVE  SharedOk'
<1>1. ASSUME NEW u \in Threads \ {t} PROVE Known(u)'
  <2>0. u \in Threads /\ thread'[u] = thread[u] /\ Known(u)
    BY Zenon, <1>1 DEF SharedOk
  <2>1. /\ Building(u)' = Building(u) /\ Merged(u)' = Merged(u) /\ Targets(u)' = Targets(u)
        /\ \A a : Named(a)' = Named(a)
    BY Zenon, <2>0 DEF Building, Merged, Targets, Named
  <2>2. config.serial => ~Building(u)
    BY Zenon, <1>1 DEF Alone, Busy, Building
  <2>3. Building(u) \/ Merged(u) => Within(thread[u].cache, cache')
    BY Zenon, <2>0, WithinTrans DEF Known
  <2>4. config.serial /\ Merged(u) => Within(thread[u].made, cache')
    BY Zenon, <2>0, WithinTrans DEF Known
  <2>5. /\ (Building(u) \/ Merged(u))' =>
             /\ Within(thread[u].cache, thread[u].made)'
             /\ (thread[u].err = Ok)' => \A a \in Targets(u)' : Named(a)' =>
                  a.name \in DOMAIN thread'[u].made /\ thread'[u].made[a.name] = a
        /\ (Merged(u) \/ thread[u].at = "merge")' => thread'[u].err = Ok
    BY Zenon, <2>0, <2>1 DEF Known
  <2> QED
    BY ZenonT(100), <2>0, <2>1, <2>2, <2>3, <2>4, <2>5 DEF Known
<1>2. ASSUME NEW u \in Threads, Busy(u)' PROVE Alone(u)'
  <2>1. \A v \in Threads \ {t} : Busy(v)' = Busy(v)
    BY Zenon DEF Busy
  <2>2. config.serial => \A v \in Threads \ {t} : ~Busy(v)'
    BY Zenon, <2>1 DEF Alone
  <2> QED
    BY Zenon, <1>2, <2>2 DEF Alone
<1>3. \A u \in Threads : DOMAIN thread'[u] = Fields
  BY Zenon DEF SharedOk
<1> QED
  BY Zenon, <1>1, <1>2, <1>3 DEF SharedOk

\* A call that went on without a merge.
LEMMA KnownKept ==
  ASSUME NEW t \in Threads, Known(t), Apart(thread, thread', t), thread'[t].err = thread[t].err,
         UNCHANGED <<config, cache>>, Building(t) \/ Merged(t),
         Building(t)' => Building(t), Merged(t)' => Merged(t),
         thread'[t].at = "merge" => thread[t].err = Ok
  PROVE  Known(t)'
<1>1. Targets(t)' = Targets(t) /\ \A a : Named(a)' = Named(a)
  BY Zenon DEF Targets, Named, Apart
<1>2. /\ thread'[t].cache = thread[t].cache /\ thread'[t].made = thread[t].made
  BY Zenon DEF Apart
<1>3. Within(thread[t].cache, cache)' /\ Within(thread[t].cache, thread[t].made)'
  BY Zenon, <1>2 DEF Known, Within
<1>4. thread'[t].err = Ok => \A a \in Targets(t)' : Named(a)' =>
            a.name \in DOMAIN thread'[t].made /\ thread'[t].made[a.name] = a
  BY Zenon, <1>1, <1>2 DEF Known
<1>5. config.serial /\ Merged(t) => Within(thread[t].made, cache)'
  BY Zenon, <1>2 DEF Known, Within
<1> QED
  BY Zenon, <1>2, <1>3, <1>4, <1>5 DEF Known

\* A call that returned an error, or has yet to begin.
LEMMA KnownApart ==
  ASSUME NEW t \in Threads, thread[t].at \in {"idle", "copy", "failed"}
  PROVE  Known(t)
BY Zenon DEF Known, Building, Merged

\* The conjunct of TargetShared on the dispatchers follows.
LEMMA SharedSuffices ==
  ASSUME SharedOk
  PROVE  \A t, u \in Threads : Settled(t) /\ Settled(u) =>
           \A a \in Targets(t), b \in Targets(u) :
             /\ a.name = b.name /\ a.name \in DOMAIN config.registries.target
             /\ config.serial \/ a.name \in DOMAIN thread[t].cache \cap DOMAIN thread[u].cache
             => a.dispatcher = b.dispatcher
<1> SUFFICES ASSUME NEW t \in Threads, NEW u \in Threads, Settled(t), Settled(u),
                    NEW a \in Targets(t), NEW b \in Targets(u), a.name = b.name,
                    a.name \in DOMAIN config.registries.target,
                    config.serial \/ a.name \in DOMAIN thread[t].cache \cap DOMAIN thread[u].cache
             PROVE  a = b
  BY ZenonT(100)
<1>1. Known(t) /\ Known(u) /\ Merged(t) /\ Merged(u) /\ Named(a) /\ Named(b)
  BY Zenon DEF SharedOk, Settled, Merged, Named
<1>2. /\ a.name \in DOMAIN thread[t].made /\ thread[t].made[a.name] = a
      /\ a.name \in DOMAIN thread[u].made /\ thread[u].made[a.name] = b
  BY Zenon, <1>1 DEF Known
<1>3. CASE config.serial
  <2>1. Within(thread[t].made, cache) /\ Within(thread[u].made, cache)
    BY Zenon, <1>1, <1>3 DEF Known
  <2> QED
    BY Zenon, <1>2, <2>1 DEF Within
<1>4. CASE a.name \in DOMAIN thread[t].cache \cap DOMAIN thread[u].cache
  <2>1. a.name \in DOMAIN thread[t].cache /\ a.name \in DOMAIN thread[u].cache
    BY Zenon, <1>4
  <2>2. thread[t].made[a.name] = thread[t].cache[a.name] /\ cache[a.name] = thread[t].cache[a.name]
    BY Zenon, <1>1, <2>1 DEF Known, Within
  <2>3. thread[u].made[a.name] = thread[u].cache[a.name] /\ cache[a.name] = thread[u].cache[a.name]
    BY Zenon, <1>1, <2>1 DEF Known, Within
  <2> QED
    BY Zenon, <1>2, <2>2, <2>3
<1> QED
  BY Zenon, <1>3, <1>4

\* In the server s the pool n leads to the dispatcher d.
Pooled(s, n, d) == n \in DOMAIN s.pools /\ s.pools[n] = d
IsSeq(s) == \E S : s \in Seq(S)

\* Under calls that do not overlap, the remote targets in the cache can be reached.
Net == \A n \in DOMAIN cache : cache[n].type = "remote" => Pooled(server, n, cache[n].dispatcher)

\* The registrations a call still has to make are those of targets it made, and
\* its remote targets that are not among them are registered.
Owed(t) ==
  /\ \A r \in Regs(thread[t].left) :
       /\ r.pool \in DOMAIN thread[t].made /\ r.pool \notin DOMAIN thread[t].cache
       /\ r.to = thread[t].made[r.pool].dispatcher
  /\ \A n \in DOMAIN thread[t].made : n \notin DOMAIN thread[t].cache /\ thread[t].made[n].type = "remote" =>
       (\E r \in Regs(thread[t].left) : r.pool = n)
       \/ Pooled(server, n, thread[t].made[n].dispatcher)

Reach(t) ==
  Building(t) =>
    /\ Owed(t) /\ IsSeq(thread[t].left)
    /\ thread[t].at = "merge" <=> thread[t].left = <<>>
    /\ thread[t].at \in {"start", "bind"} => Pooled(server, Head(thread[t].left).pool, Head(thread[t].left).to)

ReachOk ==
  /\ DOMAIN server = {"pools", "started", "listening"}
  /\ config.serial => Net /\ \A t \in Threads : Reach(t)

\* The first registration and the rest.
LEMMA TailFacts ==
  ASSUME NEW s, IsSeq(s), s # <<>>
  PROVE  IsSeq(Tail(s)) /\ Regs(s) = {Head(s)} \cup Regs(Tail(s))
<1>1. PICK S : s \in Seq(S)
  BY Zenon DEF IsSeq
<1>2. Tail(s) \in Seq(S)
  BY SMT, <1>1
<1>3. Len(s) \in Nat /\ Len(s) >= 1 /\ DOMAIN s = 1..Len(s) /\ Head(s) = s[1]
  BY SMT, <1>1
<1>4. DOMAIN Tail(s) = 1..(Len(s) - 1) /\ \A i \in 1..(Len(s) - 1) : Tail(s)[i] = s[i + 1]
  BY SMT, <1>1, <1>3
<1>5. ASSUME NEW i \in DOMAIN s PROVE s[i] = Head(s) \/ \E j \in DOMAIN Tail(s) : s[i] = Tail(s)[j]
  <2>1. CASE i = 1
    BY Zenon, <1>3, <2>1
  <2>2. CASE i # 1
    <3>1. i - 1 \in DOMAIN Tail(s) /\ (i - 1) + 1 = i
      BY SMTT(60), <1>3, <1>4, <2>2
    <3>2. Tail(s)[i - 1] = s[i]
      BY SMTT(60), <1>4, <3>1
    <3> QED
      BY Zenon, <3>1, <3>2
  <2> QED
    BY Zenon, <2>1, <2>2
<1>6. ASSUME NEW j \in DOMAIN Tail(s) PROVE j + 1 \in DOMAIN s /\ Tail(s)[j] = s[j + 1]
  BY SMTT(60), <1>3, <1>4
<1>7. 1 \in DOMAIN s
  BY SMTT(60), <1>3
<1>8. IsSeq(Tail(s))
  BY Zenon, <1>2 DEF IsSeq
<1>9. ASSUME NEW r PROVE r \in Regs(s) <=> r = Head(s) \/ r \in Regs(Tail(s))
  <2>1. r \in Regs(s) => r = Head(s) \/ r \in Regs(Tail(s))
    BY Zenon, <1>5 DEF Regs
  <2>2. r = Head(s) => r \in Regs(s)
    BY Zenon, <1>3, <1>7 DEF Regs
  <2>3. r \in Regs(Tail(s)) => r \in Regs(s)
    BY Zenon, <1>6 DEF Regs
  <2> QED
    BY ZenonT(100), <2>1, <2>2, <2>3
<1> QED
  BY Zenon, <1>8, <1>9

\* What a registration does to the pools.
LEMMA PooledMore ==
  ASSUME NEW n, NEW d, DOMAIN server = {"pools", "started", "listening"},
         server' = [server EXCEPT !.pools = With(@, n, d)]
  PROVE  /\ DOMAIN server' = DOMAIN server
         /\ server'.started = server.started /\ server'.listening = server.listening
         /\ Pooled(server', n, d) /\ \A m, e : m # n /\ Pooled(server, m, e) => Pooled(server', m, e)
         /\ \A m, e : m # n /\ Pooled(server', m, e) => Pooled(server, m, e)
<1>1. PICK w : w = With(server.pools, n, d)
  OBVIOUS
<1>2. /\ n \in DOMAIN w /\ w[n] = d
      /\ \A m : m # n => (m \in DOMAIN w <=> m \in DOMAIN server.pools)
                       /\ (m \in DOMAIN w => w[m] = server.pools[m])
  BY Zenon, <1>1 DEF With
<1>3. server' = [server EXCEPT !.pools = w]
  BY Zenon, <1>1
<1>4. /\ DOMAIN server' = DOMAIN server /\ server'.pools = w
      /\ server'.started = server.started /\ server'.listening = server.listening
  BY SMTT(60), <1>3
<1> QED
  BY Zenon, <1>2, <1>4 DEF Pooled

\* One registration fewer is owed.
LEMMA OwedTail ==
  ASSUME NEW t \in Threads, Owed(t), IsSeq(thread[t].left), thread[t].left # <<>>,
         Apart(thread, thread', t), thread'[t].left = Tail(thread[t].left),
         Pooled(server', Head(thread[t].left).pool, Head(thread[t].left).to),
         \A n \in DOMAIN thread[t].made : Pooled(server, n, thread[t].made[n].dispatcher)
           => Pooled(server', n, thread[t].made[n].dispatcher)
  PROVE  Owed(t)' /\ IsSeq(thread'[t].left)
<1>1. PICK h, rest : h = Head(thread[t].left) /\ rest = Tail(thread[t].left)
  BY Zenon
<1>2. IsSeq(rest) /\ Regs(thread[t].left) = {h} \cup Regs(rest)
  BY Zenon, <1>1, TailFacts
<1>3. PICK made, old : made = thread[t].made /\ old = thread[t].cache
  BY Zenon
<1>4. thread'[t].made = made /\ thread'[t].cache = old /\ thread'[t].left = rest
  BY Zenon, <1>1, <1>3 DEF Apart
<1>5. \A r \in Regs(rest) : r.pool \in DOMAIN made /\ r.pool \notin DOMAIN old /\ r.to = made[r.pool].dispatcher
  BY Zenon, <1>2, <1>3 DEF Owed
<1>6. h.to = made[h.pool].dispatcher
  BY Zenon, <1>2, <1>3 DEF Owed
<1>7. ASSUME NEW n \in DOMAIN made, n \notin DOMAIN old, made[n].type = "remote"
      PROVE  (\E r \in Regs(rest) : r.pool = n) \/ Pooled(server', n, made[n].dispatcher)
  <2>1. (\E r \in Regs(thread[t].left) : r.pool = n) \/ Pooled(server, n, made[n].dispatcher)
    BY Zenon, <1>3, <1>7 DEF Owed
  <2>2. CASE Pooled(server, n, made[n].dispatcher)
    BY Zenon, <1>3, <1>7, <2>2
  <2>3. CASE h.pool = n
    BY Zenon, <1>1, <1>6, <2>3 DEF Pooled
  <2> QED
    BY ZenonT(100), <1>2, <2>1, <2>2, <2>3
<1> QED
  BY ZenonT(100), <1>2, <1>4, <1>5, <1>7 DEF Owed

\* Who is busy is so on a broker that comes up or is up.
LEMMA Awake ==
  ASSUME SharedOk, NEW t \in Threads, Busy(t)
  PROVE  boot.at \in {"routes", "up"} /\ Alone(t)
BY Zenon DEF SharedOk, StartOk, AddersUp, Threads

\* It is enough to look at the thread that moves.
LEMMA TargetsFrame ==
  ASSUME SharedOk, ReachOk, StartOk', NEW t \in Threads, Busy(t), UNCHANGED config, Within(cache, cache'),
         \A u \in Threads \ {t} : thread'[u] = thread[u], DOMAIN thread'[t] = Fields,
         UNCHANGED boot \/ t = Boot, DOMAIN server' = {"pools", "started", "listening"},
         Known(t)', config.serial => Net' /\ Reach(t)'
  PROVE  SharedOk' /\ ReachOk'
<1>1. boot.at \in {"routes", "up"} /\ Alone(t) /\ Boot \notin Adders /\ Adders \subseteq Threads
  BY Zenon, Awake, AddersAssumption DEF Threads
<1>2. AddersUp'
  <2> SUFFICES ASSUME NEW u \in Adders, Busy(u)' PROVE boot'.at = "up"
    BY Zenon DEF AddersUp
  <2>1. Busy(u)
    BY Zenon, <1>1 DEF Busy
  <2>2. boot.at = "up"
    BY Zenon, <2>1 DEF SharedOk, AddersUp
  <2>3. CASE t = Boot
    BY Zenon, <2>2, <2>3 DEF SharedOk, StartOk
  <2> QED
    BY Zenon, <2>2, <2>3
<1>3. SharedOk'
  BY Zenon, <1>1, <1>2, SharedFrame
<1>4. ASSUME config'.serial PROVE Net' /\ \A u \in Threads : Reach(u)'
  <2>1. config.serial
    BY Zenon, <1>4
  <2>2. ASSUME NEW u \in Threads \ {t} PROVE Reach(u)'
    <3>1. ~Busy(u) /\ thread'[u] = thread[u]
      BY Zenon, <1>1, <2>1, <2>2 DEF Alone
    <3> QED
      BY Zenon, <3>1 DEF Busy, Reach, Building
  <2> QED
    BY Zenon, <2>1, <2>2
<1> QED
  BY Zenon, <1>3, <1>4 DEF ReachOk

\* What the thread that moves may rely on.
LEMMA Relied ==
  ASSUME SharedOk, ReachOk, config.serial, NEW t \in Threads, Busy(t)
  PROVE  Net /\ Reach(t) /\ Known(t) /\ \A u \in Threads \ {t} : ~Busy(u)
BY Zenon, Awake DEF ReachOk, SharedOk, Alone

\* The assignments of the steps of a call.
LEMMA ApartBy ==
  ASSUME SharedOk, NEW t \in Threads, NEW at, NEW x
  PROVE  /\ thread' = [thread EXCEPT ![t].at = at] =>
              /\ Apart(thread, thread', t) /\ thread'[t].at = at /\ thread'[t].then = thread[t].then
              /\ thread'[t].left = thread[t].left /\ thread'[t].err = thread[t].err
         /\ thread' = [thread EXCEPT ![t].at = at, ![t].err = x] =>
              Apart(thread, thread', t) /\ thread'[t].at = at /\ thread'[t].err = x
         /\ thread' = [thread EXCEPT ![t].left = x, ![t].at = at] =>
              /\ Apart(thread, thread', t) /\ thread'[t].at = at /\ thread'[t].left = x
              /\ thread'[t].err = thread[t].err
<1>0. Calls(thread) /\ DOMAIN thread[t] = Fields
  BY Zenon DEF SharedOk, StartOk, Shaped, Calls
<1>1. ASSUME thread' = [thread EXCEPT ![t].at = at]
      PROVE  /\ Apart(thread, thread', t) /\ thread'[t].at = at /\ thread'[t].then = thread[t].then
             /\ thread'[t].left = thread[t].left /\ thread'[t].err = thread[t].err
  <2>1. thread' = PutAt(thread, t, at)
    BY Zenon, <1>1 DEF PutAt
  <2> QED
    BY SMTT(60), <1>0, <2>1, PutsAt
<1>a. \A m, n, o : Apart(m, n, t) /\ Apart(n, o, t) => Apart(m, o, t)
  BY ZenonT(100) DEF Apart
<1>b. \A m, n : Apart(m, n, t) => Calls(n) /\ DOMAIN n[t] = Fields
  BY Zenon DEF Apart
<1>2. ASSUME thread' = [thread EXCEPT ![t].at = at, ![t].err = x]
      PROVE  Apart(thread, thread', t) /\ thread'[t].at = at /\ thread'[t].err = x
  <2>1. PICK f : f = PutAt(thread, t, at)
    OBVIOUS
  <2>2. thread' = PutErr(f, t, x)
    BY <1>2, <2>1 DEF PutAt, PutErr
  <2>3. Apart(thread, f, t) /\ f[t].at = at
    BY SMTT(60), <1>0, <2>1, PutsAt
  <2>4. Apart(f, thread', t) /\ thread'[t].at = f[t].at /\ thread'[t].err = x
    BY SMTT(60), <1>b, <2>2, <2>3, PutsErr
  <2> QED
    BY Zenon, <1>a, <2>3, <2>4
<1>3. ASSUME thread' = [thread EXCEPT ![t].left = x, ![t].at = at]
      PROVE  /\ Apart(thread, thread', t) /\ thread'[t].at = at /\ thread'[t].left = x
             /\ thread'[t].err = thread[t].err
  <2>1. PICK f : f = PutLeft(thread, t, x)
    OBVIOUS
  <2>2. thread' = PutAt(f, t, at)
    BY SMTT(60), <1>3, <2>1 DEF PutLeft, PutAt
  <2>3. Apart(thread, f, t) /\ f[t].left = x /\ f[t].err = thread[t].err
    BY SMTT(60), <1>0, <2>1, PutsLeft
  <2>4. Apart(f, thread', t) /\ thread'[t].at = at /\ thread'[t].left = f[t].left /\ thread'[t].err = f[t].err
    BY SMTT(60), <1>b, <2>2, <2>3, PutsAt
  <2> QED
    BY ZenonT(100), <1>a, <2>3, <2>4
<1> QED
  BY ZenonT(100), <1>1, <1>2, <1>3

\* A call goes to another place, and on from there.
LEMMA ThenBy ==
  ASSUME SharedOk, NEW t \in Threads, NEW at, NEW x, thread' = PutThen(PutAt(thread, t, at), t, x)
  PROVE  /\ Apart(thread, thread', t) /\ thread'[t].at = at /\ thread'[t].then = x
         /\ thread'[t].left = thread[t].left /\ thread'[t].err = thread[t].err
<1>0. Calls(thread) /\ DOMAIN thread[t] = Fields
  BY Zenon DEF SharedOk, StartOk, Shaped, Calls
<1>a. \A m, n, o : Apart(m, n, t) /\ Apart(n, o, t) => Apart(m, o, t)
  BY ZenonT(100) DEF Apart
<1>b. \A m, n : Apart(m, n, t) => Calls(n) /\ DOMAIN n[t] = Fields
  BY Zenon DEF Apart
<1>1. PICK f : f = PutAt(thread, t, at)
  OBVIOUS
<1>2. thread' = PutThen(f, t, x)
  BY Zenon, <1>1
<1>3. Apart(thread, f, t) /\ f[t].at = at /\ f[t].left = thread[t].left /\ f[t].err = thread[t].err
  BY SMTT(60), <1>0, <1>1, PutsAt
<1>c. Calls(f) /\ DOMAIN f[t] = Fields
  BY ZenonT(100), <1>b, <1>3
<1>4. /\ Apart(f, thread', t) /\ thread'[t].at = f[t].at /\ thread'[t].then = x
      /\ thread'[t].left = f[t].left /\ thread'[t].err = f[t].err
  BY SMTT(60), ZenonT(60), <1>c, <1>2, PutsThen
<1> QED
  BY ZenonT(100), <1>a, <1>3, <1>4

\* A call returns an error.
LEMMA TargetsFails ==
  ASSUME SharedOk, ReachOk, StartOk', NEW t \in Threads, Busy(t), NEW err, Returns(t, err),
         UNCHANGED <<config, cache>>, DOMAIN server' = {"pools", "started", "listening"}, config.serial => Net'
  PROVE  SharedOk' /\ ReachOk'
<1>1. Apart(thread, thread', t) /\ thread'[t].at = "failed" /\ (UNCHANGED boot \/ t = Boot)
  BY Zenon, ApartBy DEF Returns
<1>2. Known(t)'
  BY Zenon, <1>1 DEF Known, Building, Merged
<1>3. Reach(t)'
  BY Zenon, <1>1 DEF Reach, Building
<1>4. Within(cache, cache')
  BY Zenon DEF Within
<1> QED
  BY ZenonT(100), <1>1, <1>2, <1>3, <1>4, TargetsFrame DEF Apart

\* The net is as it was if the pools are.
LEMMA NetKept ==
  ASSUME ReachOk, config.serial, UNCHANGED cache, server'.pools = server.pools
  PROVE  Net'
BY Zenon DEF ReachOk, Net, Pooled

\* A pool that is registered under a name the cache does not hold.
LEMMA NetPooled ==
  ASSUME ReachOk, config.serial, NEW n, n \notin DOMAIN cache, NEW d,
         server' = [server EXCEPT !.pools = With(@, n, d)], UNCHANGED cache
  PROVE  Net'
<1>1. \A m, e : m # n /\ Pooled(server, m, e) => Pooled(server', m, e)
  BY Zenon, PooledMore DEF ReachOk
<1> QED
  BY Zenon, <1>1 DEF ReachOk, Net

\* What Sound says of a parse that works on the cache.
Serves(p) ==
  /\ Within(cache, p.cache)
  /\ p.err = Ok => \A a \in ActionsOf(p.out) : a.kind = "target" /\ Named(a) =>
       a.name \in DOMAIN p.cache /\ p.cache[a.name] = a
  /\ IsSeq(p.regs)
  /\ \A r \in Regs(p.regs) :
       r.pool \in DOMAIN p.cache /\ r.pool \notin DOMAIN cache /\ r.to = p.cache[r.pool].dispatcher
  /\ \A n \in DOMAIN p.cache : n \notin DOMAIN cache /\ p.cache[n].type = "remote" =>
       \E r \in Regs(p.regs) : r.pool = n

\* It says that.
LEMMA SoundServes ==
  ASSUME NEW p, Sound(DOMAIN config.registries.target, cache, p) PROVE Serves(p)
<1>1. IsSeq(p.regs)
  BY Zenon DEF Sound, IsSeq
<1> QED
  BY Zenon, <1>1 DEF Sound, Serves, Within, Named

\* The parser is sound whenever a call is about to use it, on the cache as it is.
ParseOf(t) ==
  ParseRoutes(RoutesOf(t),
    [registries |-> config.registries, worker_server |-> config.worker_server,
     who |-> t, made |-> 0, cache |-> cache, regs |-> <<>>, err |-> Ok, out |-> <<>>])
ParserSound == \A t \in Threads : thread[t].at = "copy" => Sound(DOMAIN config.registries.target, cache, ParseOf(t))

\* The record of a call whose routes are parsed.
LEMMA ParsedCall ==
  ASSUME SharedOk, NEW t \in Threads, NEW p, Parsed(t, p), ~Returns(t, p.err)
  PROVE  /\ \A u \in Threads \ {t} : thread'[u] = thread[u]
         /\ DOMAIN thread'[t] = Fields
         /\ thread'[t].routes = IF p.err = Ok THEN p.out ELSE <<>>
         /\ thread'[t].cache = cache /\ thread'[t].made = p.cache /\ thread'[t].left = p.regs
         /\ thread'[t].err = p.err /\ thread'[t].at = IF p.regs = <<>> THEN "merge" ELSE "register"
         /\ UNCHANGED boot /\ ~(p.regs = <<>> /\ p.err # Ok)
<1>0. Calls(thread) /\ DOMAIN thread[t] = Fields
  BY Zenon DEF SharedOk, StartOk, Shaped, Calls
<1>r. PICK routes : routes = IF p.err = Ok THEN p.out ELSE <<>>
  OBVIOUS
<1>a. PICK at : at = IF p.regs = <<>> THEN "merge" ELSE "register"
  OBVIOUS
<1>1. thread' = [thread EXCEPT ![t] = [@ EXCEPT !.routes = routes, !.cache = cache, !.made = p.cache,
                                                  !.left = p.regs, !.err = p.err, !.at = at]]
  BY Zenon, <1>r, <1>a DEF Parsed
<1>2. UNCHANGED boot /\ ~(p.regs = <<>> /\ p.err # Ok)
  BY Zenon DEF Parsed
<1>3. PICK c : c = [thread[t] EXCEPT !.routes = routes, !.cache = cache, !.made = p.cache,
                                     !.left = p.regs, !.err = p.err, !.at = at]
  OBVIOUS
<1>4. thread' = [thread EXCEPT ![t] = c]
  BY Zenon, <1>1, <1>3
<1>5. PICK e : e = thread[t] /\ DOMAIN e = Fields
  BY Zenon, <1>0
<1>6. PICK e1 : e1 = [e EXCEPT !.routes = routes]
  OBVIOUS
<1>7. DOMAIN e1 = Fields /\ e1.routes = routes
  BY SMT, <1>5, <1>6 DEF Fields
<1>8. PICK e2 : e2 = [e1 EXCEPT !.cache = cache]
  OBVIOUS
<1>9. DOMAIN e2 = Fields /\ e2.routes = routes /\ e2.cache = cache
  BY SMT, <1>7, <1>8 DEF Fields
<1>10. PICK e3 : e3 = [e2 EXCEPT !.made = p.cache]
  OBVIOUS
<1>11. DOMAIN e3 = Fields /\ e3.routes = routes /\ e3.cache = cache /\ e3.made = p.cache
  BY SMT, <1>9, <1>10 DEF Fields
<1>12. PICK e4 : e4 = [e3 EXCEPT !.left = p.regs]
  OBVIOUS
<1>13. DOMAIN e4 = Fields /\ e4.routes = routes /\ e4.cache = cache /\ e4.made = p.cache /\ e4.left = p.regs
  BY SMT, <1>11, <1>12 DEF Fields
<1>14. PICK e5 : e5 = [e4 EXCEPT !.err = p.err]
  BY ZenonT(100)
<1>15. /\ DOMAIN e5 = Fields /\ e5.routes = routes /\ e5.cache = cache /\ e5.made = p.cache /\ e5.left = p.regs
       /\ e5.err = p.err
  BY SMTT(60), <1>13, <1>14 DEF Fields
<1>16. c = [e5 EXCEPT !.at = at]
  BY SMTT(60), <1>3, <1>5, <1>6, <1>8, <1>10, <1>12, <1>14
<1>17. /\ DOMAIN c = Fields /\ c.routes = routes /\ c.cache = cache /\ c.made = p.cache /\ c.left = p.regs
       /\ c.err = p.err /\ c.at = at
  BY SMTT(60), <1>15, <1>16 DEF Fields
<1>18. thread'[t] = c /\ \A u \in Threads \ {t} : thread'[u] = thread[u]
  BY SMTT(60), <1>0, <1>4 DEF Calls
<1> QED
  BY ZenonT(100), <1>r, <1>a, <1>2, <1>17, <1>18

\* The routes of a call are parsed.
LEMMA TargetsParsed ==
  ASSUME SharedOk, ReachOk, ParserSound, StartOk', NEW t \in Threads, parse_route(t)
  PROVE  SharedOk' /\ ReachOk'
<1>1. /\ thread[t].at = "copy" /\ Parsed(t, ParseOf(t)) /\ UNCHANGED <<config, cache, server, port_free>>
  BY Zenon DEF parse_route, ParseOf
<1>2. PICK p : p = ParseOf(t)
  OBVIOUS
<1>3. Busy(t) /\ Parsed(t, p) /\ Serves(p)
  BY Zenon, <1>1, <1>2, SoundServes DEF Busy, ParserSound
<1>4. DOMAIN server' = {"pools", "started", "listening"}
  BY ZenonT(100), <1>1 DEF ReachOk
<1>5. config.serial => Net'
  BY ZenonT(100), <1>1, NetKept
<1>6. CASE Returns(t, p.err)
  BY ZenonT(100), <1>1, <1>3, <1>4, <1>5, <1>6, TargetsFails
<1>7. CASE ~Returns(t, p.err)
  <2>1. /\ \A u \in Threads \ {t} : thread'[u] = thread[u]
        /\ DOMAIN thread'[t] = Fields
        /\ thread'[t].routes = IF p.err = Ok THEN p.out ELSE <<>>
        /\ thread'[t].cache = cache /\ thread'[t].made = p.cache /\ thread'[t].left = p.regs
        /\ thread'[t].err = p.err /\ thread'[t].at = IF p.regs = <<>> THEN "merge" ELSE "register"
        /\ UNCHANGED boot /\ ~(p.regs = <<>> /\ p.err # Ok)
    BY ZenonT(100), <1>3, <1>7, ParsedCall
  <2>2. Building(t)' /\ ~Merged(t)' /\ thread'[t].at \notin {"start", "bind"}
        /\ (thread'[t].at = "merge" <=> p.regs = <<>>)
    BY Zenon, <2>1 DEF Building, Merged
  <2>3. Known(t)'
    <3>1. Within(cache, cache) /\ Within(thread[t].cache, cache)' /\ Within(thread[t].cache, thread[t].made)'
      BY ZenonT(100), <1>1, <1>3, <2>1 DEF Serves, Within
    <3>2. ASSUME thread'[t].err = Ok, NEW a \in Targets(t)', Named(a)'
          PROVE  a.name \in DOMAIN thread'[t].made /\ thread'[t].made[a.name] = a
      <4>1. a \in ActionsOf(p.out) /\ a.kind = "target" /\ Named(a) /\ p.err = Ok
        BY ZenonT(100), <1>1, <2>1, <3>2 DEF Targets, Named
      <4> QED
        BY ZenonT(100), <1>3, <2>1, <4>1 DEF Serves
    <3>3. thread'[t].at = "merge" => thread'[t].err = Ok
      BY ZenonT(100), <2>1, <2>2
    <3> QED
      BY ZenonT(100), <1>1, <2>1, <2>2, <3>1, <3>2, <3>3 DEF Known
  <2>4. Reach(t)'
    <3>1. Owed(t)' /\ IsSeq(thread'[t].left)
      BY ZenonT(100), <1>3, <2>1 DEF Owed, Serves
    <3> QED
      BY ZenonT(100), <2>1, <2>2, <3>1 DEF Reach
  <2>5. Within(cache, cache')
    BY Zenon, <1>1 DEF Within
  <2> QED
    BY ZenonT(100), <1>1, <1>3, <1>4, <1>5, <2>1, <2>3, <2>4, <2>5, TargetsFrame
<1> QED
  BY Zenon, <1>6, <1>7

\* A call has registered a pool and the listener is up.
LEMMA TargetsRegistered ==
  ASSUME SharedOk, ReachOk, StartOk', NEW t \in Threads, Building(t), thread[t].at # "merge",
         Registered(t, Tail(thread[t].left)), UNCHANGED <<config, cache>>,
         DOMAIN server' = {"pools", "started", "listening"},
         config.serial => /\ Net'
                          /\ Pooled(server', Head(thread[t].left).pool, Head(thread[t].left).to)
                          /\ \A n \in DOMAIN thread[t].made : Pooled(server, n, thread[t].made[n].dispatcher)
                               => Pooled(server', n, thread[t].made[n].dispatcher)
  PROVE  SharedOk' /\ ReachOk'
<1>1. Busy(t) /\ Known(t)
  BY Zenon DEF SharedOk, Busy, Building
<1>2. CASE Returns(t, thread[t].err)
  BY ZenonT(100), <1>1, <1>2, TargetsFails
<1>3. CASE ~Returns(t, thread[t].err)
  <2>0. PICK rest, at : rest = Tail(thread[t].left) /\ at = IF rest = <<>> THEN "merge" ELSE "register"
    BY Zenon
  <2>1. /\ rest # <<>> \/ thread[t].err = Ok
        /\ thread' = [thread EXCEPT ![t].left = rest, ![t].at = at]
        /\ UNCHANGED boot
    BY Zenon, <1>3, <2>0 DEF Registered
  <2>2. /\ Apart(thread, thread', t) /\ thread'[t].at = at /\ thread'[t].left = rest
        /\ thread'[t].err = thread[t].err
    BY ZenonT(100), <2>1, ApartBy
  <2>3. Building(t)' /\ ~Merged(t)' /\ thread'[t].at \notin {"start", "bind"}
        /\ (thread'[t].at = "merge" <=> rest = <<>>)
    BY ZenonT(100), <2>0, <2>2 DEF Building, Merged
  <2>4. Known(t)'
    BY ZenonT(100), <1>1, <2>1, <2>2, <2>3, KnownKept
  <2>5. ASSUME config.serial PROVE Net' /\ Reach(t)'
    <3>1. Reach(t)
      BY ZenonT(100), <1>1, <2>5, Relied
    <3>2. Owed(t) /\ IsSeq(thread[t].left) /\ thread[t].left # <<>>
      BY ZenonT(100), <3>1 DEF Reach
    <3>3. Owed(t)' /\ IsSeq(thread'[t].left)
      BY ZenonT(100), <2>0, <2>2, <2>5, <3>2, OwedTail
    <3> QED
      BY ZenonT(100), <2>2, <2>3, <2>5, <3>3 DEF Reach
  <2>6. Within(cache, cache')
    BY Zenon DEF Within
  <2> QED
    BY ZenonT(100), <1>1, <2>1, <2>2, <2>4, <2>5, <2>6, TargetsFrame DEF Apart
<1> QED
  BY ZenonT(100), <1>2, <1>3

\* register_pool.
LEMMA TargetsRegister ==
  ASSUME SharedOk, ReachOk, StartOk', NEW t \in Threads, register_pool(t)
  PROVE  SharedOk' /\ ReachOk'
<1>0. PICK reg : reg = Head(thread[t].left)
  OBVIOUS
<1>1. /\ thread[t].at = "register" /\ server' = [server EXCEPT !.pools = With(@, reg.pool, reg.to)]
      /\ UNCHANGED <<config, cache, port_free>>
  BY Zenon, <1>0 DEF register_pool
<1>2. Busy(t) /\ Building(t) /\ ~Merged(t) /\ Known(t)
  BY Zenon, <1>1 DEF Busy, Building, Merged, SharedOk
<1>3. /\ DOMAIN server' = {"pools", "started", "listening"}
      /\ server'.started = server.started /\ server'.listening = server.listening
      /\ Pooled(server', reg.pool, reg.to)
      /\ \A m, e : m # reg.pool /\ Pooled(server, m, e) => Pooled(server', m, e)
  BY ZenonT(100), <1>1, PooledMore DEF ReachOk
<1>4. ASSUME config.serial
      PROVE  /\ Net' /\ Owed(t) /\ IsSeq(thread[t].left) /\ thread[t].left # <<>>
             /\ reg.pool \in DOMAIN thread[t].made /\ reg.to = thread[t].made[reg.pool].dispatcher
  <2>1. Reach(t)
    BY ZenonT(100), <1>1, <1>2, <1>4, Relied
  <2>2. Owed(t) /\ IsSeq(thread[t].left) /\ thread[t].left # <<>>
    BY ZenonT(100), <1>1, <1>2, <2>1 DEF Reach
  <2>3. reg \in Regs(thread[t].left)
    BY ZenonT(100), <1>0, <2>2, TailFacts
  <2>4. /\ reg.pool \in DOMAIN thread[t].made /\ reg.pool \notin DOMAIN thread[t].cache
        /\ reg.to = thread[t].made[reg.pool].dispatcher
    BY ZenonT(100), <2>2, <2>3 DEF Owed
  <2>5. reg.pool \notin DOMAIN cache
    BY ZenonT(100), <1>2, <1>4, <2>4 DEF Known
  <2>6. Net'
    BY ZenonT(100), <1>1, <1>4, <2>5, NetPooled
  <2> QED
    BY ZenonT(100), <2>1, <2>2, <2>4, <2>6
<1>5. ASSUME config.serial, NEW n \in DOMAIN thread[t].made, Pooled(server, n, thread[t].made[n].dispatcher)
      PROVE  Pooled(server', n, thread[t].made[n].dispatcher)
  <2>1. CASE n = reg.pool
    BY ZenonT(100), <1>3, <1>4, <1>5, <2>1
  <2>2. CASE n # reg.pool
    BY ZenonT(100), <1>3, <1>5, <2>2
  <2> QED
    BY ZenonT(100), <2>1, <2>2
<1>6. CASE server.started
  <2>1. Registered(t, Tail(thread[t].left))
    BY Zenon, <1>6 DEF register_pool
  <2>2. thread[t].at # "merge"
    BY Zenon, <1>1
  <2> QED
    BY ZenonT(100), <1>0, <1>1, <1>2, <1>3, <1>4, <1>5, <2>1, <2>2, TargetsRegistered
<1>7. CASE ~server.started
  <2>1. thread' = [thread EXCEPT ![t].at = "start", ![t].then = "register"] /\ UNCHANGED boot
    BY Zenon, <1>7 DEF register_pool
  <2>0. thread' = PutThen(PutAt(thread, t, "start"), t, "register")
    BY <2>1 DEF PutAt, PutThen
  <2>2. /\ Apart(thread, thread', t) /\ thread'[t].at = "start" /\ thread'[t].then = "register"
        /\ thread'[t].left = thread[t].left /\ thread'[t].err = thread[t].err
    BY Zenon, <2>0, ThenBy
  <2>3. Building(t)' /\ ~Merged(t)' /\ thread'[t].at # "merge" /\ thread'[t].at # "bind"
    BY Zenon, <2>2 DEF Building, Merged
  <2>4. Known(t)'
    BY ZenonT(100), <1>1, <1>2, <2>2, <2>3, KnownKept
  <2>5. ASSUME config.serial PROVE Reach(t)'
    <3>1. Owed(t) /\ IsSeq(thread[t].left) /\ thread[t].left # <<>>
      BY ZenonT(100), <1>4, <2>5
    <3>2. thread'[t].made = thread[t].made /\ thread'[t].cache = thread[t].cache
      BY Zenon, <2>2 DEF Apart
    <3>3. Owed(t)'
      BY ZenonT(100), <1>5, <2>2, <2>5, <3>1, <3>2 DEF Owed
    <3>4. Pooled(server', Head(thread'[t].left).pool, Head(thread'[t].left).to)
      BY ZenonT(100), <1>0, <1>3, <2>2
    <3> QED
      BY ZenonT(100), <2>2, <2>3, <3>1, <3>3, <3>4 DEF Reach
  <2>6. Within(cache, cache')
    BY ZenonT(100), <1>1 DEF Within
  <2> QED
    BY ZenonT(100), <1>1, <1>2, <1>3, <1>4, <2>1, <2>2, <2>4, <2>5, <2>6, TargetsFrame DEF Apart
<1> QED
  BY ZenonT(100), <1>6, <1>7

\* ensure_started.
LEMMA TargetsStart ==
  ASSUME SharedOk, ReachOk, StartOk', NEW t \in Threads, ensure_started(t)
  PROVE  SharedOk' /\ ReachOk'
<1>1. /\ thread[t].at = "start" /\ server' = [server EXCEPT !.started = TRUE]
      /\ thread' = [thread EXCEPT ![t].at = "bind"] /\ UNCHANGED <<config, boot, cache, port_free>>
  BY Zenon DEF ensure_started
<1>2. Busy(t) /\ Known(t) /\ (Building(t) \/ Merged(t))
  BY Zenon, <1>1 DEF Busy, Building, Merged, SharedOk
<1>3. /\ DOMAIN server' = {"pools", "started", "listening"}
      /\ server'.started /\ server'.listening = server.listening /\ server'.pools = server.pools
  BY SMTT(60), <1>1 DEF ReachOk
<1>4. /\ Apart(thread, thread', t) /\ thread'[t].at = "bind" /\ thread'[t].then = thread[t].then
      /\ thread'[t].left = thread[t].left /\ thread'[t].err = thread[t].err
  BY ZenonT(100), <1>1, ApartBy
<1>5. Building(t)' = Building(t) /\ Merged(t)' = Merged(t)
  BY ZenonT(100), <1>1, <1>4 DEF Building, Merged
<1>6. Known(t)'
  BY ZenonT(100), <1>1, <1>2, <1>4, <1>5, KnownKept
<1>7. ASSUME config.serial PROVE Net' /\ Reach(t)'
  <2>1. Reach(t)
    BY ZenonT(100), <1>2, <1>7, Relied
  <2>2. Net'
    BY ZenonT(100), <1>1, <1>3, <1>7, NetKept
  <2>3. \A n, d : Pooled(server', n, d) = Pooled(server, n, d)
    BY ZenonT(100), <1>3 DEF Pooled
  <2>5. thread'[t].made = thread[t].made /\ thread'[t].cache = thread[t].cache
    BY Zenon, <1>4 DEF Apart
  <2>6. Building(t) => Owed(t)' /\ Pooled(server', Head(thread[t].left).pool, Head(thread[t].left).to)
    <3>1. Building(t) => Owed(t) /\ Pooled(server, Head(thread[t].left).pool, Head(thread[t].left).to)
      BY ZenonT(100), <1>1, <2>1 DEF Reach
    <3>2. Building(t) => Owed(t)'
      BY ZenonT(100), <1>4, <2>3, <2>5, <3>1 DEF Owed
    <3> QED
      BY ZenonT(100), <2>3, <3>1, <3>2
  <2>7. Building(t) => IsSeq(thread[t].left) /\ thread[t].left # <<>>
    BY Zenon, <1>1, <2>1 DEF Reach
  <2> QED
    BY ZenonT(100), <1>4, <1>5, <2>2, <2>6, <2>7 DEF Reach
<1>8. Within(cache, cache')
  BY Zenon, <1>1 DEF Within
<1> QED
  BY ZenonT(100), <1>1, <1>2, <1>3, <1>4, <1>6, <1>7, <1>8, TargetsFrame DEF Apart

\* bind.
LEMMA TargetsBind ==
  ASSUME SharedOk, ReachOk, StartOk', NEW t \in Threads, bind(t)
  PROVE  SharedOk' /\ ReachOk'
<1>1. thread[t].at = "bind" /\ UNCHANGED <<config, cache>>
  BY Zenon DEF bind
<1>2. Busy(t) /\ Known(t) /\ (Building(t) \/ Merged(t)) /\ thread[t].at # "merge"
  BY Zenon, <1>1 DEF Busy, Building, Merged, SharedOk
<1>3. config.serial => Reach(t)
  BY ZenonT(100), <1>2, Relied
<1>w. Within(cache, cache')
  BY Zenon, <1>1 DEF Within
<1>4. CASE ~port_free
  <2>1. Returns(t, "worker_server") /\ DOMAIN server' = {"pools", "started", "listening"} /\ UNCHANGED server
    BY ZenonT(100), <1>4 DEF bind, ReachOk
  <2>2. config.serial => Net'
    BY Zenon, <1>1, <2>1, NetKept
  <2> QED
    BY ZenonT(100), <1>1, <1>2, <2>1, <2>2, TargetsFails
<1>5. CASE port_free
  <2>1. server' = [server EXCEPT !.listening = TRUE] /\ port_free' = FALSE
    BY Zenon, <1>5 DEF bind
  <2>2. /\ DOMAIN server' = {"pools", "started", "listening"}
        /\ server'.started = server.started /\ server'.listening /\ server'.pools = server.pools
    BY SMTT(60), <2>1 DEF ReachOk
  <2>3. \A n, d : Pooled(server', n, d) = Pooled(server, n, d)
    BY Zenon, <2>2 DEF Pooled
  <2>4. config.serial => Net'
    BY Zenon, <1>1, <2>2, NetKept
  <2>5. CASE thread[t].then = "register"
    <3>1. Registered(t, Tail(thread[t].left)) /\ Building(t)
      BY ZenonT(100), <1>1, <1>5, <2>5 DEF bind, Building
    <3>2. config.serial => Pooled(server', Head(thread[t].left).pool, Head(thread[t].left).to)
      BY ZenonT(100), <1>1, <1>3, <2>3, <3>1 DEF Reach
    <3> QED
      BY ZenonT(100), <1>1, <1>2, <2>2, <2>3, <2>4, <3>1, <3>2, TargetsRegistered
  <2>6. CASE thread[t].then # "register"
    <3>1. thread' = [thread EXCEPT ![t].at = "done"] /\ UNCHANGED boot
      BY Zenon, <1>5, <2>6 DEF bind
    <3>2. Apart(thread, thread', t) /\ thread'[t].at = "done" /\ thread'[t].err = thread[t].err
      BY Zenon, <3>1, ApartBy
    <3>3. Merged(t) /\ ~Building(t)' /\ thread'[t].at # "merge"
      BY ZenonT(100), <1>1, <2>6, <3>2 DEF Merged, Building
    <3>4. Known(t)'
      BY ZenonT(100), <1>1, <1>2, <3>2, <3>3, KnownKept
    <3>5. Reach(t)'
      BY ZenonT(100), <3>2, <3>3 DEF Reach
    <3> QED
      BY ZenonT(100), <1>1, <1>2, <1>w, <2>2, <2>4, <3>1, <3>2, <3>4, <3>5, TargetsFrame DEF Apart
  <2> QED
    BY ZenonT(100), <2>5, <2>6
<1> QED
  BY ZenonT(100), <1>4, <1>5

\* merge.
LEMMA TargetsMerge ==
  ASSUME SharedOk, ReachOk, StartOk', NEW t \in Threads, merge(t)
  PROVE  SharedOk' /\ ReachOk'
<1>1. /\ thread[t].at = "merge" /\ UNCHANGED <<config, boot, server, port_free>>
      /\ thread' = [thread EXCEPT ![t].at = "validate"]
      /\ cache' = [n \in DOMAIN cache \cup DOMAIN thread[t].made |->
                     IF n \in DOMAIN cache THEN cache[n] ELSE thread[t].made[n]]
  BY Zenon DEF merge
<1>2. Busy(t) /\ Known(t) /\ Building(t)
  BY Zenon, <1>1 DEF Busy, Building, SharedOk
<1>3. Apart(thread, thread', t) /\ thread'[t].at = "validate" /\ thread'[t].err = thread[t].err
  BY Zenon, <1>1, ApartBy
<1>4. Merged(t)' /\ ~Building(t)' /\ thread'[t].at \notin {"start", "bind", "merge"}
  BY Zenon, <1>3 DEF Merged, Building
<1>5. PICK made, old : made = thread[t].made /\ old = thread[t].cache
  BY Zenon
<1>6. /\ \A n \in DOMAIN cache : n \in DOMAIN cache' /\ cache'[n] = cache[n]
      /\ \A n \in DOMAIN made : n \notin DOMAIN cache => n \in DOMAIN cache' /\ cache'[n] = made[n]
      /\ DOMAIN cache' = DOMAIN cache \cup DOMAIN made
  BY Zenon, <1>1, <1>5
<1>7. Within(cache, cache') /\ Within(old, cache) /\ Within(old, made) /\ thread[t].err = Ok
  BY ZenonT(100), <1>1, <1>2, <1>5, <1>6 DEF Known, Within
<1>8. config.serial => cache = old
  BY Zenon, <1>2, <1>5 DEF Known
<1>9. config.serial => Within(made, cache')
  BY ZenonT(100), <1>6, <1>7, <1>8 DEF Within
<1>10. thread'[t].made = made /\ thread'[t].cache = old /\ Targets(t)' = Targets(t) /\ \A a : Named(a)' = Named(a)
  BY ZenonT(100), <1>1, <1>3, <1>5 DEF Apart, Targets, Named
<1>11. Known(t)'
  <2>1. Within(old, cache')
    BY ZenonT(100), <1>7, WithinTrans
  <2>2. \A a \in Targets(t)' : Named(a)' => a.name \in DOMAIN thread'[t].made /\ thread'[t].made[a.name] = a
    BY ZenonT(100), <1>2, <1>5, <1>7, <1>10 DEF Known
  <2> QED
    BY ZenonT(100), <1>1, <1>3, <1>4, <1>7, <1>9, <1>10, <2>1, <2>2 DEF Known
<1>12. ASSUME config.serial PROVE Net' /\ Reach(t)'
  <2>1. Net /\ Reach(t)
    BY ZenonT(100), <1>2, <1>12, Relied
  <2>2. Owed(t) /\ thread[t].left = <<>>
    BY ZenonT(100), <1>1, <1>2, <2>1 DEF Reach
  <2>3. Regs(thread[t].left) = {}
    BY SMTT(60), <2>2 DEF Regs
  <2>4. ASSUME NEW n \in DOMAIN cache', cache'[n].type = "remote"
        PROVE  Pooled(server, n, cache'[n].dispatcher)
    <3>1. CASE n \in DOMAIN cache
      BY ZenonT(100), <1>6, <2>1, <2>4, <3>1 DEF Net
    <3>2. CASE n \notin DOMAIN cache
      <4>1. n \in DOMAIN made /\ n \notin DOMAIN old /\ cache'[n] = made[n] /\ made[n].type = "remote"
        BY ZenonT(100), <1>6, <1>8, <1>12, <2>4, <3>2
      <4> QED
        BY ZenonT(100), <1>5, <2>2, <2>3, <4>1 DEF Owed
    <3> QED
      BY ZenonT(100), <3>1, <3>2
  <2>5. Net'
    BY ZenonT(100), <1>1, <2>4 DEF Net
  <2> QED
    BY ZenonT(100), <1>4, <2>5 DEF Reach
<1>13. DOMAIN server' = {"pools", "started", "listening"}
  BY Zenon, <1>1 DEF ReachOk
<1> QED
  BY ZenonT(100), <1>1, <1>2, <1>3, <1>7, <1>11, <1>12, <1>13, TargetsFrame DEF Apart

\* A call whose routes are valid, or not, ends or starts the listener.
LEMMA TargetsValidated ==
  ASSUME SharedOk, ReachOk, StartOk', NEW t \in Threads, thread[t].at = "validate",
         UNCHANGED <<config, cache, server, port_free>>, UNCHANGED boot \/ t = Boot,
         Apart(thread, thread', t), thread'[t].err = thread[t].err,
         \/ thread'[t].at = "done"
         \/ thread'[t].at = "start" /\ thread'[t].then = "done" /\ ~server.started
  PROVE  SharedOk' /\ ReachOk'
<1>1. Busy(t) /\ Known(t) /\ Merged(t) /\ thread[t].at # "bind"
  BY Zenon DEF Busy, Merged, SharedOk
<1>2. Merged(t)' /\ ~Building(t)' /\ thread'[t].at # "merge" /\ thread'[t].at # "bind"
  BY Zenon DEF Merged, Building
<1>3. Known(t)'
  BY ZenonT(100), <1>1, <1>2, KnownKept
<1>4. Reach(t)'
  BY Zenon, <1>2 DEF Reach
<1>5. config.serial => Net'
  BY Zenon, NetKept
<1>6. Within(cache, cache') /\ DOMAIN server' = {"pools", "started", "listening"}
  BY Zenon DEF Within, ReachOk
<1> QED
  BY ZenonT(100), <1>1, <1>3, <1>4, <1>5, <1>6, TargetsFrame DEF Apart

\* A call whose routes are not valid.
LEMMA TargetsInvalid ==
  ASSUME SharedOk, ReachOk, StartOk', NEW t \in Threads, thread[t].at = "validate", Returns(t, "route"),
         UNCHANGED <<config, cache, server, port_free>>
  PROVE  SharedOk' /\ ReachOk'
<1>1. Busy(t) /\ thread[t].at # "bind"
  BY Zenon DEF Busy
<1>2. (config.serial => Net') /\ DOMAIN server' = {"pools", "started", "listening"}
  BY Zenon, NetKept DEF ReachOk
<1> QED
  BY ZenonT(100), <1>1, <1>2, TargetsFails

\* The end of parse_bootstrap.
LEMMA TargetsUp == ASSUME SharedOk, ReachOk, StartOk', validate_switch PROVE SharedOk' /\ ReachOk'
<1>1. Boot \in Threads /\ thread[Boot].at = "validate" /\ UNCHANGED <<config, cache, server, port_free>>
  BY Zenon DEF validate_switch, Threads
<1>2. CASE Returns(Boot, "route")
  BY ZenonT(100), <1>1, <1>2, TargetsInvalid
<1>3. CASE thread' = [thread EXCEPT ![Boot].at = "done"]
  <2>1. Apart(thread, thread', Boot) /\ thread'[Boot].at = "done" /\ thread'[Boot].err = thread[Boot].err
    BY ZenonT(100), <1>1, <1>3, ApartBy
  <2> QED
    BY ZenonT(100), <1>1, <2>1, TargetsValidated
<1> QED
  BY Zenon, <1>2, <1>3 DEF validate_switch

\* The end of add_route.
LEMMA TargetsListed ==
  ASSUME SharedOk, ReachOk, StartOk', NEW t \in Threads, list_route(t)
  PROVE  SharedOk' /\ ReachOk'
<1>1. thread[t].at = "validate" /\ UNCHANGED <<config, cache, server, port_free>>
  BY Zenon DEF list_route
<1>2. PICK at : at = IF config.worker_server /\ starts THEN "start" ELSE "done"
  OBVIOUS
<1>3. at = "done" \/ (at = "start" /\ ~server.started)
  BY Zenon, <1>2 DEF starts
<1>4. CASE Returns(t, "route")
  BY ZenonT(100), <1>1, <1>4, TargetsInvalid
<1>5. CASE ~Returns(t, "route")
  <2>1. thread' = [thread EXCEPT ![t].at = at, ![t].then = "done"] /\ UNCHANGED boot
    BY ZenonT(100), <1>2, <1>5 DEF list_route
  <2>2. thread' = PutThen(PutAt(thread, t, at), t, "done")
    BY <2>1 DEF PutAt, PutThen
  <2>3. /\ Apart(thread, thread', t) /\ thread'[t].at = at /\ thread'[t].then = "done"
        /\ thread'[t].err = thread[t].err
    BY ZenonT(100), <2>2, ThenBy
  <2> QED
    BY ZenonT(100), <1>1, <1>3, <2>1, <2>3, TargetsValidated
<1> QED
  BY ZenonT(100), <1>4, <1>5

\* A call begins: under calls that do not overlap, nobody else is busy.
LEMMA TargetsBegin ==
  ASSUME SharedOk, ReachOk, StartOk', NEW t \in Threads, Alone(t), ~Busy(t), AddersUp',
         thread' = [thread EXCEPT ![t].at = "copy"], UNCHANGED <<config, cache, server, port_free>>
  PROVE  SharedOk' /\ ReachOk'
<1>1. Apart(thread, thread', t) /\ thread'[t].at = "copy"
  BY Zenon, ApartBy
<1>2. Known(t)'
  BY Zenon, <1>1 DEF Known, Building, Merged
<1>3. Within(cache, cache')
  BY Zenon DEF Within
<1>4. SharedOk'
  BY Zenon, <1>1, <1>2, <1>3, SharedFrame DEF Apart
<1>5. ASSUME config'.serial PROVE Net' /\ \A u \in Threads : Reach(u)'
  <2>1. Net /\ \A u \in Threads : ~Busy(u)
    BY Zenon, <1>5 DEF ReachOk, Alone
  <2>2. \A u \in Threads : thread[u].at \in {"idle", "done", "failed"}
    BY Zenon, <2>1 DEF Busy
  <2>3. Net'
    BY Zenon, <2>1 DEF Net
  <2>4. ASSUME NEW u \in Threads PROVE thread'[u].at \in {"idle", "copy", "done", "failed"}
    <3>1. CASE u = t
      BY ZenonT(100), <1>1, <3>1
    <3>2. CASE u # t
      BY ZenonT(100), <1>1, <2>2, <3>2 DEF Apart
    <3> QED
      BY ZenonT(100), <3>1, <3>2
  <2>5. \A u \in Threads : Reach(u)'
    BY Zenon, <2>4 DEF Reach, Building
  <2> QED
    BY Zenon, <2>3, <2>5
<1> QED
  BY Zenon, <1>4, <1>5 DEF ReachOk

\* What is apart from the routes: steps of parse_bootstrap before them, other
\* processes, and the drop.
LEMMA TargetsApart ==
  ASSUME SharedOk, ReachOk, StartOk', UNCHANGED <<config, cache, thread>>,
         UNCHANGED boot \/ ~Up \/ \A t \in Threads : ~Busy(t),
         DOMAIN server' = {"pools", "started", "listening"}, server'.pools = server.pools
  PROVE  SharedOk' /\ ReachOk'
<1>1. AddersUp'
  BY Zenon DEF AddersUp, SharedOk, Busy, Up, Threads
<1>2. \A t \in Threads : Known(t)' = Known(t) /\ Busy(t)' = Busy(t) /\ Alone(t)' = Alone(t)
  <2>1. ASSUME NEW t \in Threads PROVE Known(t)' = Known(t)
    <3>1. Building(t)' = Building(t) /\ Merged(t)' = Merged(t) /\ Targets(t)' = Targets(t)
      BY Zenon DEF Building, Merged, Targets
    <3>2. \A a : Named(a)' = Named(a)
      BY Zenon DEF Named
    <3> QED
      BY ZenonT(100), <3>1, <3>2 DEF Known, Within
  <2> QED
    BY Zenon, <2>1 DEF Busy, Alone
<1>3. SharedOk'
  BY Zenon, <1>1, <1>2 DEF SharedOk
<1>4. ASSUME config'.serial PROVE Net' /\ \A t \in Threads : Reach(t)'
  <2>1. /\ \A t \in Threads : Reach(t)
        /\ \A n, d : Pooled(server', n, d) = Pooled(server, n, d)
    BY Zenon, <1>4 DEF ReachOk, Pooled
  <2>2. Net'
    BY Zenon, <1>4, NetKept
  <2>3. ASSUME NEW t \in Threads PROVE Reach(t)'
    <3>1. Building(t)' = Building(t) /\ (Owed(t) => Owed(t)')
      BY ZenonT(100), <2>1 DEF Building, Owed
    <3>2. thread'[t] = thread[t]
      BY Zenon
    <3> QED
      BY ZenonT(100), <2>1, <3>1, <3>2 DEF Reach
  <2> QED
    BY Zenon, <2>2, <2>3
<1> QED
  BY Zenon, <1>3, <1>4 DEF ReachOk

\* Every step keeps both invariants, as long as the parser is sound.
LEMMA TargetsKept ==
  ASSUME SharedOk, ReachOk, ParserSound, [Next]_vars
  PROVE  SharedOk' /\ ReachOk'
<1>0. StartOk /\ StartOk' /\ Boot \in Threads /\ Adders \subseteq Threads /\ Boot \notin Adders
  BY ZenonT(100), StartOkKept, AddersAssumption DEF SharedOk, Threads
<1>q. ASSUME UNCHANGED startup PROVE SharedOk' /\ ReachOk'
  <2>1. UNCHANGED <<config, boot, cache, server, port_free, thread>>
    BY ZenonT(100), <1>q DEF startup
  <2>2. DOMAIN server' = {"pools", "started", "listening"}
    BY ZenonT(100), <2>1 DEF ReachOk
  <2> QED
    BY ZenonT(100), <1>0, <2>1, <2>2, TargetsApart
<1>b. ASSUME boot.at \in {"settings", "init", "slot", "registries"},
             UNCHANGED <<config, cache, server, port_free, thread>>
      PROVE  SharedOk' /\ ReachOk'
  <2>1. ~Up /\ boot.at # "dropped"
    BY ZenonT(100), <1>b DEF Up
  <2>2. DOMAIN server' = {"pools", "started", "listening"}
    BY ZenonT(100), <1>b DEF ReachOk
  <2> QED
    BY ZenonT(100), <1>0, <1>b, <2>1, <2>2, TargetsApart
<1>1. CASE Booting
  <2>1. CASE parse_bootstrap \/ init_store \/ allocate_startup_broker_slot
    BY ZenonT(100), <1>b, <2>1 DEF parse_bootstrap, init_store, allocate_startup_broker_slot
  <2>2. CASE registries
    <3>1. boot.at = "registries" /\ UNCHANGED <<config, cache, server, port_free>>
      BY Zenon, <2>2 DEF registries
    <3>2. CASE UNCHANGED thread
      BY ZenonT(100), <1>b, <3>1, <3>2
    <3>3. CASE ~UNCHANGED thread
      <4>1. thread' = [thread EXCEPT ![Boot].at = "copy"]
        BY ZenonT(100), <2>2, <3>3 DEF registries
      <4>2. ~Busy(Boot) /\ \A u \in Adders : ~Busy(u)
        BY ZenonT(100), <1>0, <3>1 DEF SharedOk, StartOk, AddersUp
      <4>3. Alone(Boot)
        BY Zenon, <4>2 DEF Alone, Threads
      <4>4. \A u \in Adders : thread'[u] = thread[u]
        <5>1. Apart(thread, thread', Boot)
          BY ZenonT(100), <1>0, <4>1, ApartBy
        <5> QED
          BY Zenon, <1>0, <5>1 DEF Apart
      <4>5. AddersUp'
        BY ZenonT(100), <4>2, <4>4 DEF AddersUp, Busy
      <4> QED
        BY ZenonT(100), <1>0, <3>1, <4>1, <4>2, <4>3, <4>5, TargetsBegin
    <3> QED
      BY ZenonT(100), <3>2, <3>3
  <2>3. CASE validate_switch \/ \E t \in Threads : list_route(t)
    BY ZenonT(100), <1>0, <2>3, TargetsUp, TargetsListed
  <2>4. CASE \E t \in Threads : register_pool(t) \/ ensure_started(t) \/ bind(t) \/ merge(t)
    BY ZenonT(100), <1>0, <2>4, TargetsRegister, TargetsStart, TargetsBind, TargetsMerge
  <2> QED
    BY ZenonT(100), <1>1, <2>1, <2>2, <2>3, <2>4 DEF Booting, StartupStep
<1>2. CASE Parsing
  BY ZenonT(100), <1>0, <1>2, TargetsParsed DEF Parsing, ParseStep
<1>3. CASE Calling
  <2>1. ASSUME NEW t \in Adders, add_route(t) PROVE SharedOk' /\ ReachOk'
    <3>1. /\ boot.at = "up" /\ thread[t].at = "idle" /\ thread' = [thread EXCEPT ![t].at = "copy"]
          /\ UNCHANGED <<config, boot, cache, server, port_free>>
          /\ config.serial => \A u \in Adders : ~Busy(u)
      BY Zenon, <2>1 DEF add_route, Up
    <3>2. ~Busy(t) /\ ~Busy(Boot)
      BY ZenonT(100), <3>1 DEF Busy, SharedOk, StartOk
    <3>3. Alone(t)
      BY ZenonT(100), <3>1, <3>2 DEF Alone, Threads
    <3>4. AddersUp'
      BY Zenon, <3>1 DEF AddersUp
    <3> QED
      BY ZenonT(100), <1>0, <2>1, <3>1, <3>2, <3>3, <3>4, TargetsBegin
  <2>2. CASE PortReleased
    <3>1. UNCHANGED <<config, boot, cache, server, thread>>
      BY ZenonT(100), <2>2 DEF PortReleased
    <3>2. DOMAIN server' = {"pools", "started", "listening"}
      BY Zenon, <3>1 DEF ReachOk
    <3> QED
      BY ZenonT(100), <1>0, <3>1, <3>2, TargetsApart
  <2> QED
    BY ZenonT(100), <1>3, <2>1, <2>2 DEF Calling, StartupCall
<1>4. CASE Dropping
  <2>1. /\ server' = [server EXCEPT !.listening = FALSE] /\ boot' = [boot EXCEPT !.at = "dropped"]
        /\ UNCHANGED <<config, cache, thread>> /\ \A t \in Threads : ~Busy(t)
    BY Zenon, <1>4 DEF Dropping, drop
  <2>2. DOMAIN server' = {"pools", "started", "listening"} /\ server'.pools = server.pools
    BY SMTT(60), <2>1 DEF ReachOk
  <2> QED
    BY ZenonT(100), <1>0, <2>1, <2>2, TargetsApart
<1>5. CASE submit_job \/ submit_overloaded \/ Executing \/ cancel \/ Persist \/ Cleanup \/ Leave \/ snapshot
  BY ZenonT(100), <1>q, <1>5 DEF submit_job, submit_overloaded, Executing, cancel, Persist, Cleanup, Leave, snapshot
<1>6. CASE Polling
  BY ZenonT(100), <1>q, <1>6 DEF Polling, poll_job, poll_python, poll_relayed, Poll
<1>7. CASE UNCHANGED vars
  BY ZenonT(100), <1>q, <1>7 DEF vars
<1> QED
  BY ZenonT(100), <1>1, <1>2, <1>3, <1>4, <1>5, <1>6, <1>7 DEF Next

\* They hold at first.
LEMMA TargetsFirst == Init => SharedOk /\ ReachOk
<1> SUFFICES ASSUME Init PROVE SharedOk /\ ReachOk
  OBVIOUS
<1>1. StartOk
  BY Zenon, StartOkFirst
<1>2. NoThread.at = "idle" /\ DOMAIN NoThread = Fields
  BY SMTT(60) DEF NoThread, Fields
<1>3. \A t \in Threads : thread[t].at = "idle" /\ DOMAIN thread[t] = Fields
  BY ZenonT(100), <1>2 DEF Init
<1>4. /\ DOMAIN server = {"pools", "started", "listening"} /\ server.started = FALSE /\ server.listening = FALSE
      /\ DOMAIN cache = {}
  BY SMTT(60) DEF Init, NoCache
<1>5. \A t \in Threads : Known(t) /\ ~Busy(t) /\ Reach(t)
  BY ZenonT(100), <1>3 DEF Known, Building, Merged, Busy, Reach
<1>6. AddersUp
  BY Zenon, <1>5 DEF AddersUp, Threads
<1>7. Net
  BY Zenon, <1>4 DEF Net
<1> QED
  BY ZenonT(100), <1>1, <1>3, <1>4, <1>5, <1>6, <1>7 DEF SharedOk, ReachOk

-----------------------------------------------------------------------------
(* Targets and the listener under every interleaving of the calls *)

\* The call of x made the target n itself; a call made the target a of name n, or
\* one of that name with the dispatcher d.
Built(x, n) == n \in DOMAIN thread[x].made /\ n \notin DOMAIN thread[x].cache
MadeBy(n, a) == \E x \in Threads : Built(x, n) /\ thread[x].made[n] = a
LeadsTo(n, d) == \E x \in Threads : Built(x, n) /\ thread[x].made[n].dispatcher = d

\* The target n has a pool and the listener was asked for; a call has its pool
\* still to register.
Online(n) == n \in DOMAIN server.pools /\ server.started
Due(t, n) == \E r \in Regs(thread[t].left) : r.pool = n

\* What a call owes: a pool, and the listener, for every remote target it has.
Duty(t) ==
  /\ Building(t) =>
       /\ IsSeq(thread[t].left)
       /\ thread[t].at = "merge" <=> thread[t].left = <<>>
       /\ \A r \in Regs(thread[t].left) : Built(t, r.pool) /\ r.to = thread[t].made[r.pool].dispatcher
       /\ thread[t].at \in {"start", "bind"} => Head(thread[t].left).pool \in DOMAIN server.pools
  /\ Building(t) \/ Merged(t) =>
       \A n \in DOMAIN thread[t].made : thread[t].made[n].type = "remote" =>
         Online(n) \/ (Building(t) /\ Due(t, n))
  /\ Merged(t) => DOMAIN thread[t].made \subseteq DOMAIN cache
  /\ thread[t].at \in {"idle", "copy"} => DOMAIN thread[t].made = {}
  /\ thread[t].at = "bind" => server.started

\* A listener that was asked for is there, or on its way, or somebody was told.
Lit ==
  server.started =>
    \/ server.listening \/ boot.at = "dropped"
    \/ \E t \in Threads : thread[t].at = "bind" \/ BindRefused(t)

BuiltOk ==
  /\ \A n \in DOMAIN cache : MadeBy(n, cache[n]) /\ (cache[n].type = "remote" => Online(n))
  /\ \A n \in DOMAIN server.pools : LeadsTo(n, server.pools[n])
  /\ \A t \in Threads : Duty(t)
  /\ Lit

\* Pools and the flag stay, and a new pool is that of a target a call made.
Lasting ==
  /\ server.started => server'.started
  /\ DOMAIN server.pools \subseteq DOMAIN server'.pools
  /\ \A n \in DOMAIN server'.pools : Pooled(server, n, server'.pools[n]) \/ LeadsTo(n, server.pools[n])'

\* They do if the pools are left alone.
LEMMA LastingKept ==
  ASSUME server'.pools = server.pools, server.started => server'.started PROVE Lasting
BY Zenon DEF Lasting, Pooled

\* One thread moves: what others made stays.
LEMMA BuiltFrame ==
  ASSUME BuiltOk, NEW t \in Threads, \A u \in Threads \ {t} : thread'[u] = thread[u],
         \A n : Built(t, n) => Built(t, n)' /\ thread'[t].made[n] = thread[t].made[n],
         Lasting, Within(cache, cache'),
         \A n \in DOMAIN cache' : n \notin DOMAIN cache =>
           MadeBy(n, cache[n])' /\ (cache'[n].type = "remote" => Online(n)'),
         Duty(t)', Lit'
  PROVE  BuiltOk'
<1>1. \A n : Online(n) => Online(n)'
  BY Zenon DEF Online, Lasting
<1>2. ASSUME NEW x \in Threads, NEW n, Built(x, n) PROVE Built(x, n)' /\ thread'[x].made[n] = thread[x].made[n]
  <2>1. CASE x = t
    BY Zenon, <1>2, <2>1
  <2>2. CASE x # t
    <3>1. thread'[x] = thread[x]
      BY Zenon, <2>2
    <3> QED
      BY Zenon, <1>2, <3>1 DEF Built
  <2> QED
    BY Zenon, <2>1, <2>2
<1>3. ASSUME NEW n \in DOMAIN cache' PROVE MadeBy(n, cache[n])' /\ (cache'[n].type = "remote" => Online(n)')
  <2>1. CASE n \in DOMAIN cache
    <3>1. cache'[n] = cache[n]
      BY Zenon, <2>1 DEF Within
    <3>2. MadeBy(n, cache[n]) /\ (cache[n].type = "remote" => Online(n))
      BY Zenon, <2>1 DEF BuiltOk
    <3>3. PICK x \in Threads : Built(x, n) /\ thread[x].made[n] = cache[n]
      BY Zenon, <3>2 DEF MadeBy
    <3>4. Built(x, n)' /\ thread'[x].made[n] = cache'[n]
      BY Zenon, <1>2, <3>1, <3>3
    <3> QED
      BY ZenonT(100), <1>1, <3>1, <3>2, <3>4 DEF MadeBy
  <2>2. CASE n \notin DOMAIN cache
    BY Zenon, <2>2
  <2> QED
    BY Zenon, <2>1, <2>2
<1>4. ASSUME NEW n \in DOMAIN server'.pools PROVE LeadsTo(n, server.pools[n])'
  <2>0. Pooled(server, n, server'.pools[n]) \/ LeadsTo(n, server.pools[n])'
    BY Zenon, <1>4 DEF Lasting
  <2>1. CASE Pooled(server, n, server'.pools[n])
    <3>1. LeadsTo(n, server.pools[n]) /\ server'.pools[n] = server.pools[n]
      BY Zenon, <2>1 DEF Pooled, BuiltOk
    <3>2. PICK x \in Threads : Built(x, n) /\ thread[x].made[n].dispatcher = server.pools[n]
      BY Zenon, <3>1 DEF LeadsTo
    <3>3. Built(x, n)' /\ thread'[x].made[n].dispatcher = server'.pools[n]
      BY ZenonT(100), <1>2, <3>1, <3>2
    <3> QED
      BY Zenon, <3>3 DEF LeadsTo
  <2> QED
    BY Zenon, <2>0, <2>1
<1>5. ASSUME NEW u \in Threads \ {t} PROVE Duty(u)'
  <2>1. thread'[u] = thread[u] /\ Duty(u)
    BY Zenon, <1>5 DEF BuiltOk
  <2>2. /\ Building(u)' = Building(u) /\ Merged(u)' = Merged(u)
        /\ \A n : Due(u, n)' = Due(u, n) /\ Built(u, n)' = Built(u, n)
    BY Zenon, <2>1 DEF Building, Merged, Due, Built
  <2>3. DOMAIN cache \subseteq DOMAIN cache'
    BY Zenon DEF Within
  <2> QED
    BY ZenonT(100), <1>1, <2>1, <2>2, <2>3 DEF Duty, Lasting
<1> QED
  BY ZenonT(100), <1>3, <1>4, <1>5 DEF BuiltOk

\* The same, when the call that moves has made what it makes.
LEMMA BuiltApartFrame ==
  ASSUME BuiltOk, NEW t \in Threads, Apart(thread, thread', t), UNCHANGED cache,
         Lasting, Duty(t)', Lit'
  PROVE  BuiltOk'
<1>1. \A n : Built(t, n) => Built(t, n)' /\ thread'[t].made[n] = thread[t].made[n]
  BY Zenon DEF Built, Apart
<1>2. Within(cache, cache') /\ \A n \in DOMAIN cache' : n \in DOMAIN cache
  BY Zenon DEF Within
<1> QED
  BY ZenonT(100), <1>1, <1>2, BuiltFrame DEF Apart

\* Who neither binds the port nor has failed changes nothing for the listener.
LEMMA LitKept ==
  ASSUME Lit, NEW t \in Threads, \A u \in Threads \ {t} : thread'[u] = thread[u],
         thread[t].at \notin {"bind", "failed"}, boot.at # "dropped",
         server'.started = server.started, server'.listening = server.listening
  PROVE  Lit'
<1>1. \A u \in Threads : thread[u].at = "bind" \/ BindRefused(u) => u # t
  BY Zenon DEF BindRefused
<1>2. \A u \in Threads : thread[u].at = "bind" \/ BindRefused(u) => thread'[u].at = "bind" \/ BindRefused(u)'
  BY Zenon, <1>1 DEF BindRefused
<1> QED
  BY Zenon, <1>2 DEF Lit

\* A call returns an error.
LEMMA BuiltFails ==
  ASSUME SharedOk, BuiltOk, NEW t \in Threads, NEW err, Returns(t, err), UNCHANGED cache,
         Lasting, Lit'
  PROVE  BuiltOk'
<1>1. Apart(thread, thread', t) /\ thread'[t].at = "failed"
  BY Zenon, ApartBy DEF Returns
<1>2. Duty(t)'
  BY Zenon, <1>1 DEF Duty, Building, Merged
<1> QED
  BY ZenonT(100), <1>1, <1>2, BuiltApartFrame

\* The routes of a call are parsed.
LEMMA BuiltParsed ==
  ASSUME SharedOk, BuiltOk, ParserSound, NEW t \in Threads, parse_route(t)
  PROVE  BuiltOk'
<1>1. /\ thread[t].at = "copy" /\ Parsed(t, ParseOf(t)) /\ UNCHANGED <<config, cache, server, port_free>>
  BY Zenon DEF parse_route, ParseOf
<1>2. PICK p : p = ParseOf(t)
  OBVIOUS
<1>3. Busy(t) /\ Parsed(t, p) /\ Serves(p) /\ Duty(t) /\ Lit
  BY ZenonT(100), <1>1, <1>2, SoundServes DEF Busy, ParserSound, BuiltOk
<1>4. boot.at # "dropped"
  BY Zenon, <1>3, Awake
<1>s. /\ server'.started = server.started /\ server'.listening = server.listening
      /\ Lasting /\ \A n : Online(n)' = Online(n)
  BY Zenon, <1>1, LastingKept DEF Online
<1>5. CASE Returns(t, p.err)
  <2>1. \A u \in Threads \ {t} : thread'[u] = thread[u]
    BY Zenon, <1>5, ApartBy DEF Returns, Apart
  <2>2. Lit'
    BY ZenonT(100), <1>1, <1>3, <1>4, <1>s, <2>1, LitKept
  <2> QED
    BY ZenonT(100), <1>1, <1>5, <1>s, <2>2, BuiltFails
<1>6. CASE ~Returns(t, p.err)
  <2>1. /\ \A u \in Threads \ {t} : thread'[u] = thread[u]
        /\ thread'[t].cache = cache /\ thread'[t].made = p.cache /\ thread'[t].left = p.regs
        /\ thread'[t].at = IF p.regs = <<>> THEN "merge" ELSE "register"
    BY ZenonT(100), <1>3, <1>6, ParsedCall
  <2>2. Building(t)' /\ ~Merged(t)' /\ thread'[t].at \notin {"start", "bind", "idle", "copy"}
        /\ (thread'[t].at = "merge" <=> p.regs = <<>>)
    BY Zenon, <2>1 DEF Building, Merged
  <2>3. IsSeq(p.regs) /\ \A r \in Regs(p.regs) : Built(t, r.pool)' /\ r.to = p.cache[r.pool].dispatcher
    BY ZenonT(100), <1>3, <2>1 DEF Serves, Built
  <2>4. ASSUME NEW n \in DOMAIN p.cache, p.cache[n].type = "remote"
        PROVE  Online(n)' \/ Due(t, n)'
    <3>1. CASE n \in DOMAIN cache
      <4>1. cache[n].type = "remote"
        BY ZenonT(100), <1>3, <2>4, <3>1 DEF Serves, Within
      <4> QED
        BY ZenonT(100), <1>s, <3>1, <4>1 DEF BuiltOk
    <3>2. CASE n \notin DOMAIN cache
      BY ZenonT(100), <1>3, <2>1, <2>4, <3>2 DEF Serves, Due
    <3> QED
      BY Zenon, <3>1, <3>2
  <2>5. Duty(t)'
    BY ZenonT(100), <2>1, <2>2, <2>3, <2>4 DEF Duty
  <2>6. \A n : ~Built(t, n)
    BY Zenon, <1>1, <1>3 DEF Built, Duty
  <2>7. Lit'
    BY ZenonT(100), <1>1, <1>3, <1>4, <1>s, <2>1, LitKept
  <2>8. Within(cache, cache') /\ \A n \in DOMAIN cache' : n \in DOMAIN cache
    BY Zenon, <1>1 DEF Within
  <2> QED
    BY ZenonT(100), <1>s, <2>1, <2>5, <2>6, <2>7, <2>8, BuiltFrame
<1> QED
  BY ZenonT(100), <1>5, <1>6

\* A call has registered a pool, and the listener was asked for.
LEMMA BuiltRegistered ==
  ASSUME SharedOk, BuiltOk, NEW t \in Threads, Building(t), thread[t].at # "merge",
         Registered(t, Tail(thread[t].left)), UNCHANGED cache,
         server'.started, DOMAIN server.pools \subseteq DOMAIN server'.pools,
         Head(thread[t].left).pool \in DOMAIN server'.pools,
         Apart(thread, thread', t) => Lasting /\ Lit'
  PROVE  BuiltOk'
<1>0. PICK rest, at : rest = Tail(thread[t].left) /\ at = IF rest = <<>> THEN "merge" ELSE "register"
  BY Zenon
<1>1. CASE Returns(t, thread[t].err)
  <2>1. Apart(thread, thread', t)
    BY Zenon, <1>1, ApartBy DEF Returns
  <2> QED
    BY ZenonT(100), <1>1, <2>1, BuiltFails
<1>2. CASE ~Returns(t, thread[t].err)
  <2>1. thread' = [thread EXCEPT ![t].left = rest, ![t].at = at]
    BY Zenon, <1>0, <1>2 DEF Registered
  <2>2. /\ Apart(thread, thread', t) /\ thread'[t].at = at /\ thread'[t].left = rest
        /\ thread'[t].err = thread[t].err
    BY ZenonT(100), <2>1, ApartBy
  <2>3. /\ Building(t)' /\ ~Merged(t)' /\ thread'[t].at \notin {"start", "bind", "idle", "copy"}
        /\ thread'[t].at = "merge" <=> rest = <<>>
    BY ZenonT(100), <1>0, <2>2 DEF Building, Merged
  <2>4. Duty(t) /\ IsSeq(thread[t].left) /\ thread[t].left # <<>>
    BY Zenon DEF BuiltOk, Duty
  <2>5. PICK h : h = Head(thread[t].left)
    OBVIOUS
  <2>6. IsSeq(rest) /\ Regs(thread[t].left) = {h} \cup Regs(rest)
    BY ZenonT(100), <1>0, <2>4, <2>5, TailFacts
  <2>7. thread'[t].made = thread[t].made /\ thread'[t].cache = thread[t].cache
    BY Zenon, <2>2 DEF Apart
  <2>8. \A r \in Regs(rest) : Built(t, r.pool)' /\ r.to = thread'[t].made[r.pool].dispatcher
    BY ZenonT(100), <2>4, <2>6, <2>7 DEF Duty, Built
  <2>9. ASSUME NEW n \in DOMAIN thread[t].made, thread[t].made[n].type = "remote"
        PROVE  Online(n)' \/ Due(t, n)'
    <3>1. Online(n) \/ Due(t, n)
      BY ZenonT(100), <2>4, <2>9 DEF Duty
    <3>2. CASE Online(n)
      BY Zenon, <3>2 DEF Online
    <3>3. CASE n = h.pool
      BY ZenonT(100), <2>5, <3>3 DEF Online
    <3>4. CASE \E r \in Regs(rest) : r.pool = n
      BY ZenonT(100), <2>2, <3>4 DEF Due
    <3> QED
      BY ZenonT(100), <2>6, <3>1, <3>2, <3>3, <3>4 DEF Due
  <2>10. Duty(t)'
    BY ZenonT(100), <2>2, <2>3, <2>6, <2>7, <2>8, <2>9 DEF Duty
  <2> QED
    BY ZenonT(100), <2>2, <2>10, BuiltApartFrame
<1> QED
  BY Zenon, <1>1, <1>2

\* register_pool.
LEMMA BuiltRegister ==
  ASSUME SharedOk, ReachOk, BuiltOk, NEW t \in Threads, register_pool(t)
  PROVE  BuiltOk'
<1>0. PICK reg : reg = Head(thread[t].left)
  OBVIOUS
<1>1. /\ thread[t].at = "register" /\ server' = [server EXCEPT !.pools = With(@, reg.pool, reg.to)]
      /\ UNCHANGED <<config, cache, port_free>>
  BY Zenon, <1>0 DEF register_pool
<1>2. /\ Busy(t) /\ Building(t) /\ ~Merged(t) /\ Duty(t) /\ Lit /\ boot.at # "dropped"
      /\ thread[t].at \notin {"merge", "bind", "failed"}
  BY ZenonT(100), <1>1, Awake DEF Busy, Building, Merged, BuiltOk
<1>3. /\ server'.started = server.started /\ server'.listening = server.listening
      /\ Pooled(server', reg.pool, reg.to)
      /\ \A m, e : m # reg.pool /\ Pooled(server, m, e) => Pooled(server', m, e)
      /\ \A m, e : m # reg.pool /\ Pooled(server', m, e) => Pooled(server, m, e)
  BY ZenonT(100), <1>1, PooledMore DEF ReachOk
<1>4. IsSeq(thread[t].left) /\ thread[t].left # <<>>
  BY Zenon, <1>2 DEF Duty
<1>5. reg \in Regs(thread[t].left)
  BY ZenonT(100), <1>0, <1>4, TailFacts
<1>6. Built(t, reg.pool) /\ reg.to = thread[t].made[reg.pool].dispatcher
  BY Zenon, <1>2, <1>5 DEF Duty
<1>7. DOMAIN server.pools \subseteq DOMAIN server'.pools /\ reg.pool \in DOMAIN server'.pools
  BY ZenonT(100), <1>3 DEF Pooled
<1>8. ASSUME Apart(thread, thread', t) PROVE Lasting /\ Lit'
  <2>1. LeadsTo(reg.pool, server.pools[reg.pool])'
    <3>1. Built(t, reg.pool)' /\ thread'[t].made[reg.pool].dispatcher = server'.pools[reg.pool]
      BY ZenonT(100), <1>3, <1>6, <1>8 DEF Built, Apart, Pooled
    <3> QED
      BY Zenon, <3>1 DEF LeadsTo
  <2>2. ASSUME NEW n \in DOMAIN server'.pools
        PROVE  Pooled(server, n, server'.pools[n]) \/ LeadsTo(n, server.pools[n])'
    <3>1. CASE n = reg.pool
      BY Zenon, <2>1, <3>1
    <3>2. CASE n # reg.pool
      <4>1. Pooled(server', n, server'.pools[n])
        BY Zenon, <2>2 DEF Pooled
      <4> QED
        BY ZenonT(100), <1>3, <3>2, <4>1
    <3> QED
      BY Zenon, <3>1, <3>2
  <2>3. \A u \in Threads \ {t} : thread'[u] = thread[u]
    BY Zenon, <1>8 DEF Apart
  <2> QED
    BY ZenonT(100), <1>2, <1>3, <1>7, <2>2, <2>3, LitKept DEF Lasting
<1>9. CASE server.started
  <2>1. Registered(t, Tail(thread[t].left)) /\ server'.started
    BY Zenon, <1>3, <1>9 DEF register_pool
  <2> QED
    BY ZenonT(100), <1>0, <1>1, <1>2, <1>7, <1>8, <2>1, BuiltRegistered
<1>10. CASE ~server.started
  <2>1. thread' = [thread EXCEPT ![t].at = "start", ![t].then = "register"]
    BY Zenon, <1>10 DEF register_pool
  <2>2. thread' = PutThen(PutAt(thread, t, "start"), t, "register")
    BY <2>1 DEF PutAt, PutThen
  <2>3. /\ Apart(thread, thread', t) /\ thread'[t].at = "start" /\ thread'[t].then = "register"
        /\ thread'[t].left = thread[t].left
    BY ZenonT(100), <2>2, ThenBy
  <2>4. Building(t)' /\ ~Merged(t)' /\ thread'[t].at \notin {"merge", "idle", "copy", "bind"}
    BY Zenon, <2>3 DEF Building, Merged
  <2>5. /\ thread'[t].made = thread[t].made /\ thread'[t].cache = thread[t].cache
        /\ \A n : (Built(t, n) => Built(t, n)') /\ (Due(t, n) => Due(t, n)') /\ ~Online(n)
    BY ZenonT(100), <1>10, <2>3 DEF Apart, Built, Due, Online
  <2>6. Duty(t)'
    BY ZenonT(100), <1>0, <1>2, <1>4, <1>7, <2>3, <2>4, <2>5 DEF Duty
  <2> QED
    BY ZenonT(100), <1>1, <1>8, <2>3, <2>6, BuiltApartFrame
<1> QED
  BY ZenonT(100), <1>9, <1>10

\* ensure_started: the port is about to be bound.
LEMMA BuiltStart ==
  ASSUME SharedOk, ReachOk, BuiltOk, NEW t \in Threads, ensure_started(t)
  PROVE  BuiltOk'
<1>1. /\ thread[t].at = "start" /\ server' = [server EXCEPT !.started = TRUE]
      /\ thread' = [thread EXCEPT ![t].at = "bind"] /\ UNCHANGED cache
  BY Zenon DEF ensure_started
<1>2. Duty(t)
  BY Zenon DEF BuiltOk
<1>3. server'.started /\ server'.pools = server.pools
  BY SMTT(60), <1>1 DEF ReachOk
<1>4. /\ Apart(thread, thread', t) /\ thread'[t].at = "bind" /\ thread'[t].then = thread[t].then
      /\ thread'[t].left = thread[t].left
  BY ZenonT(100), <1>1, ApartBy
<1>5. Building(t)' = Building(t) /\ Merged(t)' = Merged(t)
  BY ZenonT(100), <1>1, <1>4 DEF Building, Merged
<1>6. Lasting /\ Lit'
  BY ZenonT(100), <1>3, <1>4, LastingKept DEF Lit
<1>7. /\ thread'[t].made = thread[t].made /\ thread'[t].cache = thread[t].cache
      /\ \A n : (Built(t, n) => Built(t, n)') /\ (Due(t, n) => Due(t, n)') /\ (Online(n) => Online(n)')
  BY ZenonT(100), <1>3, <1>4 DEF Apart, Built, Due, Online
<1>8. Duty(t)'
  BY ZenonT(100), <1>1, <1>2, <1>3, <1>4, <1>5, <1>7 DEF Duty
<1> QED
  BY ZenonT(100), <1>1, <1>4, <1>6, <1>8, BuiltApartFrame

\* bind: the listener is there, or the caller is told.
LEMMA BuiltBind ==
  ASSUME SharedOk, ReachOk, BuiltOk, NEW t \in Threads, bind(t)
  PROVE  BuiltOk'
<1>1. thread[t].at = "bind" /\ UNCHANGED cache
  BY Zenon DEF bind
<1>2. Duty(t) /\ server.started /\ thread[t].at # "merge"
  BY Zenon, <1>1 DEF BuiltOk, Duty
<1>3. CASE ~port_free
  <2>1. Returns(t, "worker_server") /\ UNCHANGED server
    BY Zenon, <1>3 DEF bind
  <2>2. Apart(thread, thread', t) /\ thread'[t].at = "failed" /\ thread'[t].err = "worker_server"
    BY ZenonT(100), <2>1, ApartBy DEF Returns
  <2>3. Lit'
    BY Zenon, <2>2 DEF Lit, BindRefused
  <2>4. Lasting
    BY ZenonT(100), <2>1, LastingKept
  <2> QED
    BY ZenonT(100), <1>1, <2>1, <2>3, <2>4, BuiltFails
<1>4. CASE port_free
  <2>1. server' = [server EXCEPT !.listening = TRUE]
    BY Zenon, <1>4 DEF bind
  <2>2. server'.started = server.started /\ server'.listening /\ server'.pools = server.pools
    BY SMTT(60), <2>1 DEF ReachOk
  <2>3. Lasting /\ Lit'
    BY ZenonT(100), <2>2, LastingKept DEF Lit
  <2>4. CASE thread[t].then = "register"
    <3>1. Registered(t, Tail(thread[t].left)) /\ Building(t)
      BY ZenonT(100), <1>1, <1>4, <2>4 DEF bind, Building
    <3>2. Head(thread[t].left).pool \in DOMAIN server'.pools
      BY ZenonT(100), <1>1, <1>2, <2>2, <3>1 DEF Duty
    <3> QED
      BY ZenonT(100), <1>1, <1>2, <2>2, <2>3, <3>1, <3>2, BuiltRegistered
  <2>5. CASE thread[t].then # "register"
    <3>1. thread' = [thread EXCEPT ![t].at = "done"]
      BY Zenon, <1>4, <2>5 DEF bind
    <3>2. Apart(thread, thread', t) /\ thread'[t].at = "done"
      BY ZenonT(100), <3>1, ApartBy
    <3>3. Merged(t) /\ ~Building(t) /\ Merged(t)' /\ ~Building(t)'
      BY ZenonT(100), <1>1, <2>5, <3>2 DEF Merged, Building
    <3>4. thread'[t].made = thread[t].made /\ \A n : Online(n) => Online(n)'
      BY ZenonT(100), <2>2, <3>2 DEF Apart, Online
    <3>5. Duty(t)'
      BY ZenonT(100), <1>1, <1>2, <3>2, <3>3, <3>4 DEF Duty
    <3> QED
      BY ZenonT(100), <1>1, <2>3, <3>2, <3>5, BuiltApartFrame
  <2> QED
    BY ZenonT(100), <2>4, <2>5
<1> QED
  BY Zenon, <1>3, <1>4

\* merge: what is new in the cache was made by this call.
LEMMA BuiltMerge ==
  ASSUME SharedOk, ReachOk, BuiltOk, NEW t \in Threads, merge(t)
  PROVE  BuiltOk'
<1>1. /\ thread[t].at = "merge" /\ UNCHANGED server
      /\ thread' = [thread EXCEPT ![t].at = "validate"]
      /\ cache' = [n \in DOMAIN cache \cup DOMAIN thread[t].made |->
                     IF n \in DOMAIN cache THEN cache[n] ELSE thread[t].made[n]]
  BY Zenon DEF merge
<1>2. Busy(t) /\ Known(t) /\ Building(t) /\ Duty(t) /\ Lit
  BY Zenon, <1>1 DEF Busy, Building, SharedOk, BuiltOk
<1>3. Apart(thread, thread', t) /\ thread'[t].at = "validate"
  BY Zenon, <1>1, ApartBy
<1>4. Merged(t)' /\ ~Building(t)' /\ thread'[t].at \notin {"start", "bind", "merge", "idle", "copy"}
  BY Zenon, <1>3 DEF Merged, Building
<1>5. /\ \A n \in DOMAIN cache : n \in DOMAIN cache' /\ cache'[n] = cache[n]
      /\ \A n \in DOMAIN thread[t].made : n \notin DOMAIN cache => cache'[n] = thread[t].made[n]
      /\ DOMAIN cache' = DOMAIN cache \cup DOMAIN thread[t].made
  BY Zenon, <1>1
<1>6. Within(cache, cache') /\ \A n \in DOMAIN thread[t].cache : n \in DOMAIN cache
  BY ZenonT(100), <1>2, <1>5 DEF Known, Within
<1>7. /\ thread'[t].made = thread[t].made /\ thread'[t].cache = thread[t].cache
      /\ \A n : Built(t, n)' = Built(t, n) /\ Online(n)' = Online(n)
  BY ZenonT(100), <1>1, <1>3 DEF Apart, Built, Online
<1>8. Regs(thread[t].left) = {}
  <2>1. thread[t].left = <<>>
    BY ZenonT(100), <1>1, <1>2 DEF Duty
  <2> QED
    BY SMTT(60), <2>1 DEF Regs
<1>9. \A n \in DOMAIN thread[t].made : thread[t].made[n].type = "remote" => Online(n)
  BY ZenonT(100), <1>2, <1>8 DEF Duty, Due
<1>10. Duty(t)'
  BY ZenonT(100), <1>4, <1>5, <1>7, <1>9 DEF Duty
<1>11. ASSUME NEW n \in DOMAIN cache', n \notin DOMAIN cache
       PROVE  MadeBy(n, cache[n])' /\ (cache'[n].type = "remote" => Online(n)')
  <2>1. n \in DOMAIN thread[t].made /\ n \notin DOMAIN thread[t].cache /\ cache'[n] = thread[t].made[n]
    BY ZenonT(100), <1>5, <1>6, <1>11
  <2>2. Built(t, n)' /\ thread'[t].made[n] = cache'[n]
    BY ZenonT(100), <1>7, <2>1 DEF Built
  <2> QED
    BY ZenonT(100), <1>7, <1>9, <2>1, <2>2 DEF MadeBy
<1>12. Lasting
  BY ZenonT(100), <1>1, LastingKept
<1>13. Lit'
  <2>1. boot.at # "dropped" /\ thread[t].at \notin {"bind", "failed"} /\ \A u \in Threads \ {t} : thread'[u] = thread[u]
    BY ZenonT(100), <1>1, <1>2, <1>3, Awake DEF Apart
  <2> QED
    BY ZenonT(100), <1>1, <1>2, <2>1, LitKept
<1> QED
  BY ZenonT(100), <1>3, <1>6, <1>7, <1>10, <1>11, <1>12, <1>13, BuiltFrame DEF Apart

\* A call whose routes are valid, or not, ends or starts the listener.
LEMMA BuiltValidated ==
  ASSUME SharedOk, BuiltOk, NEW t \in Threads, thread[t].at = "validate", UNCHANGED <<cache, server>>,
         Apart(thread, thread', t), \/ thread'[t].at \in {"done", "failed"}
                                    \/ thread'[t].at = "start" /\ thread'[t].then = "done"
  PROVE  BuiltOk'
<1>1. Busy(t) /\ Duty(t) /\ Lit /\ Merged(t) /\ ~Building(t)
  BY Zenon DEF Busy, Merged, Building, BuiltOk
<1>2. ~Building(t)' /\ thread'[t].at \notin {"bind", "idle", "copy"}
  BY Zenon DEF Building
<1>3. thread'[t].made = thread[t].made /\ \A n : Online(n) => Online(n)'
  BY Zenon DEF Apart, Online
<1>4. Duty(t)'
  BY ZenonT(100), <1>1, <1>2, <1>3 DEF Duty
<1>5. boot.at # "dropped" /\ thread[t].at \notin {"bind", "failed"} /\ \A u \in Threads \ {t} : thread'[u] = thread[u]
  BY ZenonT(100), <1>1, Awake DEF Apart
<1>6. Lit' /\ Lasting
  BY ZenonT(100), <1>1, <1>5, LitKept, LastingKept
<1> QED
  BY ZenonT(100), <1>4, <1>6, BuiltApartFrame

\* The end of parse_bootstrap.
LEMMA BuiltUp == ASSUME SharedOk, BuiltOk, validate_switch PROVE BuiltOk'
<1>1. Boot \in Threads /\ thread[Boot].at = "validate" /\ UNCHANGED <<cache, server>>
  BY Zenon DEF validate_switch, Threads
<1>2. CASE Returns(Boot, "route")
  <2>1. Apart(thread, thread', Boot) /\ thread'[Boot].at = "failed"
    BY ZenonT(100), <1>1, <1>2, ApartBy DEF Returns
  <2> QED
    BY ZenonT(100), <1>1, <2>1, BuiltValidated
<1>3. CASE thread' = [thread EXCEPT ![Boot].at = "done"]
  <2>1. Apart(thread, thread', Boot) /\ thread'[Boot].at = "done"
    BY ZenonT(100), <1>1, <1>3, ApartBy
  <2> QED
    BY ZenonT(100), <1>1, <2>1, BuiltValidated
<1> QED
  BY Zenon, <1>2, <1>3 DEF validate_switch

\* The end of add_route.
LEMMA BuiltListed == ASSUME SharedOk, BuiltOk, NEW t \in Threads, list_route(t) PROVE BuiltOk'
<1>1. thread[t].at = "validate" /\ UNCHANGED <<cache, server>>
  BY Zenon DEF list_route
<1>2. PICK at : at = IF config.worker_server /\ starts THEN "start" ELSE "done"
  OBVIOUS
<1>3. CASE Returns(t, "route")
  <2>1. Apart(thread, thread', t) /\ thread'[t].at = "failed"
    BY ZenonT(100), <1>3, ApartBy DEF Returns
  <2> QED
    BY ZenonT(100), <1>1, <2>1, BuiltValidated
<1>4. CASE ~Returns(t, "route")
  <2>1. thread' = [thread EXCEPT ![t].at = at, ![t].then = "done"]
    BY ZenonT(100), <1>2, <1>4 DEF list_route
  <2>2. thread' = PutThen(PutAt(thread, t, at), t, "done")
    BY <2>1 DEF PutAt, PutThen
  <2>3. Apart(thread, thread', t) /\ thread'[t].at = at /\ thread'[t].then = "done"
    BY ZenonT(100), <2>2, ThenBy
  <2>4. at = "done" \/ at = "start"
    BY Zenon, <1>2
  <2> QED
    BY ZenonT(100), <1>1, <2>3, <2>4, BuiltValidated
<1> QED
  BY ZenonT(100), <1>3, <1>4

\* A call begins.
LEMMA BuiltBegin ==
  ASSUME SharedOk, BuiltOk, NEW t \in Threads, thread[t].at = "idle", boot.at # "dropped",
         thread' = [thread EXCEPT ![t].at = "copy"], UNCHANGED <<cache, server>>
  PROVE  BuiltOk'
<1>1. Apart(thread, thread', t) /\ thread'[t].at = "copy"
  BY Zenon, ApartBy
<1>2. Duty(t) /\ Lit /\ DOMAIN thread[t].made = {}
  BY Zenon DEF BuiltOk, Duty
<1>3. Duty(t)'
  BY ZenonT(100), <1>1, <1>2 DEF Duty, Building, Merged, Apart
<1>4. thread[t].at \notin {"bind", "failed"} /\ \A u \in Threads \ {t} : thread'[u] = thread[u]
  BY ZenonT(100), <1>1 DEF Apart
<1>5. Lit' /\ Lasting
  BY ZenonT(100), <1>2, <1>4, LitKept, LastingKept
<1> QED
  BY Zenon, <1>1, <1>3, <1>5, BuiltApartFrame

\* What is apart from the calls.
LEMMA BuiltApart ==
  ASSUME BuiltOk, UNCHANGED <<cache, thread>>, server'.pools = server.pools, server'.started = server.started,
         \/ boot'.at = "dropped"
         \/ server'.listening = server.listening /\ boot.at # "dropped"
         \/ server'.listening = server.listening /\ UNCHANGED boot
  PROVE  BuiltOk'
<1>1. \A n : Online(n) = Online(n)'
  BY Zenon DEF Online
<1>2. \A n, a : (MadeBy(n, a) => MadeBy(n, a)') /\ (LeadsTo(n, a) => LeadsTo(n, a)')
  BY Zenon DEF MadeBy, LeadsTo, Built
<1>3. ASSUME NEW t \in Threads PROVE Duty(t)'
  <2>1. Duty(t) /\ thread'[t] = thread[t]
    BY Zenon DEF BuiltOk
  <2>2. /\ Building(t)' = Building(t) /\ Merged(t)' = Merged(t)
        /\ \A n : Due(t, n)' = Due(t, n) /\ Built(t, n)' = Built(t, n)
    BY Zenon DEF Building, Merged, Due, Built
  <2> QED
    BY ZenonT(100), <1>1, <2>1, <2>2 DEF Duty
<1>4. Lit'
  BY Zenon DEF BuiltOk, Lit, BindRefused
<1> QED
  BY ZenonT(100), <1>1, <1>2, <1>3, <1>4 DEF BuiltOk

\* Until parse_bootstrap comes to the routes, its call has not begun.
Early == {"settings", "init", "slot", "registries"}
FirstIdle == boot.at \in Early => thread[Boot].at = "idle"

\* Every step keeps that.
LEMMA FirstIdleKept == ASSUME SharedOk, FirstIdle, [Next]_vars PROVE FirstIdle'
<1>0. Shaped /\ Boot \in Threads /\ Adders \subseteq Threads
  BY Zenon DEF SharedOk, StartOk, Threads
<1>q. ASSUME UNCHANGED <<boot, thread>> PROVE FirstIdle'
  BY Zenon, <1>q DEF FirstIdle
<1>s. ASSUME UNCHANGED startup PROVE FirstIdle'
  BY ZenonT(100), <1>q, <1>s DEF startup
<1>f. ASSUME NEW at, at \notin Early, BootGoes(at) PROVE FirstIdle'
  BY Zenon, <1>f DEF FirstIdle, BootGoes
<1>e. ASSUME NEW err, BootFails(err) PROVE FirstIdle'
  <2>1. BootGoes("failed") /\ "failed" \notin Early
    BY ZenonT(100), <1>0, <1>e, BootGoesBy DEF BootFails, Early
  <2> QED
    BY Zenon, <1>f, <2>1
<1>b. ASSUME NEW t \in Threads, Busy(t), UNCHANGED boot \/ \E err : BootFails(err) PROVE FirstIdle'
  <2>1. boot.at \notin Early
    BY ZenonT(100), <1>b, Awake DEF Early
  <2> QED
    BY ZenonT(100), <1>b, <1>e, <2>1 DEF FirstIdle
<1>r. ASSUME NEW t \in Threads, NEW err, Returns(t, err) PROVE UNCHANGED boot \/ \E e : BootFails(e)
  BY Zenon, <1>r DEF Returns
<1>1. CASE Booting
  <2>1. CASE parse_bootstrap \/ init_store \/ allocate_startup_broker_slot
    <3>1. boot.at \in Early /\ UNCHANGED thread
      BY ZenonT(100), <2>1 DEF parse_bootstrap, init_store, allocate_startup_broker_slot, Early
    <3> QED
      BY Zenon, <3>1 DEF FirstIdle
  <2>2. CASE registries
    <3>1. boot' = [boot EXCEPT !.at = "routes"] \/ BootFails("registries")
      BY Zenon, <2>2 DEF registries
    <3>2. boot' = [boot EXCEPT !.at = "routes"] => BootGoes("routes") /\ "routes" \notin Early
      BY ZenonT(100), <1>0, BootGoesBy DEF Early
    <3> QED
      BY ZenonT(100), <1>e, <1>f, <3>1, <3>2
  <2>3. CASE validate_switch
    <3>1. boot' = [boot EXCEPT !.at = "up"] \/ (Busy(Boot) /\ Returns(Boot, "route"))
      BY Zenon, <2>3 DEF validate_switch, Busy
    <3>2. boot' = [boot EXCEPT !.at = "up"] => BootGoes("up") /\ "up" \notin Early
      BY ZenonT(100), <1>0, BootGoesBy DEF Early
    <3> QED
      BY ZenonT(100), <1>0, <1>b, <1>f, <1>r, <3>1, <3>2
  <2>4. ASSUME NEW t \in Threads, register_pool(t) \/ ensure_started(t) \/ bind(t) \/ merge(t) \/ list_route(t)
        PROVE  FirstIdle'
    <3>1. Busy(t)
      BY ZenonT(100), <2>4 DEF register_pool, ensure_started, bind, merge, list_route, Busy
    <3>2. UNCHANGED boot \/ \E err : Returns(t, err)
      BY ZenonT(100), <2>4 DEF register_pool, ensure_started, bind, merge, list_route, Registered
    <3> QED
      BY ZenonT(100), <1>b, <1>r, <3>1, <3>2
  <2> QED
    BY ZenonT(100), <1>1, <2>1, <2>2, <2>3, <2>4 DEF Booting, StartupStep
<1>2. ASSUME NEW t \in Threads, parse_route(t) PROVE FirstIdle'
  <2>1. Busy(t) /\ (UNCHANGED boot \/ \E err : Returns(t, err))
    BY ZenonT(100), <1>2 DEF parse_route, Parsed, Busy
  <2> QED
    BY ZenonT(100), <1>b, <1>r, <2>1
<1>3. CASE Calling
  <2>1. ASSUME NEW t \in Adders, add_route(t) PROVE FirstIdle'
    <3>1. boot.at = "up" /\ UNCHANGED boot
      BY Zenon, <2>1 DEF add_route, Up
    <3> QED
      BY Zenon, <3>1 DEF FirstIdle, Early
  <2>2. CASE PortReleased
    BY Zenon, <1>q, <2>2 DEF PortReleased
  <2> QED
    BY ZenonT(100), <1>3, <2>1, <2>2 DEF Calling, StartupCall
<1>4. CASE Dropping
  <2>1. boot' = [boot EXCEPT !.at = "dropped"]
    BY Zenon, <1>4 DEF Dropping, drop
  <2>2. BootGoes("dropped") /\ "dropped" \notin Early
    BY ZenonT(100), <1>0, <2>1, BootGoesBy DEF Early
  <2> QED
    BY ZenonT(100), <1>f, <2>2
<1>5. CASE submit_job \/ submit_overloaded \/ Executing \/ cancel \/ Persist \/ Cleanup \/ Leave \/ snapshot
  BY ZenonT(100), <1>s, <1>5 DEF submit_job, submit_overloaded, Executing, cancel, Persist, Cleanup, Leave, snapshot
<1>6. CASE Polling
  BY ZenonT(100), <1>s, <1>6 DEF Polling, poll_job, poll_python, poll_relayed, Poll
<1>7. CASE UNCHANGED vars
  BY ZenonT(100), <1>s, <1>7 DEF vars
<1> QED
  BY ZenonT(100), <1>1, <1>2, <1>3, <1>4, <1>5, <1>6, <1>7 DEF Next, Parsing, ParseStep

\* Every step keeps the invariant, as long as the parser is sound.
LEMMA BuiltKept ==
  ASSUME SharedOk, ReachOk, BuiltOk, FirstIdle, ParserSound, [Next]_vars
  PROVE  BuiltOk'
<1>0. StartOk /\ Boot \in Threads /\ Adders \subseteq Threads
  BY Zenon DEF SharedOk, Threads
<1>q. ASSUME UNCHANGED startup PROVE BuiltOk'
  <2>1. UNCHANGED <<cache, thread, server, boot>>
    BY ZenonT(100), <1>q DEF startup
  <2> QED
    BY Zenon, <2>1, BuiltApart
<1>b. ASSUME boot.at # "dropped", UNCHANGED <<cache, thread, server>> PROVE BuiltOk'
  BY ZenonT(100), <1>b, BuiltApart
<1>1. CASE Booting
  <2>1. CASE parse_bootstrap \/ init_store \/ allocate_startup_broker_slot
    BY ZenonT(100), <1>b, <2>1 DEF parse_bootstrap, init_store, allocate_startup_broker_slot
  <2>2. CASE registries
    <3>1. boot.at = "registries" /\ UNCHANGED <<cache, server>>
      BY Zenon, <2>2 DEF registries
    <3>2. CASE UNCHANGED thread
      BY ZenonT(100), <1>b, <3>1, <3>2
    <3>3. CASE ~UNCHANGED thread
      <4>1. thread' = [thread EXCEPT ![Boot].at = "copy"]
        BY ZenonT(100), <2>2, <3>3 DEF registries
      <4>2. thread[Boot].at = "idle"
        BY Zenon, <3>1 DEF FirstIdle, Early
      <4> QED
        BY ZenonT(100), <1>0, <3>1, <4>1, <4>2, BuiltBegin
    <3> QED
      BY ZenonT(100), <3>2, <3>3
  <2>3. CASE validate_switch \/ \E t \in Threads : list_route(t)
    BY ZenonT(100), <2>3, BuiltUp, BuiltListed
  <2>4. CASE \E t \in Threads : register_pool(t) \/ ensure_started(t) \/ bind(t) \/ merge(t)
    BY ZenonT(100), <2>4, BuiltRegister, BuiltStart, BuiltBind, BuiltMerge
  <2> QED
    BY ZenonT(100), <1>1, <2>1, <2>2, <2>3, <2>4 DEF Booting, StartupStep
<1>2. CASE Parsing
  BY ZenonT(100), <1>2, BuiltParsed DEF Parsing, ParseStep
<1>3. CASE Calling
  <2>1. ASSUME NEW t \in Adders, add_route(t) PROVE BuiltOk'
    <3>1. /\ boot.at = "up" /\ thread[t].at = "idle" /\ thread' = [thread EXCEPT ![t].at = "copy"]
          /\ UNCHANGED <<cache, server>>
      BY Zenon, <2>1 DEF add_route, Up
    <3> QED
      BY ZenonT(100), <1>0, <2>1, <3>1, BuiltBegin
  <2>2. CASE PortReleased
    BY ZenonT(100), <2>2, BuiltApart DEF PortReleased
  <2> QED
    BY ZenonT(100), <1>3, <2>1, <2>2 DEF Calling, StartupCall
<1>4. CASE Dropping
  <2>1. /\ server' = [server EXCEPT !.listening = FALSE] /\ boot' = [boot EXCEPT !.at = "dropped"]
        /\ UNCHANGED <<cache, thread>>
    BY Zenon, <1>4 DEF Dropping, drop
  <2>2. server'.pools = server.pools /\ server'.started = server.started
    BY SMTT(60), <2>1 DEF ReachOk
  <2>3. BootGoes("dropped")
    BY ZenonT(100), <1>0, <2>1, BootGoesBy DEF StartOk
  <2>4. boot'.at = "dropped"
    BY ZenonT(100), <2>3 DEF BootGoes
  <2> QED
    BY ZenonT(100), <2>1, <2>2, <2>4, BuiltApart
<1>5. CASE submit_job \/ submit_overloaded \/ Executing \/ cancel \/ Persist \/ Cleanup \/ Leave \/ snapshot
  BY ZenonT(100), <1>q, <1>5 DEF submit_job, submit_overloaded, Executing, cancel, Persist, Cleanup, Leave, snapshot
<1>6. CASE Polling
  BY ZenonT(100), <1>q, <1>6 DEF Polling, poll_job, poll_python, poll_relayed, Poll
<1>7. CASE UNCHANGED vars
  BY ZenonT(100), <1>q, <1>7 DEF vars
<1> QED
  BY ZenonT(100), <1>1, <1>2, <1>3, <1>4, <1>5, <1>6, <1>7 DEF Next

\* They hold at first.
LEMMA BuiltFirst == Init => BuiltOk /\ FirstIdle
<1> SUFFICES ASSUME Init PROVE BuiltOk /\ FirstIdle
  OBVIOUS
<1>1. NoThread.at = "idle" /\ DOMAIN NoThread.made = {}
  BY SMTT(60) DEF NoThread, NoCache
<1>2. \A t \in Threads : thread[t].at = "idle" /\ DOMAIN thread[t].made = {}
  BY ZenonT(100), <1>1 DEF Init
<1>3. server.started = FALSE /\ DOMAIN server.pools = {} /\ DOMAIN cache = {}
  BY SMTT(60) DEF Init, NoCache
<1>4. \A t \in Threads : Duty(t)
  BY ZenonT(100), <1>2 DEF Duty, Building, Merged
<1>5. Boot \in Threads
  BY Zenon DEF Threads
<1> QED
  BY ZenonT(100), <1>2, <1>3, <1>4, <1>5 DEF BuiltOk, Lit, FirstIdle

\* The path /name/work leads to the pool of that name.
LEMMA PathLeads ==
  ASSUME NEW n, NEW d, Pooled(server, n, d)
  PROVE  dispatch_to_pool(<<n, "work">>) = [to |-> d, rest |-> <<"work">>]
<1>1. <<n, "work">> # <<>> /\ Head(<<n, "work">>) = n /\ Tail(<<n, "work">>) = <<"work">>
  BY SMT
<1>2. extract_pool_and_rest(<<n, "work">>) = [pool |-> n, rest |-> <<"work">>]
  BY Zenon, <1>1 DEF extract_pool_and_rest
<1>3. [pool |-> n, rest |-> <<"work">>].pool = n /\ [pool |-> n, rest |-> <<"work">>].rest = <<"work">>
  BY Zenon
<1> QED
  BY ZenonT(100), <1>2, <1>3 DEF dispatch_to_pool, Pooled

\* A settled call has its remote and registered targets from the calls that made
\* them, and the remote ones are online.
LEMMA SettledHas ==
  ASSUME SharedOk, BuiltOk, NEW t \in Threads, Settled(t), NEW a \in Targets(t), Named(a)
  PROVE  MadeBy(a.name, a) /\ (a.type = "remote" => Online(a.name))
<1>1. Known(t) /\ Merged(t) /\ ~Building(t) /\ Duty(t)
  BY Zenon DEF SharedOk, BuiltOk, Merged, Building, Settled
<1>2. a.name \in DOMAIN thread[t].made /\ thread[t].made[a.name] = a
  BY Zenon, <1>1 DEF Known
<1>3. a.type = "remote" => Online(a.name)
  BY Zenon, <1>1, <1>2 DEF Duty
<1>4. CASE Built(t, a.name)
  BY ZenonT(100), <1>2, <1>3, <1>4 DEF MadeBy
<1>5. CASE ~Built(t, a.name)
  <2>1. a.name \in DOMAIN thread[t].cache
    BY ZenonT(100), <1>2, <1>5 DEF Built
  <2>2. a.name \in DOMAIN cache /\ cache[a.name] = a
    BY ZenonT(100), <1>1, <1>2, <2>1 DEF Known, Within
  <2> QED
    BY ZenonT(100), <1>3, <2>2 DEF BuiltOk
<1> QED
  BY Zenon, <1>4, <1>5

\* A target that one call made is that target for everybody.
LEMMA OneMade ==
  ASSUME NEW n, BuiltOnce(n), NEW a, MadeBy(n, a)
  PROVE  (\A b : MadeBy(n, b) => a = b) /\ (\A d : LeadsTo(n, d) => a.dispatcher = d)
<1>1. PICK x \in Threads : Built(x, n) /\ thread[x].made[n] = a
  BY Zenon DEF MadeBy
<1>2. \A y \in Threads : Built(y, n) => y = x
  BY Zenon, <1>1 DEF BuiltOnce, Builders, Built
<1> QED
  BY Zenon, <1>1, <1>2 DEF MadeBy, LeadsTo

\* The invariants imply TargetShared: when calls do not overlap by what the cache
\* and the pools hold, and for a target one call made by whose it is.
LEMMA TargetsSuffice == SharedOk /\ ReachOk /\ BuiltOk => TargetShared
<1> SUFFICES ASSUME SharedOk, ReachOk, BuiltOk PROVE TargetShared
  OBVIOUS
<1>1. ASSUME NEW t \in Threads, NEW u \in Threads, Settled(t), Settled(u),
             NEW a \in Targets(t), NEW b \in Targets(u), a.name = b.name,
             a.name \in DOMAIN config.registries.target, BuiltOnce(a.name)
      PROVE  a.dispatcher = b.dispatcher
  <2>1. MadeBy(a.name, a) /\ MadeBy(a.name, b)
    BY ZenonT(100), <1>1, SettledHas DEF Named
  <2> QED
    BY ZenonT(100), <1>1, <2>1, OneMade
<1>2. ASSUME NEW t \in Threads, Settled(t), NEW a \in Targets(t), a.type = "remote",
             config.serial \/ BuiltOnce(a.name)
      PROVE  dispatch_to_pool(<<a.name, "work">>) = [to |-> a.dispatcher, rest |-> <<"work">>]
  <2>1. CASE config.serial
    <3>1. Net
      BY Zenon, <2>1 DEF ReachOk
    <3>2. Known(t) /\ Merged(t) /\ Named(a)
      BY Zenon, <1>2 DEF SharedOk, Merged, Settled, Named
    <3>3. a.name \in DOMAIN thread[t].made /\ thread[t].made[a.name] = a /\ Within(thread[t].made, cache)
      BY ZenonT(100), <1>2, <2>1, <3>2 DEF Known
    <3>4. a.name \in DOMAIN cache /\ cache[a.name] = a
      BY Zenon, <3>3 DEF Within
    <3>5. Pooled(server, a.name, a.dispatcher)
      BY ZenonT(100), <1>2, <3>1, <3>4 DEF Net
    <3> QED
      BY ZenonT(100), <3>5, PathLeads
  <2>2. CASE BuiltOnce(a.name)
    <3>1. MadeBy(a.name, a) /\ a.name \in DOMAIN server.pools
      BY ZenonT(100), <1>2, SettledHas DEF Named, Online
    <3>2. LeadsTo(a.name, server.pools[a.name])
      BY Zenon, <3>1 DEF BuiltOk
    <3>3. Pooled(server, a.name, a.dispatcher)
      BY ZenonT(100), <2>2, <3>1, <3>2, OneMade DEF Pooled
    <3> QED
      BY Zenon, <3>3, PathLeads
  <2> QED
    BY ZenonT(100), <1>2, <2>1, <2>2
<1>4. \A t, u \in Threads : Settled(t) /\ Settled(u) =>
        \A a \in Targets(t), b \in Targets(u) :
          /\ a.name = b.name /\ a.name \in DOMAIN config.registries.target
          /\ \/ config.serial \/ BuiltOnce(a.name)
             \/ a.name \in DOMAIN thread[t].cache \cap DOMAIN thread[u].cache
          => a.dispatcher = b.dispatcher
  <2> SUFFICES ASSUME NEW t \in Threads, NEW u \in Threads, Settled(t), Settled(u),
                      NEW a \in Targets(t), NEW b \in Targets(u), a.name = b.name,
                      a.name \in DOMAIN config.registries.target,
                      \/ config.serial \/ BuiltOnce(a.name)
                      \/ a.name \in DOMAIN thread[t].cache \cap DOMAIN thread[u].cache
               PROVE  a.dispatcher = b.dispatcher
    BY SMTT(60)
  <2>1. CASE BuiltOnce(a.name)
    BY ZenonT(100), <1>1, <2>1
  <2>2. CASE config.serial \/ a.name \in DOMAIN thread[t].cache \cap DOMAIN thread[u].cache
    BY ZenonT(100), <2>2, SharedSuffices
  <2> QED
    BY ZenonT(100), <2>1, <2>2
<1>5. \A t \in Threads : Settled(t) =>
        \A a \in Targets(t) : a.type = "remote" /\ (config.serial \/ BuiltOnce(a.name)) =>
          dispatch_to_pool(<<a.name, "work">>) = [to |-> a.dispatcher, rest |-> <<"work">>]
  BY ZenonT(100), <1>2
<1> QED
  BY ZenonT(100), <1>4, <1>5 DEF TargetShared

\* They imply ListenerUp.
LEMMA ListenerSuffices == SharedOk /\ BuiltOk => ListenerUp
<1> SUFFICES ASSUME SharedOk, BuiltOk, Up, NEW t \in Threads, Settled(t), NEW a \in Targets(t), a.type = "remote"
             PROVE  server.listening \/ \E u \in Threads : thread[u].at = "bind" \/ BindRefused(u)
  BY Zenon DEF ListenerUp
<1>1. server.started
  BY Zenon, SettledHas DEF Named, Online
<1> QED
  BY Zenon, <1>1 DEF BuiltOk, Lit, Up

\* The invariants hold throughout, provided each parse returns what
\* parse_routes is there for: the cache it was given with the targets it made, the
\* routes it built from them, and their registrations.
LEMMA TargetsHold == Spec /\ []ParserSound => [](SharedOk /\ ReachOk /\ BuiltOk /\ FirstIdle)
<1>1. PipelineInit => SharedOk /\ ReachOk /\ BuiltOk /\ FirstIdle
  BY Zenon, TargetsFirst, BuiltFirst DEF PipelineInit
<1>2. SharedOk /\ ReachOk /\ BuiltOk /\ FirstIdle /\ ParserSound /\ [Next]_vars
      => SharedOk' /\ ReachOk' /\ BuiltOk' /\ FirstIdle'
  BY Zenon, TargetsKept, BuiltKept, FirstIdleKept
<1> QED
  BY <1>1, <1>2, PTL DEF Spec

\* A target named in the registry that one call resolved is one target, and
\* workers reach the remote ones, however the calls interleave with each other's
\* copies, registrations and merges and whether the port is free or not; when calls
\* do not overlap, that holds of every target.  Targets that several overlapping
\* calls resolve are outside of it but for the calls that found them in the cache.
THEOREM TargetCorrect == Spec /\ []ParserSound => []TargetShared
BY TargetsHold, TargetsSuffice, PTL

\* No router with a remote target is handed out without a listener unless a bind
\* is under way or some caller got its error, whatever calls race for the first
\* bind and whether another process holds the port or releases it.
THEOREM ListenerCorrect == Spec /\ []ParserSound => []ListenerUp
BY TargetsHold, ListenerSuffices, PTL
====
