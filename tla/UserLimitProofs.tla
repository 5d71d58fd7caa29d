-------------------------- MODULE UserLimitProofs ---------------------------
(***************************************************************************)
(* Proofs about UserLimit: the types, the exact local count, the cap of    *)
(* one broker, and, for deployments whose brokers have leases before they  *)
(* serve and that do not dispatch a job twice, the strict cap across all   *)
(* brokers.                                                                *)
(***************************************************************************)
EXTENDS UserLimit, Integers, FiniteSetTheorems, TLAPS

\* The jobs that hold a guard on broker b.
Guards(b) == {j \in Jobs : adm[j].at = b /\ adm[j].pc \in Guarded}

\* A job under way is at a broker that is up; a lost one at a broker.
Placed ==
  \A j \in Jobs :
    /\ adm[j].pc \in Guarded \cup {"remote", "lost"} => adm[j].at \in Brokers
    /\ adm[j].pc \in Guarded \cup {"remote"} => alive[adm[j].at] = "up"

\* Only strict admissions rank, only lazy ones count.
ModeOK ==
  \A j \in Jobs :
    /\ adm[j].pc = "rank" => Strict
    /\ adm[j].pc \in {"gated", "count"} => ~Strict /\ setting.shared

\* Without strict mode every count passed the local gate.
GateOK == ~Strict => \A b \in Brokers : counts[b] <= Max

Core == TypeOK /\ setting \in Settings /\ Placed /\ ModeOK /\ CountsExact /\ GateOK

-----------------------------------------------------------------------------
(* Counting *)

Bit(b) == IF b THEN 1 ELSE 0

\* A subset of a finite set is finite and no larger.
LEMMA CardSubset ==
  ASSUME NEW S, NEW T, IsFiniteSet(S), T \subseteq S
  PROVE  /\ IsFiniteSet(T)
         /\ Cardinality(S) \in Nat
         /\ Cardinality(T) \in Nat
         /\ Cardinality(T) <= Cardinality(S)
<1>1. IsFiniteSet(T) /\ Cardinality(T) <= Cardinality(S)
  BY Zenon, FS_Subset
<1> QED
  BY Zenon, <1>1, FS_CardinalityType

\* Two sets that differ in one element at most.
LEMMA CardMove ==
  ASSUME NEW S, NEW T, NEW x, IsFiniteSet(S), S \ {x} = T \ {x}
  PROVE  /\ IsFiniteSet(T)
         /\ Cardinality(S) \in Nat
         /\ Cardinality(T) \in Nat
         /\ Cardinality(T) = Cardinality(S) + Bit(x \in T) - Bit(x \in S)
<1>1. PICK R : R = S \ {x}
  BY Zenon
<1>2. IsFiniteSet(R) /\ Cardinality(R) = IF x \in S THEN Cardinality(S) - 1 ELSE Cardinality(S)
  BY Zenon, <1>1, FS_RemoveElement
<1>3. x \notin R /\ T = IF x \in T THEN R \cup {x} ELSE R
  BY Zenon, <1>1
<1>4. IsFiniteSet(T) /\ Cardinality(T) = IF x \in T THEN Cardinality(R) + 1 ELSE Cardinality(R)
  BY <1>2, <1>3, FS_AddElement
<1>5. Cardinality(S) \in Nat /\ Cardinality(T) \in Nat /\ Cardinality(R) \in Nat
  BY Zenon, <1>2, <1>4, FS_CardinalityType
<1> QED
  BY <1>2, <1>4, <1>5 DEF Bit

-----------------------------------------------------------------------------
(* The deployments the strict cap is about *)

Steady == setting.late = {} /\ ~setting.redispatch

\* A broker that serves has a lease, and a sweep knows all that serve.
FleetOK ==
  \A b \in Brokers :
    /\ alive[b] # "off"
    /\ alive[b] = "up" => b \in lease
    /\ reclaim[b].pc = "sweep" => \A c \in Brokers : alive[c] = "up" => c \in reclaim[b].live

\* A release is only under way for a job that is through.
ReleasesOK ==
  \A b \in Brokers : \A j \in releases[b] : adm[j].pc \in {"remote", "lost", "over"}

\* A job that has not reserved has no entry, one that has and whose store calls
\* do not fail has its own.
EntriesOK ==
  \A j \in Jobs :
    /\ adm[j].pc \in {"new", "gated"} => entry[j].seq = 0
    /\ (setting.shared /\ j \notin setting.flaky /\ adm[j].pc \in {"rank", "count", "held"}) =>
         /\ entry[j].seq # 0 /\ entry[j].owner = adm[j].at
         /\ Strict => adm[j].seq = entry[j].seq

\* Sequence numbers are given out in order and to one entry each.
SeqsOK ==
  /\ \A j \in Jobs : entry[j].seq <= user_seq
  /\ \A j, k \in Jobs : j # k /\ entry[j].seq = entry[k].seq => entry[j].seq = 0

\* The entries before that of job j.
Before(j) == {k \in Entries : entry[k].seq < entry[j].seq}

\* An admitted job has fewer than max entries before its own.
RankOK ==
  Strict => \A j \in Held \ setting.flaky : Cardinality(Before(j)) < Max

Shared == FleetOK /\ ReleasesOK /\ EntriesOK /\ SeqsOK /\ RankOK

IInv == Core /\ (Steady => Shared)

-----------------------------------------------------------------------------
(* Counting guards *)

\* The guards of a broker are finite in number.
LEMMA GuardsFinite ==
  ASSUME NEW b
  PROVE  IsFiniteSet(Guards(b)) /\ Cardinality(Guards(b)) \in Nat
<1>1. Guards(b) \subseteq Jobs /\ IsFiniteSet(Jobs)
  BY Zenon, LimitAssumption DEF Guards
<1> QED
  BY Zenon, <1>1, CardSubset

\* Steps that neither create nor drop a guard leave the counts exact.
LEMMA CountsKept ==
  ASSUME CountsExact, UNCHANGED counts,
         \A j \in Jobs : \A b \in Brokers :
           (adm'[j].at = b /\ adm'[j].pc \in Guarded) <=> (adm[j].at = b /\ adm[j].pc \in Guarded)
  PROVE  CountsExact'
BY DEF CountsExact

\* incr_local with the guard it is for.
LEMMA CountsIn ==
  ASSUME TypeOK, CountsExact, NEW j \in Jobs, NEW b \in Brokers, adm[j].pc = "new",
         NEW pc \in Guarded, NEW seq,
         adm' = [adm EXCEPT ![j] = [pc |-> pc, at |-> b, seq |-> seq]], Incr(b)
  PROVE  CountsExact' /\ counts' \in [Brokers -> Nat]
<1>1. counts' = [counts EXCEPT ![b] = counts[b] + 1] /\ counts \in [Brokers -> Nat]
      /\ adm \in [Jobs -> Admission]
  BY Zenon DEF Incr, TypeOK
<1>2. \A k \in Jobs : k # j => adm'[k] = adm[k]
  BY Zenon, <1>1
<1>3. adm'[j].at = b /\ adm'[j].pc = pc
  BY Zenon, <1>1
<1>4. ASSUME NEW c \in Brokers PROVE counts'[c] = Cardinality(Guards(c)')
  <2>1. Guards(c) \ {j} = Guards(c)' \ {j}
    BY Zenon, <1>2 DEF Guards
  <2>2. Cardinality(Guards(c)') = Cardinality(Guards(c)) + Bit(j \in Guards(c)') - Bit(j \in Guards(c))
    BY Zenon, <2>1, GuardsFinite, CardMove
  <2>3. j \notin Guards(c)
    BY Zenon DEF Guards, Guarded
  <2>4. j \in Guards(c)' <=> c = b
    BY Zenon, <1>3 DEF Guards
  <2>5. counts[c] = Cardinality(Guards(c)) /\ counts[c] \in Nat
    BY Zenon, <1>1 DEF CountsExact, Guards
  <2> QED
    BY <1>1, <2>2, <2>3, <2>4, <2>5 DEF Bit
<1> QED
  BY <1>1, <1>4 DEF CountsExact, Guards

\* Dropping a guard: the saturating decrement never saturates.
LEMMA CountsOut ==
  ASSUME TypeOK, CountsExact, NEW j \in Jobs, adm[j].pc \in Guarded, adm[j].at \in Brokers,
         NEW pc, pc \notin Guarded,
         adm' = [adm EXCEPT ![j].pc = pc], DropGuard(j)
  PROVE  /\ CountsExact' /\ counts' \in [Brokers -> Nat]
         /\ \A c \in Brokers : counts'[c] <= counts[c]
<1> DEFINE b == adm[j].at
<1>1. counts \in [Brokers -> Nat] /\ adm \in [Jobs -> Admission]
  BY Zenon DEF TypeOK
<1>2. \A k \in Jobs : k # j => adm'[k] = adm[k]
  BY Zenon, <1>1
<1>3. adm'[j].pc = pc
  BY Zenon, <1>1 DEF Admission
<1>4. ASSUME NEW c \in Brokers
      PROVE  counts'[c] = Cardinality(Guards(c)') /\ counts'[c] <= counts[c] /\ counts'[c] \in Nat
  <2>1. Guards(c) \ {j} = Guards(c)' \ {j}
    BY Zenon, <1>2 DEF Guards
  <2>2. Cardinality(Guards(c)') = Cardinality(Guards(c)) + Bit(j \in Guards(c)') - Bit(j \in Guards(c))
        /\ Cardinality(Guards(c)') \in Nat
    BY Zenon, <2>1, GuardsFinite, CardMove
  <2>3. j \notin Guards(c)'
    BY Zenon, <1>3 DEF Guards
  <2>4. j \in Guards(c) <=> c = b
    BY Zenon DEF Guards
  <2>5. counts[c] = Cardinality(Guards(c)) /\ counts[c] \in Nat
    BY Zenon, <1>1 DEF CountsExact, Guards
  <2>6. counts'[c] = IF c = b THEN (IF counts[c] = 0 THEN 0 ELSE counts[c] - 1) ELSE counts[c]
    BY Zenon, <1>1 DEF DropGuard
  <2> QED
    BY <2>2, <2>3, <2>4, <2>5, <2>6 DEF Bit
<1>5. counts' \in [Brokers -> Nat]
  BY <1>1 DEF DropGuard
<1> QED
  BY Zenon, <1>4, <1>5 DEF CountsExact, Guards

-----------------------------------------------------------------------------
(* Core: each action *)

\* The initial states satisfy the invariant.
LEMMA InitInv == Init => IInv
<1> SUFFICES ASSUME Init PROVE IInv
  BY Zenon
<1>1. /\ setting \in Settings /\ setting.late \subseteq Brokers
      /\ NoBroker \notin Brokers /\ Max \in Nat
  BY Zenon, LimitAssumption DEF Init
<1>2. TypeOK
  BY Zenon, <1>1 DEF Init, TypeOK, Entry, NoEntry, Admission, AdmPc, Cached, Reclaim
<1>3. Placed /\ ModeOK
  BY Zenon DEF Init, Placed, ModeOK, Guarded
<1>4. \A b \in Brokers : Guards(b) = {}
  BY Zenon DEF Init, Guards, Guarded
<1>5. CountsExact /\ GateOK
  <2>1. \A b \in Brokers : counts[b] = 0
    BY Zenon DEF Init
  <2>2. \A b \in Brokers : counts[b] = Cardinality(Guards(b))
    BY Zenon, <1>4, <2>1, FS_EmptySet
  <2> QED
    BY <1>1, <2>1, <2>2 DEF CountsExact, GateOK, Guards
<1>6. ASSUME Steady PROVE Shared
  <2>1. FleetOK
    BY Zenon, <1>6 DEF Init, Steady, FleetOK
  <2>2. ReleasesOK
    BY Zenon DEF Init, ReleasesOK
  <2>3. EntriesOK
    BY Zenon DEF Init, EntriesOK, NoEntry
  <2>4. SeqsOK
    BY DEF Init, SeqsOK, NoEntry
  <2>5. Held = {}
    BY Zenon DEF Init, Held
  <2> QED
    BY Zenon, <2>1, <2>2, <2>3, <2>4, <2>5 DEF Shared, RankOK
<1> QED
  BY Zenon, <1>1, <1>2, <1>3, <1>5, <1>6 DEF IInv, Core

\* reserve_user_slot keeps the types of the store.
LEMMA ReserveType ==
  ASSUME TypeOK, NEW j \in Jobs, NEW b \in Brokers,
         ReserveSlot(j, b) \/ UNCHANGED <<entry, user_seq>>
  PROVE  entry' \in [Jobs -> Entry] /\ user_seq' \in Nat /\ ReservedSeq(j) \in Nat
<1>1. entry \in [Jobs -> Entry] /\ user_seq \in Nat /\ user_seq + 1 \in Nat
  BY DEF TypeOK
<1>2. ReservedSeq(j) \in Nat
  BY Zenon, <1>1 DEF ReservedSeq, Entry
<1>3. [seq |-> user_seq + 1, owner |-> b] \in Entry
  BY Zenon, <1>1 DEF Entry
<1>4. entry' \in [Jobs -> Entry] /\ user_seq' \in Nat
  BY Zenon, <1>1, <1>3 DEF ReserveSlot
<1> QED
  BY Zenon, <1>2, <1>4

\* A job that starts its admission.
LEMMA StartCore ==
  ASSUME Core, NEW j \in Jobs, NEW b \in Brokers,
         StrictReserve(j, b) \/ StrictReserveFails(j, b) \/ LocalGate(j, b)
  PROVE  Core'
<1>1. PICK pc \in {"rank", "gated", "held"}, seq \in Nat :
        /\ adm' = [adm EXCEPT ![j] = [pc |-> pc, at |-> b, seq |-> seq]]
        /\ pc = "rank" => Strict
        /\ pc = "gated" => ~Strict /\ setting.shared
  <2>1. CASE StrictReserve(j, b)
    <3>1. ReservedSeq(j) \in Nat
      BY Zenon, <2>1, ReserveType DEF Core, StrictReserve
    <3> QED
      BY Zenon, <2>1, <3>1 DEF StrictReserve
  <2>2. CASE StrictReserveFails(j, b)
    BY Zenon, <2>2 DEF StrictReserveFails
  <2>3. CASE LocalGate(j, b)
    BY Zenon, <2>3 DEF LocalGate
  <2> QED
    BY Zenon, <2>1, <2>2, <2>3
<1>2. /\ adm[j].pc = "new" /\ alive[b] = "up" /\ Incr(b)
      /\ ~Strict => counts[b] < Max
      /\ UNCHANGED <<setting, alive, lease, cached, releases, reclaim>>
      /\ entry' \in [Jobs -> Entry] /\ user_seq' \in Nat
  BY Zenon, ReserveType DEF Core, StrictReserve, StrictReserveFails, LocalGate
<1>3. CountsExact' /\ counts' \in [Brokers -> Nat]
  BY Zenon, <1>1, <1>2, CountsIn DEF Core, Guarded
<1>4. adm' \in [Jobs -> Admission]
  BY Zenon, <1>1 DEF Core, TypeOK, Admission, AdmPc
<1>5. TypeOK'
  BY Zenon, <1>2, <1>3, <1>4 DEF Core, TypeOK
<1>6. Placed' /\ ModeOK'
  BY Zenon, <1>1, <1>2 DEF Core, TypeOK, Placed, ModeOK, Strict, Guarded
<1>7. GateOK'
  BY <1>2, LimitAssumption DEF Core, TypeOK, GateOK, Strict, Incr
<1> QED
  BY Zenon, <1>2, <1>3, <1>5, <1>6, <1>7 DEF Core

\* A job whose guard moves on with it.
LEMMA MoveCore ==
  ASSUME Core, NEW j \in Jobs, adm[j].pc \in Guarded,
         NEW pc \in {"count", "held"}, adm' = [adm EXCEPT ![j].pc = pc],
         pc = "count" => ~Strict /\ setting.shared,
         UNCHANGED <<setting, alive, lease, counts, releases, reclaim>>,
         entry' \in [Jobs -> Entry], user_seq' \in Nat, cached' \in [Brokers -> Cached]
  PROVE  Core'
<1>1. adm \in [Jobs -> Admission]
  BY Zenon DEF Core, TypeOK
<1>2. \A k \in Jobs : adm'[k] = IF k = j THEN [adm[j] EXCEPT !.pc = pc] ELSE adm[k]
  BY Zenon, <1>1
<1>3. adm'[j].pc = pc /\ adm'[j].at = adm[j].at
  BY Zenon, <1>1, <1>2 DEF Admission
<1>4. adm' \in [Jobs -> Admission]
  BY ZenonT(100), <1>1 DEF Admission, AdmPc
<1>5. TypeOK'
  BY Zenon, <1>4 DEF Core, TypeOK
<1>6. Placed' /\ ModeOK'
  BY <1>2, <1>3 DEF Core, Placed, ModeOK, Strict, Guarded
<1>7. CountsExact'
  BY ZenonT(100), <1>2, <1>3, CountsKept DEF Core, Guarded
<1> QED
  BY Zenon, <1>5, <1>6, <1>7 DEF Core, GateOK, Strict

\* A job whose guard is dropped.
LEMMA DropCore ==
  ASSUME Core, NEW j \in Jobs, adm[j].pc \in Guarded,
         NEW pc \in {"remote", "over"}, adm' = [adm EXCEPT ![j].pc = pc], DropGuard(j),
         UNCHANGED <<setting, alive, lease, entry, user_seq, reclaim>>,
         cached' \in [Brokers -> Cached]
  PROVE  Core'
<1>1. adm \in [Jobs -> Admission] /\ adm[j].at \in Brokers
  BY Zenon DEF Core, TypeOK, Placed
<1>2. \A k \in Jobs : adm'[k] = IF k = j THEN [adm[j] EXCEPT !.pc = pc] ELSE adm[k]
  BY Zenon, <1>1
<1>3. adm'[j].pc = pc /\ adm'[j].at = adm[j].at
  BY ZenonT(100), <1>1, <1>2 DEF Admission
<1>4. adm' \in [Jobs -> Admission]
  BY ZenonT(100), <1>1 DEF Admission, AdmPc
<1>5. /\ CountsExact' /\ counts' \in [Brokers -> Nat]
      /\ \A c \in Brokers : counts'[c] <= counts[c]
  BY Zenon, <1>1, CountsOut DEF Core, Guarded
<1>6. releases' \in [Brokers -> SUBSET Jobs]
  <2>1. releases \in [Brokers -> SUBSET Jobs]
    BY Zenon DEF Core, TypeOK
  <2>2. releases' = releases \/ releases' = [releases EXCEPT ![adm[j].at] = @ \cup {j}]
    BY Zenon DEF DropGuard
  <2> QED
    BY SMTT(60), <1>1, <2>1, <2>2
<1>7. TypeOK'
  BY Zenon, <1>4, <1>5, <1>6 DEF Core, TypeOK
<1>8. Placed' /\ ModeOK'
  BY <1>2, <1>3 DEF Core, Placed, ModeOK, Strict, Guarded
<1>9. GateOK'
  <2>1. counts \in [Brokers -> Nat] /\ Max \in Nat
    BY Zenon, LimitAssumption DEF Core, TypeOK
  <2> QED
    BY <1>5, <2>1 DEF Core, GateOK, Strict
<1> QED
  BY Zenon, <1>5, <1>7, <1>8, <1>9 DEF Core

\* The decisions of admit: the guard stays or is dropped.
LEMMA DecideCore ==
  ASSUME Core, NEW j \in Jobs, StrictDecide(j) \/ LazyDecide(j)
  PROVE  Core'
<1>1. cached \in [Brokers -> Cached] /\ Max \in Nat
  BY Zenon, LimitAssumption DEF Core, TypeOK
<1>2. CASE StrictDecide(j)
  <2>1. CASE adm' = [adm EXCEPT ![j].pc = "held"] /\ UNCHANGED <<counts, releases>>
    BY Zenon, <1>1, <1>2, <2>1, MoveCore DEF StrictDecide, Guarded, Core, TypeOK
  <2>2. CASE adm' = [adm EXCEPT ![j].pc = "over"] /\ DropGuard(j)
    BY Zenon, <1>1, <1>2, <2>2, DropCore DEF StrictDecide, Guarded
  <2> QED
    BY Zenon, <1>2, <2>1, <2>2 DEF StrictDecide
<1>3. CASE LazyDecide(j)
  <2>1. Cardinality(Entries) \in Nat
    BY Zenon, LimitAssumption, CardSubset DEF Entries
  <2>2. adm[j].at \in Brokers
    BY Zenon, <1>3 DEF LazyDecide, Core, Placed, Guarded
  <2>3. cached' \in [Brokers -> Cached]
    <3> DEFINE synced == IF cached[adm[j].at].fresh THEN cached[adm[j].at].n ELSE Cardinality(Entries)
    <3>1. synced \in Nat
      BY Zenon, <1>1, <2>1, <2>2 DEF Cached
    <3>2. [n |-> synced, fresh |-> TRUE] \in Cached
      BY Zenon, <3>1 DEF Cached
    <3>3. \/ cached' = [cached EXCEPT ![adm[j].at] = [n |-> synced, fresh |-> TRUE]]
          \/ cached' = cached
      BY Zenon, <1>3 DEF LazyDecide
    <3> HIDE DEF synced
    <3> QED
      BY Zenon, <1>1, <2>2, <3>2, <3>3
  <2>4. /\ adm[j].pc \in Guarded
        /\ UNCHANGED <<setting, alive, lease, entry, user_seq, reclaim>>
        /\ entry' \in [Jobs -> Entry] /\ user_seq' \in Nat
    BY Zenon, <1>3 DEF LazyDecide, Guarded, Core, TypeOK
  <2>5. CASE adm' = [adm EXCEPT ![j].pc = "held"] /\ UNCHANGED <<counts, releases>>
    BY Zenon, <2>3, <2>4, <2>5, MoveCore
  <2>6. CASE adm' = [adm EXCEPT ![j].pc = "over"] /\ DropGuard(j)
    BY Zenon, <2>3, <2>4, <2>6, DropCore
  <2> QED
    BY Zenon, <1>3, <2>5, <2>6 DEF LazyDecide
<1> QED
  BY Zenon, <1>2, <1>3

\* The lazy reserve, or its failure, moves the job on with its guard.
LEMMA LazyReserveCore ==
  ASSUME Core, NEW j \in Jobs, LazyReserve(j)
  PROVE  Core'
<1>1. adm[j].at \in Brokers /\ adm[j].pc \in Guarded
  BY Zenon DEF LazyReserve, Core, Placed, Guarded
<1>2. entry' \in [Jobs -> Entry] /\ user_seq' \in Nat
  BY Zenon, <1>1, ReserveType DEF LazyReserve, Core
<1>3. ~Strict /\ setting.shared
  BY Zenon DEF LazyReserve, Core, ModeOK
<1>4. cached' \in [Brokers -> Cached]
  BY Zenon DEF LazyReserve, Core, TypeOK
<1>5. CASE adm' = [adm EXCEPT ![j].pc = "count"]
  BY Zenon, <1>1, <1>2, <1>3, <1>4, <1>5, MoveCore DEF LazyReserve
<1>6. CASE adm' = [adm EXCEPT ![j].pc = "held"]
  BY Zenon, <1>1, <1>2, <1>4, <1>6, MoveCore DEF LazyReserve
<1> QED
  BY Zenon, <1>5, <1>6 DEF LazyReserve

\* The steps of a job that was admitted.
LEMMA JobCore ==
  ASSUME Core, NEW j \in Jobs, JobStep(j)
  PROVE  Core'
<1>1. CASE Finish(j) \/ PickUp(j)
  <2>1. cached' \in [Brokers -> Cached]
    BY Zenon, <1>1 DEF Finish, PickUp, Core, TypeOK
  <2>2. CASE Finish(j)
    BY Zenon, <2>1, <2>2, DropCore DEF Finish, Guarded
  <2>3. CASE PickUp(j)
    BY Zenon, <2>1, <2>3, DropCore DEF PickUp, Guarded
  <2> QED
    BY Zenon, <1>1, <2>2, <2>3
<1>2. CASE RemoteFinish(j) \/ Recover(j)
  <2>1. /\ adm \in [Jobs -> Admission] /\ adm[j].pc \in {"remote", "lost"}
        /\ UNCHANGED <<setting, alive, lease, entry, user_seq, counts, cached, releases, reclaim>>
    BY Zenon, <1>2 DEF RemoteFinish, Recover, Core, TypeOK
  <2>2. PICK pc \in {"over", "new"}, at \in Brokers \cup {NoBroker}, seq \in Nat :
          adm' = [adm EXCEPT ![j] = [pc |-> pc, at |-> at, seq |-> seq]]
    <3>1. CASE RemoteFinish(j)
      <4>1. [adm[j] EXCEPT !.pc = "over"] = [pc |-> "over", at |-> adm[j].at, seq |-> adm[j].seq]
        BY <2>1 DEF Admission
      <4>2. adm[j].at \in Brokers \cup {NoBroker} /\ adm[j].seq \in Nat
        BY Zenon, <2>1 DEF Admission
      <4>3. adm' = [adm EXCEPT ![j] = [pc |-> "over", at |-> adm[j].at, seq |-> adm[j].seq]]
        BY Zenon, <3>1, <4>1 DEF RemoteFinish
      <4> QED
        BY Zenon, <4>2, <4>3
    <3>2. CASE Recover(j)
      BY Zenon, <3>2 DEF Recover
    <3> QED
      BY Zenon, <1>2, <3>1, <3>2
  <2>3. adm' \in [Jobs -> Admission]
    BY Zenon, <2>1, <2>2 DEF Admission, AdmPc
  <2>4. TypeOK'
    BY Zenon, <2>1, <2>3 DEF Core, TypeOK
  <2>5. Placed' /\ ModeOK'
    BY Zenon, <2>1, <2>2 DEF Core, Placed, ModeOK, Strict, Guarded
  <2>6. CountsExact'
    BY Zenon, <2>1, <2>2, CountsKept DEF Core, Guarded
  <2> QED
    BY Zenon, <2>1, <2>4, <2>5, <2>6 DEF Core, GateOK, Strict
<1> QED
  BY Zenon, <1>1, <1>2 DEF JobStep

\* A broker that dies takes its guards with it.
LEMMA CrashCore ==
  ASSUME Core, NEW b \in Brokers, Crash(b)
  PROVE  Core'
<1>1. adm \in [Jobs -> Admission] /\ counts \in [Brokers -> Nat]
  BY Zenon DEF Core, TypeOK
<1>2. adm' \in [Jobs -> Admission]
  BY ZenonT(100), <1>1 DEF Crash, Admission, AdmPc
<1>3. \A j \in Jobs :
        /\ adm'[j].at = adm[j].at
        /\ adm[j].at = b => adm'[j].pc \notin Guarded \cup {"remote"}
        /\ adm[j].at # b => adm'[j] = adm[j]
        /\ adm'[j].pc \in {"lost", adm[j].pc}
        /\ adm'[j].pc = "lost" => adm[j].pc \in Guarded \cup {"remote", "lost"}
  BY Zenon, <1>1 DEF Crash, Admission, Guarded
<1>4. TypeOK'
  BY Zenon, <1>2 DEF Crash, Core, TypeOK, Cached, Reclaim
<1>5. Placed' /\ ModeOK'
  BY <1>1, <1>3 DEF Crash, Core, TypeOK, Placed, ModeOK, Strict, Guarded
<1>6. ASSUME NEW c \in Brokers PROVE counts'[c] = Cardinality(Guards(c)') /\ counts'[c] <= counts[c]
  <2>1. CASE c = b
    <3>1. Guards(c)' = {}
      BY Zenon, <1>3, <2>1 DEF Guards
    <3> QED
      BY <1>1, <2>1, <3>1, FS_EmptySet DEF Crash
  <2>2. CASE c # b
    <3>1. Guards(c)' = Guards(c)
      BY Zenon, <1>3, <2>2 DEF Guards
    <3>2. counts[c] = Cardinality(Guards(c))
      BY Zenon DEF Core, CountsExact, Guards
    <3> QED
      BY <1>1, <2>2, <3>1, <3>2 DEF Crash
  <2> QED
    BY Zenon, <2>1, <2>2
<1>7. CountsExact'
  BY Zenon, <1>6 DEF CountsExact, Guards
<1>8. GateOK'
  <2>1. counts' \in [Brokers -> Nat] /\ Max \in Nat
    BY Zenon, <1>4, LimitAssumption DEF TypeOK
  <2> QED
    BY <1>1, <1>6, <2>1 DEF Core, GateOK, Strict, Crash
<1> QED
  BY Zenon, <1>4, <1>5, <1>7, <1>8 DEF Core, Crash

\* The other steps of brokers do not touch admissions.
LEMMA BrokerCore ==
  ASSUME Core, NEW b \in Brokers, BrokerStep(b)
  PROVE  Core'
<1>1. CASE Crash(b)
  BY Zenon, <1>1, CrashCore
<1>2. CASE ~Crash(b)
  <2>1. UNCHANGED <<setting, adm, counts>>
    BY Zenon, <1>2 DEF BrokerStep, CacheExpires, StartBroker, FirstHeartbeat, LeaseExpires,
                ReclaimScan, ReclaimSweep, ReleaseLands
  <2>2. \A c \in Brokers : alive[c] = "up" => alive'[c] = "up"
    BY Zenon, <1>2 DEF BrokerStep, CacheExpires, StartBroker, FirstHeartbeat, LeaseExpires,
                ReclaimScan, ReclaimSweep, ReleaseLands, Core, TypeOK
  <2>3. TypeOK'
    <3>1. NoEntry \in Entry
      BY Zenon DEF NoEntry, Entry
    <3>2. CASE CacheExpires(b)
      BY Zenon, <3>2 DEF CacheExpires, Core, TypeOK, Cached
    <3>3. CASE StartBroker(b) \/ FirstHeartbeat(b) \/ LeaseExpires(b)
      BY Zenon, <3>3 DEF StartBroker, FirstHeartbeat, LeaseExpires, Core, TypeOK
    <3>4. CASE ReclaimScan(b)
      BY Zenon, <3>4 DEF ReclaimScan, Core, TypeOK, Reclaim
    <3>5. CASE ReclaimSweep(b)
      <4>1. entry' \in [Jobs -> Entry]
        BY Zenon, <3>1, <3>5 DEF ReclaimSweep, Core, TypeOK
      <4>2. reclaim' \in [Brokers -> Reclaim]
        BY Zenon, <3>5 DEF ReclaimSweep, Core, TypeOK, Reclaim
      <4> QED
        BY Zenon, <3>5, <4>1, <4>2 DEF ReclaimSweep, Core, TypeOK
    <3>6. CASE \E j \in Jobs : ReleaseLands(b, j)
      BY <3>1, <3>6 DEF ReleaseLands, Core, TypeOK
    <3> QED
      BY Zenon, <1>2, <3>2, <3>3, <3>4, <3>5, <3>6 DEF BrokerStep
  <2>4. Placed' /\ ModeOK'
    BY Zenon, <2>1, <2>2 DEF Core, Placed, ModeOK, Strict, Guarded
  <2>5. CountsExact'
    BY Zenon, <2>1, CountsKept DEF Core
  <2> QED
    BY Zenon, <2>1, <2>3, <2>4, <2>5 DEF Core, GateOK, Strict
<1> QED
  BY Zenon, <1>1, <1>2

-----------------------------------------------------------------------------
(* Shared: each action, in a steady deployment *)

\* No later entry comes before that of an admitted job, so its rank only falls.
LEMMA RankKept ==
  ASSUME TypeOK, RankOK, SeqsOK, UNCHANGED setting,
         \A j \in Jobs : adm'[j].pc = "held" /\ j \notin setting.flaky =>
                          adm[j].pc = "held" /\ entry'[j] = entry[j],
         entry' \in [Jobs -> Entry],
         \A k \in Jobs : \/ entry'[k].seq = 0
                         \/ entry'[k].seq = entry[k].seq
                         \/ entry'[k].seq > user_seq
  PROVE  RankOK'
<1>1. entry \in [Jobs -> Entry] /\ user_seq \in Nat /\ Max \in Nat
  BY Zenon, LimitAssumption DEF TypeOK
<1> SUFFICES ASSUME Strict, NEW j \in Jobs, adm'[j].pc = "held", j \notin setting.flaky
             PROVE  Cardinality(Before(j)') < Max
  BY Zenon DEF RankOK, Held, Strict
<1>2. Cardinality(Before(j)) < Max
  BY Zenon DEF RankOK, Held
<1>3. entry'[j] = entry[j] /\ entry[j].seq \in Nat /\ entry[j].seq <= user_seq
  BY Zenon, <1>1 DEF Entry, SeqsOK
<1>4. Before(j)' \subseteq Before(j)
  <2> SUFFICES ASSUME NEW k \in Jobs, entry'[k].seq # 0, entry'[k].seq < entry'[j].seq
               PROVE  entry[k].seq # 0 /\ entry[k].seq < entry[j].seq
    BY Zenon DEF Before, Entries
  <2>1. CASE entry'[k].seq = entry[k].seq
    BY Zenon, <1>3, <2>1
  <2>2. CASE entry'[k].seq > user_seq
    <3>1. entry'[k].seq \in Nat
      BY Zenon DEF Entry
    <3> QED
      BY <1>1, <1>3, <2>2, <3>1
  <2> QED
    BY Zenon, <2>1, <2>2
<1>5. IsFiniteSet(Before(j))
  BY Zenon, LimitAssumption, CardSubset DEF Before, Entries
<1>6. /\ Cardinality(Before(j)) \in Nat /\ Cardinality(Before(j)') \in Nat
      /\ Cardinality(Before(j)') <= Cardinality(Before(j))
  BY Zenon, <1>4, <1>5, CardSubset
<1> QED
  BY <1>1, <1>2, <1>6

\* reserve_user_slot for a job without an entry: the entry is new and last.
LEMMA ReserveNew ==
  ASSUME TypeOK, SeqsOK, NEW j \in Jobs, NEW b \in Brokers, entry[j].seq = 0,
         ReserveSlot(j, b) \/ UNCHANGED <<entry, user_seq>>
  PROVE  /\ SeqsOK'
         /\ \A k \in Jobs : k # j => entry'[k] = entry[k]
         /\ \A k \in Jobs : \/ entry'[k].seq = entry[k].seq
                            \/ entry'[k].seq > user_seq
         /\ ReserveSlot(j, b) =>
              /\ entry'[j] = [seq |-> user_seq + 1, owner |-> b]
              /\ ReservedSeq(j) = user_seq + 1
<1>1. entry \in [Jobs -> Entry] /\ user_seq \in Nat /\ j \notin Entries
  BY Zenon DEF TypeOK, Entries
<1>2. \A k \in Jobs : entry[k].seq \in Nat
  BY Zenon, <1>1 DEF Entry
<1>3. CASE UNCHANGED <<entry, user_seq>>
  <2>1. ~ReserveSlot(j, b)
    BY <1>1, <1>3 DEF ReserveSlot
  <2> QED
    BY Zenon, <1>3, <2>1 DEF SeqsOK
<1>4. CASE ReserveSlot(j, b)
  <2>1. user_seq' = user_seq + 1 /\ entry' = [entry EXCEPT ![j] = [seq |-> user_seq + 1, owner |-> b]]
    BY Zenon, <1>1, <1>4 DEF ReserveSlot
  <2>2. /\ entry'[j] = [seq |-> user_seq + 1, owner |-> b]
        /\ \A k \in Jobs : k # j => entry'[k] = entry[k]
    BY Zenon, <1>1, <2>1
  <2>3. ReservedSeq(j) = user_seq + 1
    BY Zenon, <1>1 DEF ReservedSeq
  <2>4. entry'[j].seq > user_seq
    BY <1>1, <2>2
  <2>5. SeqsOK'
    BY <1>1, <1>2, <2>1, <2>2 DEF SeqsOK
  <2> QED
    BY Zenon, <2>2, <2>3, <2>4, <2>5
<1> QED
  BY Zenon, <1>3, <1>4

\* A job that starts its admission.
LEMMA StartShared ==
  ASSUME Core, Steady, Shared, NEW j \in Jobs, NEW b \in Brokers,
         StrictReserve(j, b) \/ StrictReserveFails(j, b) \/ LocalGate(j, b)
  PROVE  Shared'
<1> USE DEF Shared, Core
<1>1. /\ adm[j].pc = "new" /\ UNCHANGED <<setting, alive, lease, releases, reclaim>>
      /\ ReserveSlot(j, b) \/ UNCHANGED <<entry, user_seq>>
      /\ adm \in [Jobs -> Admission]
  BY Zenon DEF StrictReserve, StrictReserveFails, LocalGate, TypeOK
<1>2. entry[j].seq = 0
  BY Zenon, <1>1 DEF EntriesOK
<1>3. /\ SeqsOK' /\ \A k \in Jobs : k # j => entry'[k] = entry[k]
      /\ \A k \in Jobs : entry'[k].seq = entry[k].seq \/ entry'[k].seq > user_seq
      /\ ReserveSlot(j, b) =>
           entry'[j] = [seq |-> user_seq + 1, owner |-> b] /\ ReservedSeq(j) = user_seq + 1
  BY Zenon, <1>1, <1>2, ReserveNew
<1>4. /\ \A k \in Jobs : k # j => adm'[k] = adm[k]
      /\ \/ StrictReserve(j, b) /\ Strict /\ adm'[j] = [pc |-> "rank", at |-> b, seq |-> ReservedSeq(j)]
         \/ StrictReserveFails(j, b) /\ j \in setting.flaky /\ adm'[j].pc = "held"
         \/ LocalGate(j, b) /\ ~Strict /\ adm'[j].pc = (IF setting.shared THEN "gated" ELSE "held")
  BY <1>1 DEF StrictReserve, StrictReserveFails, LocalGate
<1>5. FleetOK'
  BY Zenon, <1>1 DEF FleetOK
<1>6. ReleasesOK'
  BY Zenon, <1>1, <1>4 DEF ReleasesOK, TypeOK
<1>7. EntriesOK'
  <2>1. ASSUME NEW k \in Jobs, k # j
        PROVE  adm'[k] = adm[k] /\ entry'[k] = entry[k]
    BY Zenon, <1>3, <1>4, <2>1
  <2>2. CASE StrictReserve(j, b) /\ Strict /\ adm'[j] = [pc |-> "rank", at |-> b, seq |-> ReservedSeq(j)]
    <3>1. entry'[j].seq = user_seq + 1 /\ entry'[j].owner = b /\ adm'[j].seq = user_seq + 1
          /\ adm'[j].pc = "rank" /\ adm'[j].at = b /\ user_seq + 1 # 0
      BY <1>3, <2>2 DEF StrictReserve, TypeOK
    <3> QED
      BY ZenonT(100), <1>1, <2>1, <3>1 DEF EntriesOK, Strict
  <2>3. CASE StrictReserveFails(j, b) /\ j \in setting.flaky /\ adm'[j].pc = "held"
    BY ZenonT(100), <1>1, <2>1, <2>3 DEF EntriesOK, Strict
  <2>4. CASE LocalGate(j, b) /\ ~Strict /\ adm'[j].pc = (IF setting.shared THEN "gated" ELSE "held")
    <3>1. entry'[j].seq = 0
      BY Zenon, <1>2, <2>4 DEF LocalGate
    <3> QED
      BY ZenonT(60), <1>1, <2>1, <2>4, <3>1 DEF EntriesOK, Strict
  <2> QED
    BY Zenon, <1>4, <2>2, <2>3, <2>4
<1>8. RankOK'
  <2>1. CASE ~Strict
    BY Zenon, <1>1, <2>1 DEF RankOK, Strict
  <2>2. CASE Strict
    <3>1. \A k \in Jobs : adm'[k].pc = "held" /\ k \notin setting.flaky =>
                          adm[k].pc = "held" /\ entry'[k] = entry[k]
      BY <1>3, <1>4, <2>2
    <3>2. entry' \in [Jobs -> Entry]
      BY Zenon, <1>1, ReserveType
    <3> QED
      BY ZenonT(100), <1>1, <1>3, <3>1, <3>2, RankKept
  <2> QED
    BY Zenon, <2>1, <2>2
<1> QED
  BY Zenon, <1>3, <1>5, <1>6, <1>7, <1>8

\* A job whose guard is dropped.
LEMMA DropShared ==
  ASSUME Core, Shared, NEW j \in Jobs, adm[j].pc \in Guarded,
         NEW pc \in {"remote", "over"}, adm' = [adm EXCEPT ![j].pc = pc], DropGuard(j),
         UNCHANGED <<setting, alive, lease, entry, user_seq, reclaim>>
  PROVE  Shared'
<1> USE DEF Shared, Core
<1>1. adm \in [Jobs -> Admission] /\ entry \in [Jobs -> Entry] /\ releases \in [Brokers -> SUBSET Jobs]
      /\ adm[j].at \in Brokers
  BY Zenon DEF TypeOK, Placed
<1>2. adm'[j].pc = pc /\ \A k \in Jobs : k # j => adm'[k] = adm[k]
  BY Zenon, <1>1 DEF Admission
<1>3. FleetOK' /\ SeqsOK'
  BY Zenon DEF FleetOK, SeqsOK
<1>4. ReleasesOK'
  <2>1. \A c \in Brokers : releases'[c] \subseteq releases[c] \cup {j}
    BY Zenon, <1>1 DEF DropGuard
  <2> QED
    BY ZenonT(100), <1>1, <1>2, <2>1 DEF ReleasesOK
<1>5. EntriesOK'
  BY ZenonT(60), <1>2 DEF EntriesOK, Strict
<1>6. RankOK'
  <2>1. \A k \in Jobs : adm'[k].pc = "held" => adm[k].pc = "held" /\ entry'[k] = entry[k]
    BY Zenon, <1>2
  <2> QED
    BY Zenon, <1>1, <2>1, RankKept
<1> QED
  BY Zenon, <1>3, <1>4, <1>5, <1>6

\* The lazy reserve.
LEMMA LazyReserveShared ==
  ASSUME Core, Steady, Shared, NEW j \in Jobs, LazyReserve(j)
  PROVE  Shared'
<1> USE DEF Shared, Core
<1> DEFINE b == adm[j].at
<1>1. /\ adm[j].pc = "gated" /\ UNCHANGED <<setting, alive, lease, releases, reclaim>>
      /\ ReserveSlot(j, b) \/ UNCHANGED <<entry, user_seq>>
      /\ adm \in [Jobs -> Admission] /\ b \in Brokers
  BY Zenon DEF LazyReserve, TypeOK, Placed, Guarded
<1>2. entry[j].seq = 0 /\ ~Strict /\ setting.shared
  BY Zenon, <1>1 DEF EntriesOK, ModeOK
<1>3. /\ SeqsOK' /\ \A k \in Jobs : k # j => entry'[k] = entry[k]
      /\ ReserveSlot(j, b) => entry'[j] = [seq |-> user_seq + 1, owner |-> b]
  <2> HIDE DEF b
  <2> QED
    BY Zenon, <1>1, <1>2, ReserveNew
<1>4. PICK pc \in {"count", "held"} :
        /\ adm' = [adm EXCEPT ![j].pc = pc]
        /\ j \in setting.flaky \/ ReserveSlot(j, b)
  BY Zenon DEF LazyReserve
<1>5. adm'[j].pc = pc /\ adm'[j].at = b /\ \A k \in Jobs : k # j => adm'[k] = adm[k]
  BY Zenon, <1>1, <1>4 DEF Admission
<1>6. FleetOK' /\ RankOK'
  BY Zenon, <1>1, <1>2 DEF FleetOK, RankOK, Strict
<1>7. ReleasesOK'
  BY Zenon, <1>1, <1>5 DEF ReleasesOK, TypeOK
<1>8. EntriesOK'
  <2>1. ~Strict'
    BY Zenon, <1>1, <1>2 DEF Strict
  <2>2. j \notin setting.flaky => entry'[j].seq # 0 /\ entry'[j].owner = b
    BY <1>3, <1>4 DEF TypeOK
  <2> QED
    BY ZenonT(100), <1>1, <1>3, <1>5, <2>1, <2>2 DEF EntriesOK
<1> QED
  BY Zenon, <1>3, <1>6, <1>7, <1>8

\* The decisions: an admitted strict job has fewer than max entries before it.
LEMMA DecideShared ==
  ASSUME Core, Steady, Shared, NEW j \in Jobs, StrictDecide(j) \/ LazyDecide(j)
  PROVE  Shared'
<1> USE DEF Shared, Core
<1>1. /\ adm[j].pc \in {"rank", "count"} /\ adm[j].pc \in Guarded
      /\ UNCHANGED <<setting, alive, lease, entry, user_seq, reclaim>>
      /\ adm \in [Jobs -> Admission] /\ entry \in [Jobs -> Entry]
  BY Zenon DEF StrictDecide, LazyDecide, Guarded, TypeOK
<1>2. CASE adm' = [adm EXCEPT ![j].pc = "over"] /\ DropGuard(j)
  BY Zenon, <1>1, <1>2, DropShared
<1>3. CASE /\ adm' = [adm EXCEPT ![j].pc = "held"] /\ UNCHANGED releases
           /\ Strict => j \in setting.flaky \/ Rank(j, adm[j].seq) < Max
  <2>1. /\ adm'[j].pc = "held" /\ adm'[j].at = adm[j].at /\ adm'[j].seq = adm[j].seq
        /\ \A k \in Jobs : k # j => adm'[k] = adm[k]
    BY Zenon, <1>1, <1>3 DEF Admission
  <2>2. FleetOK' /\ SeqsOK'
    BY Zenon, <1>1 DEF FleetOK, SeqsOK
  <2>3. ReleasesOK'
    BY Zenon, <1>1, <1>3, <2>1 DEF ReleasesOK, TypeOK
  <2>4. EntriesOK'
    BY ZenonT(100), <1>1, <2>1 DEF EntriesOK, Strict
  <2>5. RankOK'
    <3>1. \A k \in Jobs : Before(k)' = Before(k)
      BY Zenon, <1>1 DEF Before, Entries
    <3>2. Strict /\ j \notin setting.flaky => Cardinality(Before(j)) < Max
      <4>1. Strict /\ j \notin setting.flaky =>
              setting.shared /\ j \in Entries /\ entry[j].seq = adm[j].seq
        BY Zenon, <1>1 DEF EntriesOK, Strict, Entries
      <4> QED
        BY Zenon, <1>3, <4>1 DEF Rank, Before
    <3>3. ASSUME Strict, NEW k \in Jobs, adm'[k].pc = "held", k \notin setting.flaky
          PROVE  Cardinality(Before(k)) < Max
      BY Zenon, <2>1, <3>2, <3>3 DEF RankOK, Held
    <3> QED
      BY Zenon, <1>1, <3>1, <3>3 DEF RankOK, Held, Strict
  <2> QED
    BY Zenon, <2>2, <2>3, <2>4, <2>5
<1>4. \/ adm' = [adm EXCEPT ![j].pc = "over"] /\ DropGuard(j)
      \/ /\ adm' = [adm EXCEPT ![j].pc = "held"] /\ UNCHANGED releases
         /\ Strict => j \in setting.flaky \/ Rank(j, adm[j].seq) < Max
  <2>1. CASE StrictDecide(j)
    BY Zenon, <2>1 DEF StrictDecide
  <2>2. CASE LazyDecide(j)
    <3>1. ~Strict
      BY Zenon, <2>2 DEF LazyDecide, ModeOK
    <3> QED
      BY Zenon, <2>2, <3>1 DEF LazyDecide
  <2> QED
    BY Zenon, <2>1, <2>2
<1> QED
  BY Zenon, <1>2, <1>3, <1>4

\* The steps of an admitted job.
LEMMA JobShared ==
  ASSUME Core, Steady, Shared, NEW j \in Jobs, JobStep(j)
  PROVE  Shared'
<1>1. CASE Finish(j)
  BY Zenon, <1>1, DropShared DEF Finish, Guarded
<1>2. CASE PickUp(j)
  BY Zenon, <1>2, DropShared DEF PickUp, Guarded
<1>3. CASE RemoteFinish(j)
  <2>1. /\ adm \in [Jobs -> Admission] /\ adm[j].pc = "remote"
        /\ adm' = [adm EXCEPT ![j].pc = "over"] /\ releases \in [Brokers -> SUBSET Jobs]
        /\ UNCHANGED <<setting, alive, lease, entry, user_seq, releases, reclaim>>
    BY Zenon, <1>3 DEF RemoteFinish, Core, TypeOK
  <2>2. adm'[j].pc = "over" /\ \A k \in Jobs : k # j => adm'[k] = adm[k]
    BY Zenon, <2>1 DEF Admission
  <2>3. FleetOK' /\ SeqsOK' /\ ReleasesOK' /\ EntriesOK'
    BY ZenonT(100), <2>1, <2>2 DEF Shared, FleetOK, SeqsOK, ReleasesOK, EntriesOK, Strict
  <2>4. RankOK'
    <3>1. \A k \in Jobs : adm'[k].pc = "held" => adm[k].pc = "held" /\ entry'[k] = entry[k]
      BY Zenon, <2>1, <2>2
    <3> QED
      BY Zenon, <2>1, <3>1, RankKept DEF Core, Shared, TypeOK
  <2> QED
    BY Zenon, <2>3, <2>4 DEF Shared
<1>4. CASE Recover(j)
  BY Zenon, <1>4 DEF Recover, Steady
<1> QED
  BY Zenon, <1>1, <1>2, <1>3, <1>4 DEF JobStep

\* A step after which no job holds a guard that did not, with the same entry,
\* before.
LEMMA FewerShared ==
  ASSUME Core, Shared, UNCHANGED <<setting, user_seq>>, entry' \in [Jobs -> Entry],
         \A j \in Jobs :
           \/ adm'[j] = adm[j]
           \/ adm'[j].pc = "lost" /\ adm[j].pc \in Guarded \cup {"remote"},
         \A j \in Jobs : entry'[j] = entry[j] \/ entry'[j] = NoEntry,
         setting.shared =>
           \A j \in Jobs \ setting.flaky :
             adm'[j].pc \in {"rank", "count", "held"} => entry'[j] = entry[j],
         Strict => setting.shared
  PROVE  SeqsOK' /\ EntriesOK' /\ RankOK'
<1> USE DEF Shared, Core
<1>1. entry \in [Jobs -> Entry] /\ user_seq \in Nat /\ \A j \in Jobs : entry[j].seq \in Nat
  BY Zenon DEF TypeOK, Entry
<1>2. \A j \in Jobs : entry'[j].seq = 0 \/ entry'[j].seq = entry[j].seq
  BY DEF NoEntry
<1>3. SeqsOK'
  BY <1>1, <1>2 DEF SeqsOK
<1>4. EntriesOK'
  <2> SUFFICES ASSUME NEW j \in Jobs
               PROVE  /\ adm'[j].pc \in {"new", "gated"} => entry'[j].seq = 0
                      /\ (setting.shared /\ j \notin setting.flaky
                            /\ adm'[j].pc \in {"rank", "count", "held"}) =>
                           /\ entry'[j].seq # 0 /\ entry'[j].owner = adm'[j].at
                           /\ Strict => adm'[j].seq = entry'[j].seq
    BY Zenon DEF EntriesOK, Strict
  <2>1. CASE adm'[j] = adm[j]
    BY ZenonT(100), <1>2, <2>1 DEF EntriesOK
  <2>2. CASE adm'[j].pc = "lost"
    BY Zenon, <2>2
  <2> QED
    BY Zenon, <2>1, <2>2
<1>5. RankOK'
  <2>1. CASE Strict
    <3>1. \A j \in Jobs : adm'[j].pc = "held" /\ j \notin setting.flaky =>
                          adm[j].pc = "held" /\ entry'[j] = entry[j]
      BY Zenon, <2>1
    <3> QED
      BY Zenon, <1>2, <3>1, RankKept
  <2>2. CASE ~Strict
    BY Zenon, <2>2 DEF RankOK, Strict
  <2> QED
    BY Zenon, <2>1, <2>2
<1> QED
  BY Zenon, <1>3, <1>4, <1>5

\* The steps of a broker: a sweep spares the entries of all that serve, a
\* release takes only the entry of a job that is through.
LEMMA BrokerShared ==
  ASSUME Core, Steady, Shared, NEW b \in Brokers, BrokerStep(b)
  PROVE  Shared'
<1> USE DEF Shared, Core
<1>1. /\ adm \in [Jobs -> Admission] /\ entry \in [Jobs -> Entry]
      /\ releases \in [Brokers -> SUBSET Jobs] /\ alive \in [Brokers -> {"off", "up", "down"}]
      /\ lease \subseteq Brokers /\ reclaim \in [Brokers -> Reclaim]
      /\ NoEntry \in Entry /\ (Strict => setting.shared)
  BY Zenon DEF TypeOK, NoEntry, Entry, Strict
<1>2. CASE CacheExpires(b) \/ FirstHeartbeat(b) \/ LeaseExpires(b) \/ ReclaimScan(b)
  <2>1. UNCHANGED <<setting, user_seq, entry, adm, alive, releases>>
    BY Zenon, <1>2 DEF CacheExpires, FirstHeartbeat, LeaseExpires, ReclaimScan
  <2>2. SeqsOK' /\ EntriesOK' /\ RankOK' /\ ReleasesOK'
    BY ZenonT(100), <2>1 DEF SeqsOK, EntriesOK, RankOK, ReleasesOK, Held, Before, Entries, Strict
  <2>3. FleetOK'
    <3>1. CASE CacheExpires(b)
      BY Zenon, <2>1, <3>1 DEF FleetOK, CacheExpires
    <3>2. CASE FirstHeartbeat(b)
      BY Zenon, <2>1, <3>2 DEF FleetOK, FirstHeartbeat
    <3>3. CASE LeaseExpires(b)
      BY Zenon, <2>1, <3>3 DEF FleetOK, LeaseExpires
    <3>4. CASE ReclaimScan(b)
      <4>1. /\ lease' = lease /\ reclaim'[b].live = lease
            /\ \A c \in Brokers : c # b => reclaim'[c] = reclaim[c]
        BY Zenon, <1>1, <3>4 DEF ReclaimScan
      <4> QED
        BY Zenon, <2>1, <4>1 DEF FleetOK
    <3> QED
      BY Zenon, <1>2, <3>1, <3>2, <3>3, <3>4
  <2> QED
    BY Zenon, <2>2, <2>3
<1>3. CASE StartBroker(b)
  BY Zenon, <1>3 DEF StartBroker, FleetOK
<1>4. CASE Crash(b)
  <2>1. /\ alive' = [alive EXCEPT ![b] = "down"] /\ releases' = [releases EXCEPT ![b] = {}]
        /\ reclaim' = [reclaim EXCEPT ![b] = [pc |-> "idle", live |-> {}]]
        /\ UNCHANGED <<setting, lease, entry, user_seq>>
    BY Zenon, <1>4 DEF Crash
  <2>2. ASSUME NEW j \in Jobs
        PROVE  \/ adm'[j] = adm[j]
               \/ adm'[j].pc = "lost" /\ adm[j].pc \in Guarded \cup {"remote"}
    BY Zenon, <1>1, <1>4 DEF Crash, Admission
  <2>3. FleetOK'
    BY Zenon, <1>1, <2>1 DEF FleetOK
  <2>4. ReleasesOK'
    <3>1. \A c \in Brokers : releases'[c] \subseteq releases[c] /\ releases[c] \subseteq Jobs
      BY Zenon, <1>1, <2>1
    <3> QED
      BY Zenon, <2>2, <3>1 DEF ReleasesOK
  <2>5. SeqsOK' /\ EntriesOK' /\ RankOK'
    BY Zenon, <1>1, <2>1, <2>2, FewerShared
  <2> QED
    BY Zenon, <2>3, <2>4, <2>5
<1>5. CASE ReclaimSweep(b)
  <2>1. /\ UNCHANGED <<setting, alive, lease, user_seq, adm, releases>>
        /\ reclaim[b].pc = "sweep"
        /\ reclaim' = [reclaim EXCEPT ![b] = [pc |-> "idle", live |-> {}]]
    BY Zenon, <1>5 DEF ReclaimSweep
  <2>2. PICK D \in SUBSET {j \in Entries : entry[j].owner \notin reclaim[b].live} :
          entry' = [j \in Jobs |-> IF j \in D THEN NoEntry ELSE entry[j]]
    BY Zenon, <1>5 DEF ReclaimSweep
  <2>3. FleetOK'
    BY Zenon, <1>1, <2>1 DEF FleetOK
  <2>4. ReleasesOK'
    BY Zenon, <2>1 DEF ReleasesOK
  <2>5. ASSUME setting.shared, NEW j \in Jobs \ setting.flaky,
               adm'[j].pc \in {"rank", "count", "held"}
        PROVE  entry'[j] = entry[j]
    <3>1. adm[j].pc \in {"rank", "count", "held"} /\ adm[j].pc \in Guarded
      BY Zenon, <2>1, <2>5 DEF Guarded
    <3>2. entry[j].owner = adm[j].at /\ alive[adm[j].at] = "up" /\ adm[j].at \in Brokers
      BY Zenon, <2>5, <3>1 DEF EntriesOK, Placed
    <3>3. entry[j].owner \in reclaim[b].live
      BY Zenon, <2>1, <3>2 DEF FleetOK
    <3> QED
      BY Zenon, <2>2, <3>3
  <2>6. \A j \in Jobs : entry'[j] = entry[j] \/ entry'[j] = NoEntry
    BY Zenon, <2>2
  <2>7. entry' \in [Jobs -> Entry]
    BY Zenon, <1>1, <2>2
  <2>8. SeqsOK' /\ EntriesOK' /\ RankOK'
    BY Zenon, <1>1, <2>1, <2>5, <2>6, <2>7, FewerShared
  <2> QED
    BY Zenon, <2>3, <2>4, <2>8
<1>6. ASSUME NEW j \in Jobs, ReleaseLands(b, j)
      PROVE  Shared'
  <2>1. /\ UNCHANGED <<setting, alive, lease, user_seq, adm, reclaim>> /\ j \in releases[b]
        /\ releases' = [releases EXCEPT ![b] = @ \ {j}]
        /\ entry' = [entry EXCEPT ![j] = NoEntry] \/ UNCHANGED entry
    BY Zenon, <1>6 DEF ReleaseLands
  <2>2. FleetOK'
    BY Zenon, <2>1 DEF FleetOK
  <2>3. ReleasesOK'
    BY Zenon, <1>1, <2>1 DEF ReleasesOK
  <2>4. adm[j].pc \notin {"rank", "count", "held"}
    BY Zenon, <2>1 DEF ReleasesOK
  <2>5. /\ entry' \in [Jobs -> Entry]
        /\ \A k \in Jobs : k # j => entry'[k] = entry[k]
        /\ entry'[j] = entry[j] \/ entry'[j] = NoEntry
    BY Zenon, <1>1, <2>1
  <2>6. SeqsOK' /\ EntriesOK' /\ RankOK'
    BY Zenon, <1>1, <2>1, <2>4, <2>5, FewerShared
  <2> QED
    BY Zenon, <2>2, <2>3, <2>6
<1> QED
  BY Zenon, <1>2, <1>3, <1>4, <1>5, <1>6 DEF BrokerStep

-----------------------------------------------------------------------------
(* Theorems *)

\* Every step of admission, dispatch, release and reclaim keeps the invariant.
THEOREM Inductive == IInv /\ [Next]_vars => IInv'
<1> SUFFICES ASSUME IInv, [Next]_vars PROVE IInv'
  BY Zenon
<1>1. Core /\ (Steady => Shared) /\ setting.jobs \subseteq Jobs
  BY Zenon, LimitAssumption DEF IInv, Core
<1>2. ASSUME NEW j \in Jobs, NEW b \in Brokers,
             StrictReserve(j, b) \/ StrictReserveFails(j, b) \/ LocalGate(j, b)
      PROVE  IInv'
  <2>1. UNCHANGED setting
    BY Zenon, <1>2 DEF StrictReserve, StrictReserveFails, LocalGate
  <2> QED
    BY Zenon, <1>1, <1>2, <2>1, StartCore, StartShared DEF IInv, Steady
<1>3. ASSUME NEW j \in Jobs, StrictDecide(j) \/ LazyDecide(j)
      PROVE  IInv'
  <2>1. UNCHANGED setting
    BY Zenon, <1>3 DEF StrictDecide, LazyDecide
  <2> QED
    BY Zenon, <1>1, <1>3, <2>1, DecideCore, DecideShared DEF IInv, Steady
<1>4. ASSUME NEW j \in Jobs, LazyReserve(j)
      PROVE  IInv'
  <2>1. UNCHANGED setting
    BY Zenon, <1>4 DEF LazyReserve
  <2> QED
    BY Zenon, <1>1, <1>4, <2>1, LazyReserveCore, LazyReserveShared DEF IInv, Steady
<1>5. ASSUME NEW j \in Jobs, JobStep(j)
      PROVE  IInv'
  <2>1. UNCHANGED setting
    BY Zenon, <1>5 DEF JobStep, Finish, PickUp, RemoteFinish, Recover
  <2> QED
    BY Zenon, <1>1, <1>5, <2>1, JobCore, JobShared DEF IInv, Steady
<1>6. ASSUME NEW b \in Brokers, BrokerStep(b)
      PROVE  IInv'
  <2>1. UNCHANGED setting
    BY Zenon, <1>6 DEF BrokerStep, CacheExpires, StartBroker, FirstHeartbeat, Crash, LeaseExpires,
                ReclaimScan, ReclaimSweep, ReleaseLands
  <2> QED
    BY Zenon, <1>1, <1>6, <2>1, BrokerCore, BrokerShared DEF IInv, Steady
<1>7. CASE UNCHANGED vars
  <2> USE <1>7 DEF vars
  <2>1. Core'
    BY Zenon DEF IInv, Core, TypeOK, Placed, ModeOK, CountsExact, GateOK, Strict
  <2>2. Steady' <=> Steady
    BY Zenon DEF Steady
  <2>3. Shared => Shared'
    BY DEF Shared, FleetOK, ReleasesOK, EntriesOK, SeqsOK, RankOK, Held, Before, Entries, Strict
  <2> QED
    BY Zenon, <2>1, <2>2, <2>3 DEF IInv
<1> QED
  BY Zenon, <1>1, <1>2, <1>3, <1>4, <1>5, <1>6, <1>7 DEF Next, Admit

\* The invariant always holds.
THEOREM Invariance == Spec => []IInv
BY InitInv, Inductive, PTL DEF Spec

\* Every variable keeps its shape in every run of the limiter.
THEOREM TypeCorrect == Spec => []TypeOK
<1>1. IInv => TypeOK
  BY Zenon DEF IInv, Core
<1> QED
  BY <1>1, Invariance, PTL

\* UserLimiter::counts is exact: every guard is counted once when it is made
\* and given back once, on whichever path it is dropped.
THEOREM CountsCorrect == Spec => []CountsExact
<1>1. IInv => CountsExact
  BY Zenon DEF IInv, Core
<1> QED
  BY <1>1, Invariance, PTL

\* The local gate caps what one broker admits, for every store behaviour.
THEOREM LocalCapCorrect == Spec => []LocalCap
<1>1. IInv => LocalCap
  <2> SUFFICES ASSUME IInv, ~Strict, NEW b \in Brokers
               PROVE  Cardinality({j \in Held : adm[j].at = b}) <= Max
    BY Zenon DEF LocalCap
  <2>1. {j \in Held : adm[j].at = b} \subseteq Guards(b)
    BY Zenon DEF Held, Guards, Guarded
  <2>2. counts[b] = Cardinality(Guards(b)) /\ counts[b] <= Max /\ Max \in Nat
    BY Zenon, LimitAssumption DEF IInv, Core, CountsExact, Guards, GateOK
  <2>3. /\ Cardinality({j \in Held : adm[j].at = b}) \in Nat /\ Cardinality(Guards(b)) \in Nat
        /\ Cardinality({j \in Held : adm[j].at = b}) <= Cardinality(Guards(b))
    BY Zenon, <2>1, GuardsFinite, CardSubset
  <2> QED
    BY <2>2, <2>3
<1> QED
  BY <1>1, Invariance, PTL

\* Where every broker has a lease before it serves and no job is dispatched
\* twice, neither a release nor a reclaim takes the entry of an admitted job.
THEOREM ListedCorrect == Spec => [](Steady => HeldIsListed)
<1>1. IInv => (Steady => HeldIsListed)
  BY Zenon DEF IInv, Shared, EntriesOK, HeldIsListed, Held
<1> QED
  BY <1>1, Invariance, PTL

\* A bounded set of numbers that are not all 0 has a greatest one: in terms of
\* the sequence numbers of a set of entries.
LEMMA LastEntry ==
  ASSUME TypeOK, SeqsOK, NEW H, H \subseteq Jobs, H # {}, \A j \in H : entry[j].seq # 0
  PROVE  \E j \in H : \A k \in H : entry[k].seq <= entry[j].seq
<1> DEFINE U == {n \in Nat : \A k \in H : entry[k].seq <= n}
<1>1. user_seq \in U /\ \A k \in H : entry[k].seq \in Nat
  BY Zenon DEF TypeOK, SeqsOK, Entry
<1>2. PICK m \in U : \A n \in U : ~(<<n, m>> \in OpToRel(<, Nat))
  <2>1. U \subseteq Nat /\ U # {}
    BY Zenon, <1>1
  <2> HIDE DEF U
  <2> QED
    BY Zenon, <2>1, NatLessThanWellFounded, WFMin
<1>3. \A n \in U : ~(n < m)
  BY Zenon, <1>2 DEF OpToRel
<1>4. PICK k \in H : TRUE
  BY Zenon
<1>5. m # 0
  BY <1>1, <1>4
<1>6. m - 1 \in Nat /\ m - 1 \notin U
  BY <1>3, <1>5
<1>7. PICK j \in H : ~(entry[j].seq <= m - 1)
  BY Zenon, <1>6
<1>8. entry[j].seq = m
  BY <1>1, <1>7
<1> QED
  BY Zenon, <1>8

\* In such a deployment strict mode caps the user across all brokers.  Of the
\* admitted jobs take the one whose entry is last: all others are before it,
\* and when it was admitted there were fewer than max.
THEOREM StrictCapCorrect == Spec => [](Steady => StrictCap)
<1>1. IInv => (Steady => StrictCap)
  <2> SUFFICES ASSUME IInv, Steady, Strict
               PROVE  Cardinality(Held \ setting.flaky) <= Max
    BY Zenon DEF StrictCap
  <2> DEFINE H == Held \ setting.flaky
  <2>1. /\ TypeOK /\ SeqsOK /\ H \subseteq Jobs /\ IsFiniteSet(Jobs) /\ Max \in Nat
        /\ \A j \in H : entry[j].seq # 0
    BY Zenon, LimitAssumption DEF IInv, Core, Shared, EntriesOK, Held, Strict
  <2>2. CASE H = {}
    BY <2>1, <2>2, FS_EmptySet
  <2>3. CASE H # {}
    <3>1. PICK j \in H : \A k \in H : entry[k].seq <= entry[j].seq
      <4> HIDE DEF H
      <4> QED
        BY Zenon, <2>1, <2>3, LastEntry
    <3>2. \A k \in Jobs : entry[k].seq \in Nat
      BY Zenon, <2>1 DEF TypeOK, Entry
    <3>3. H \ {j} \subseteq Before(j)
      BY <2>1, <3>1, <3>2 DEF SeqsOK, Before, Entries
    <3>4. IsFiniteSet(Before(j)) /\ IsFiniteSet(H)
      BY Zenon, <2>1, CardSubset DEF Before, Entries
    <3>5. /\ Cardinality(H \ {j}) <= Cardinality(Before(j))
          /\ Cardinality(H \ {j}) \in Nat /\ Cardinality(Before(j)) \in Nat
      BY Zenon, <3>3, <3>4, CardSubset
    <3>6. Cardinality(H) = Cardinality(H \ {j}) + 1
      <4> HIDE DEF H
      <4>1. Cardinality(H \ {j}) = Cardinality(H) - 1
        BY Zenon, <3>1, <3>4, FS_RemoveElement
      <4>2. Cardinality(H) \in Nat
        BY Zenon, <3>4, FS_CardinalityType
      <4> QED
        BY <4>1, <4>2
    <3>7. Cardinality(Before(j)) < Max
      BY Zenon DEF IInv, Shared, RankOK
    <3> QED
      BY <2>1, <3>5, <3>6, <3>7
  <2> QED
    BY Zenon, <2>2, <2>3
<1> QED
  BY <1>1, Invariance, PTL

=============================================================================
