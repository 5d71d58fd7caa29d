--------------------------- MODULE ExecutorsProofs ---------------------------
(***************************************************************************)
(* Proofs about Executors: for any number of calls and workers, with local *)
(* and remote executors, the permits and the queue depth are exact,        *)
(* nothing enters the pending map after close has drained it, a call is    *)
(* answered once, a pending job is in the queue or in a worker's hands,    *)
(* and the whole keeps DispatchContract.                                   *)
(***************************************************************************)
EXTENDS Executors, Integers, FiniteSetTheorems, TLAPS

\* Calls that hold a permit, and calls that have inserted and not yet counted.
Permitted == {j \in Jobs : call[j] \in {"permit", "insert"}}
Entering == {j \in Jobs : call[j] = "enqueue"}

\* A worker past the dequeue has a job.
HandsOK == \A w \in Workers : wk[w].st \in {"sent", "got", "claim", "work"} => wk[w].job \in Jobs

\* The reply sender of a call is, until it is used: with the call itself, in the
\* pending map, drained by close, with a worker, or with the outcome task.
Early(j) == call[j] \in {"new", "permit", "insert"}
Runs(w, j) ==
  wk[w].job = j /\ (wk[w].st = "claim" \/ (wk[w].st = "work" /\ config.executor = "local"))
Untaken(j) == Early(j) \/ j \in pending \cup stranded \/ \E w \in Workers : Runs(w, j)

\* It is in one place at a time, and as long as it is anywhere there is no reply;
\* the outcome sender of a remote job is likewise used once.
Sender(j) ==
  /\ Early(j) => j \notin pending \cup stranded
  /\ j \in pending => j \notin stranded
  /\ \A w \in Workers : Runs(w, j) => ~Early(j) /\ j \notin pending \cup stranded
  /\ \A v, w \in Workers : Runs(v, j) /\ Runs(w, j) => v = w
  /\ Untaken(j) => j \notin translating /\ outcome[j] = "none"
  /\ Untaken(j) \/ j \in translating => reply[j] = "none"
  /\ j \in in_progress => j \in translating /\ outcome[j] = "none"
Senders == \A j \in Jobs : Sender(j)

IInv == TypeOK /\ HandsOK /\ PermitsExact /\ DepthExact /\ NoneAfterDrain /\ Senders

-----------------------------------------------------------------------------
(* Counting *)

Bit(b) == IF b THEN 1 ELSE 0

\* A subset of a finite set is finite and no larger.
LEMMA CardSubset ==
  ASSUME NEW S, NEW T, IsFiniteSet(S), T \subseteq S
  PROVE  /\ IsFiniteSet(T)
         /\ Cardinality(S) \in Nat
         /\ Cardinality(T) \in Nat
         /\ Cardinality(T) <= Cardinality(S)
<1>1. IsFiniteSet(T) /\ Cardinality(T) <= Cardinality(S)
  BY Zenon, FS_Subset
<1> QED
  BY Zenon, <1>1, FS_CardinalityType

\* Two sets that differ in one element at most.
LEMMA CardMove ==
  ASSUME NEW S, NEW T, NEW x, IsFiniteSet(S), S \ {x} = T \ {x}
  PROVE  /\ IsFiniteSet(T)
         /\ Cardinality(S) \in Nat
         /\ Cardinality(T) \in Nat
         /\ Cardinality(T) = Cardinality(S) + Bit(x \in T) - Bit(x \in S)
<1>1. PICK R : R = S \ {x}
  BY Zenon
<1>2. IsFiniteSet(R) /\ Cardinality(R) = IF x \in S THEN Cardinality(S) - 1 ELSE Cardinality(S)
  BY Zenon, <1>1, FS_RemoveElement
<1>3. x \notin R /\ T = IF x \in T THEN R \cup {x} ELSE R
  BY Zenon, <1>1
<1>4. IsFiniteSet(T) /\ Cardinality(T) = IF x \in T THEN Cardinality(R) + 1 ELSE Cardinality(R)
  BY <1>2, <1>3, FS_AddElement
<1>5. Cardinality(S) \in Nat /\ Cardinality(T) \in Nat /\ Cardinality(R) \in Nat
  BY Zenon, <1>2, <1>4, FS_CardinalityType
<1> QED
  BY <1>2, <1>4, <1>5 DEF Bit

\* The sets that are counted are finite.
LEMMA Finite ==
  ASSUME TypeOK
  PROVE  /\ IsFiniteSet(pending) /\ Cardinality(pending) \in Nat
         /\ IsFiniteSet(Permitted) /\ Cardinality(Permitted) \in Nat
         /\ IsFiniteSet(Entering) /\ Cardinality(Entering) \in Nat
         /\ permits \in Nat /\ depth \in Int /\ Capacity \in Nat
<1>1. /\ IsFiniteSet(Jobs) /\ pending \subseteq Jobs /\ Permitted \subseteq Jobs
      /\ Entering \subseteq Jobs /\ Capacity \in Nat /\ permits \in 0..Capacity /\ depth \in Int
  BY Zenon, DispatcherAssumption DEF TypeOK, Permitted, Entering
<1> QED
  BY <1>1, CardSubset

\* A call that moves changes the counts by what it leaves and what it enters.
LEMMA CallMoves ==
  ASSUME TypeOK, NEW j \in Jobs, NEW s \in CallPc, call' = [call EXCEPT ![j] = s]
  PROVE  /\ call' \in [Jobs -> CallPc] /\ call'[j] = s
         /\ \A k \in Jobs : k # j => call'[k] = call[k]
         /\ Cardinality(Permitted') =
              Cardinality(Permitted) + Bit(s \in {"permit", "insert"})
                                     - Bit(call[j] \in {"permit", "insert"})
         /\ Cardinality(Entering') =
              Cardinality(Entering) + Bit(s = "enqueue") - Bit(call[j] = "enqueue")
<1>1. /\ call' \in [Jobs -> CallPc] /\ call'[j] = s
      /\ \A k \in Jobs : k # j => call'[k] = call[k]
  BY Zenon DEF TypeOK
<1>2. Permitted \ {j} = Permitted' \ {j} /\ Entering \ {j} = Entering' \ {j}
  BY Zenon, <1>1 DEF Permitted, Entering
<1>3. (j \in Permitted' <=> s \in {"permit", "insert"}) /\ (j \in Entering' <=> s = "enqueue")
  BY Zenon, <1>1 DEF Permitted, Entering
<1>4. /\ j \in Permitted <=> call[j] \in {"permit", "insert"}
      /\ j \in Entering <=> call[j] = "enqueue"
  BY Zenon DEF Permitted, Entering
<1>5. Cardinality(Permitted') = Cardinality(Permitted) + Bit(j \in Permitted') - Bit(j \in Permitted)
  BY Zenon, <1>2, Finite, CardMove
<1>6. Cardinality(Entering') = Cardinality(Entering) + Bit(j \in Entering') - Bit(j \in Entering)
  BY Zenon, <1>2, Finite, CardMove
<1> QED
  BY Zenon, <1>1, <1>3, <1>4, <1>5, <1>6 DEF Bit

\* The two equations by what a step adds.
LEMMA Balance ==
  ASSUME TypeOK, PermitsExact, DepthExact,
         permits' \in Int, depth' \in Int,
         Cardinality(pending)' \in Nat, Cardinality(Permitted') \in Int, Cardinality(Entering') \in Int,
         permits' - permits + (Cardinality(Permitted') - Cardinality(Permitted))
           + (Cardinality(pending)' - Cardinality(pending)) = 0,
         depth' - depth = (Cardinality(pending)' - Cardinality(pending))
                           - (Cardinality(Entering') - Cardinality(Entering))
  PROVE  PermitsExact' /\ DepthExact'
<1>1. /\ permits + Cardinality(Permitted) + Cardinality(pending) = Capacity
      /\ depth = Cardinality(pending) - Cardinality(Entering)
  BY Zenon DEF PermitsExact, DepthExact, Permitted, Entering
<1>2. /\ permits' + Cardinality(Permitted') + Cardinality(pending)' = Capacity
      /\ depth' = Cardinality(pending)' - Cardinality(Entering')
  BY <1>1, Finite
<1> QED
  BY Zenon, <1>2 DEF PermitsExact, DepthExact, Permitted, Entering

\* The invariant holds initially.
LEMMA InitInv == Init => IInv
<1> SUFFICES ASSUME Init PROVE IInv
  BY Zenon
<1> USE DEF Init, DInit, RInit
<1>1. /\ IsFiniteSet(Jobs) /\ Capacity \in Nat /\ MaxVisits \in Nat /\ config \in Configs
  BY Zenon, DispatcherAssumption
<1>2. TypeOK
  BY <1>1 DEF TypeOK, CloserPc, CallPc, Looping, Replies, WorkerSt
<1>3. Permitted = {} /\ Entering = {} /\ pending = {} /\ Cardinality({}) = 0
  BY Zenon, FS_EmptySet DEF Permitted, Entering
<1>4. PermitsExact /\ DepthExact
  BY SMTT(60), <1>1, <1>3 DEF PermitsExact, DepthExact, Permitted, Entering
<1>5. HandsOK /\ NoneAfterDrain
  BY Zenon DEF HandsOK, NoneAfterDrain
<1>6. Senders
  BY Zenon DEF Senders, Sender, Untaken, Early, Runs
<1> QED
  BY Zenon, <1>2, <1>4, <1>5, <1>6 DEF IInv

-----------------------------------------------------------------------------
(* Senders that stay where they are, or are used *)

\* A step that gives no one a new sender, and sets the reply of a call only with
\* its sender, keeps the invariant.
LEMMA SendersKept ==
  ASSUME Senders, UNCHANGED <<translating, outcome, in_progress>>,
         \A j \in Jobs : Early(j)' => Early(j),
         pending' \subseteq pending, stranded' \subseteq stranded,
         \A j \in Jobs : \A w \in Workers : Runs(w, j)' => Runs(w, j),
         \A j \in Jobs : \/ reply'[j] = reply[j]
                         \/ ~Untaken(j)' /\ j \notin translating
  PROVE  Senders'
<1> SUFFICES ASSUME NEW j \in Jobs PROVE Sender(j)'
  BY Zenon DEF Senders
<1>1. Sender(j)
  BY Zenon DEF Senders
<1>2. Untaken(j)' => Untaken(j)
  BY Zenon DEF Untaken
<1> QED
  BY Zenon, <1>1, <1>2 DEF Sender

-----------------------------------------------------------------------------
(* Clients *)

\* Clients touch nothing that is counted or answered.
LEMMA ClientInv ==
  ASSUME IInv, NEW j \in Jobs, ClientStep(j), UNCHANGED rvars
  PROVE  IInv'
<1> USE DEF IInv
<1>1. /\ UNCHANGED <<config, closer, stranded, permits, queue, pending, depth, call, why, reply, wk>>
      /\ UNCHANGED <<in_progress, silent, outcome, translating, processing, reaper>>
  BY Zenon DEF ClientStep, Cancel, Connect, Disconnect, Lapse, Notify, rvars
<1>2. /\ woken' \subseteq Jobs /\ cancelled' \subseteq Jobs /\ pollers' \subseteq Jobs
      /\ lapsed' \subseteq Jobs /\ notifying' \subseteq Jobs
  BY Zenon DEF ClientStep, Cancel, Connect, Disconnect, Lapse, Notify, TypeOK
<1>3. visits' \in [Jobs -> 0..MaxVisits]
  <2>1. visits \in [Jobs -> 0..MaxVisits] /\ MaxVisits \in Nat
    BY Zenon, DispatcherAssumption DEF TypeOK
  <2>2. visits' = visits \/ (visits[j] < MaxVisits /\ visits' = [visits EXCEPT ![j] = @ + 1])
    BY Zenon DEF ClientStep, Cancel, Connect, Disconnect, Lapse, Notify
  <2> QED
    BY <2>1, <2>2
<1>4. TypeOK'
  BY Zenon, <1>1, <1>2, <1>3 DEF TypeOK
<1>5. HandsOK' /\ PermitsExact' /\ DepthExact' /\ NoneAfterDrain'
  BY Zenon, <1>1 DEF HandsOK, PermitsExact, DepthExact, NoneAfterDrain
<1>6. Senders'
  BY <1>1 DEF Senders, Sender, Untaken, Early, Runs
<1> QED
  BY Zenon, <1>4, <1>5, <1>6

-----------------------------------------------------------------------------
(* Calls *)

\* What a call that is before its reply can be told.
LEMMA QueuedErrorType ==
  ASSUME NEW j \in Jobs
  PROVE  QueuedError(j) \in {"none"} \cup Errors
BY Zenon DEF QueuedError, Errors

\* Steps of the loop: the call stays in it or leaves it with what it was sent.
LEMMA LoopInv ==
  ASSUME IInv, NEW j \in Jobs, UNCHANGED rvars,
         call[j] \in Looping, NEW s \in Looping \cup {"returned", "dropped"},
         call' = [call EXCEPT ![j] = s],
         why' \in [Jobs -> {"none"} \cup Errors], woken' \subseteq Jobs,
         UNCHANGED <<config, closer, stranded, permits, queue, pending, depth, reply, client, wk>>
  PROVE  IInv'
<1> USE DEF IInv
<1>1. /\ UNCHANGED <<in_progress, silent, outcome, translating, processing, reaper>>
      /\ UNCHANGED <<cancelled, pollers, lapsed, visits, notifying>>
  BY Zenon DEF rvars, client
<1>2. s \in CallPc /\ {s, call[j]} \cap {"permit", "insert", "enqueue"} = {}
  BY Zenon DEF Looping, Armed, CallPc
<1>3. /\ call' \in [Jobs -> CallPc] /\ call'[j] = s
      /\ \A k \in Jobs : k # j => call'[k] = call[k]
      /\ Cardinality(Permitted') = Cardinality(Permitted)
      /\ Cardinality(Entering') = Cardinality(Entering)
  <2>1. /\ call' \in [Jobs -> CallPc] /\ call'[j] = s
        /\ \A k \in Jobs : k # j => call'[k] = call[k]
    BY Zenon, <1>2, CallMoves
  <2>2. Permitted' = Permitted /\ Entering' = Entering
    BY Zenon, <1>2, <2>1 DEF Permitted, Entering
  <2> QED
    BY Zenon, <2>1, <2>2
<1>4. TypeOK'
  BY ZenonT(100), <1>1, <1>3 DEF TypeOK
<1>5. PermitsExact' /\ DepthExact'
  BY <1>3, Finite, Balance
<1>6. HandsOK' /\ NoneAfterDrain'
  BY Zenon DEF HandsOK, NoneAfterDrain
<1>7. Senders'
  <2>1. \A k \in Jobs : Early(k)' => Early(k)
    BY Zenon, <1>3 DEF Early, Looping, Armed
  <2> QED
    BY Zenon, <1>1, <2>1, SendersKept DEF Runs
<1> QED
  BY Zenon, <1>4, <1>5, <1>6, <1>7

\* A round that ends keeps the types of the error and the armed futures.
LEMMA EndRoundType ==
  ASSUME TypeOK, NEW j \in Jobs, EndRound(j)
  PROVE  why' \in [Jobs -> {"none"} \cup Errors] /\ woken' \subseteq Jobs
BY Zenon DEF TypeOK, EndRound

\* The steps that only move a call within its loop or out of it.
LEMMA LoopStepInv ==
  ASSUME IInv, NEW j \in Jobs, UNCHANGED rvars,
         Arm(j) \/ Check(j) \/ Park(j) \/ Wake(j) \/ Receive(j) \/ DropCall(j)
  PROVE  IInv'
<1>1. TypeOK /\ why \in [Jobs -> {"none"} \cup Errors] /\ woken \subseteq Jobs
  BY Zenon DEF IInv, TypeOK
<1>2. CASE Arm(j)
  BY Zenon, <1>1, <1>2, LoopInv DEF Arm, Looping, Armed
<1>3. CASE Check(j)
  <2>1. why' \in [Jobs -> {"none"} \cup Errors]
    BY Zenon, <1>1, <1>3, QueuedErrorType DEF Check
  <2>2. PICK s \in {"park", "withdraw"} : call' = [call EXCEPT ![j] = s]
    BY Zenon, <1>3 DEF Check
  <2> QED
    BY Zenon, <1>1, <1>3, <2>1, <2>2, LoopInv DEF Check, Looping, Armed
<1>4. CASE Park(j)
  <2>1. PICK s \in {"timed", "wait"} : call' = [call EXCEPT ![j] = s]
    BY Zenon, <1>4 DEF Park
  <2> QED
    BY Zenon, <1>1, <1>4, <2>1, LoopInv DEF Park, Looping, Armed
<1>5. CASE Wake(j)
  BY Zenon, <1>1, <1>5, EndRoundType, LoopInv DEF Wake, Looping, Armed
<1>6. CASE Receive(j)
  BY Zenon, <1>1, <1>6, EndRoundType, LoopInv DEF Receive, Suspended, Looping, Armed
<1>7. CASE DropCall(j)
  BY Zenon, <1>1, <1>7, EndRoundType, LoopInv DEF DropCall, Suspended, Looping, Armed
<1> QED
  BY Zenon, <1>2, <1>3, <1>4, <1>5, <1>6, <1>7

\* A call that returns before its insertion: refused, or closed with a permit
\* that it gives back.
LEMMA RefuseInv ==
  ASSUME IInv, NEW j \in Jobs, UNCHANGED rvars, Early(j), NEW r \in Refusals, Return(j, r),
         permits' = permits + Bit(call[j] \in {"permit", "insert"}),
         UNCHANGED <<config, closer, stranded, queue, pending, depth, why, woken, client, wk>>
  PROVE  IInv'
<1> USE DEF IInv
<1>1. /\ UNCHANGED <<in_progress, silent, outcome, translating, processing, reaper>>
      /\ UNCHANGED <<cancelled, pollers, lapsed, visits, notifying>>
      /\ call' = [call EXCEPT ![j] = "returned"] /\ reply' = [reply EXCEPT ![j] = r]
  BY Zenon DEF rvars, client, Return
<1>2. "returned" \in CallPc /\ call[j] # "enqueue"
  BY Zenon DEF CallPc, Early
<1>3. /\ call' \in [Jobs -> CallPc] /\ call'[j] = "returned"
      /\ \A k \in Jobs : k # j => call'[k] = call[k]
      /\ Cardinality(Permitted') = Cardinality(Permitted) + Bit("returned" \in {"permit", "insert"})
                                    - Bit(call[j] \in {"permit", "insert"})
      /\ Cardinality(Entering') = Cardinality(Entering) + Bit("returned" = "enqueue")
                                   - Bit(call[j] = "enqueue")
  BY Zenon, <1>1, <1>2, CallMoves
<1>4. /\ permits' \in Int /\ Cardinality(Permitted') \in Int
      /\ permits' - permits + (Cardinality(Permitted') - Cardinality(Permitted)) = 0
      /\ Cardinality(Entering') = Cardinality(Entering)
  BY SMTT(60), <1>2, <1>3, Finite DEF Bit
<1>5. PermitsExact' /\ DepthExact'
  BY <1>4, Finite, Balance
<1>6. permits' \in 0..Capacity
  <2>1. Cardinality(Permitted') \in Nat
    BY Zenon, <1>3, DispatcherAssumption, CardSubset DEF Permitted
  <2>2. permits' + Cardinality(Permitted') + Cardinality(pending)' = Capacity /\ permits' >= 0
    BY SMTT(60), <1>5, Finite DEF PermitsExact, Permitted, Bit
  <2> QED
    BY <1>4, <2>1, <2>2, Finite
<1>7. TypeOK'
  <2>1. reply' \in [Jobs -> Replies \cup {"ok"} \cup Outcomes]
    BY Zenon, <1>1 DEF TypeOK, Replies
  <2> QED
    BY Zenon, <1>1, <1>3, <1>6, <2>1 DEF TypeOK
<1>8. HandsOK' /\ NoneAfterDrain'
  BY Zenon DEF HandsOK, NoneAfterDrain
<1>9. Senders'
  <2>1. \A k \in Jobs : Early(k)' => Early(k) /\ k # j
    BY Zenon, <1>3 DEF Early
  <2>2. j \notin pending \cup stranded \cup translating /\ \A w \in Workers : ~Runs(w, j)
    BY Zenon DEF Senders, Sender, Untaken
  <2>3. \A k \in Jobs : reply'[k] = reply[k] \/ k = j
    BY Zenon, <1>1 DEF TypeOK
  <2>4. ~Untaken(j)'
    BY Zenon, <2>1, <2>2 DEF Untaken, Runs
  <2> QED
    BY Zenon, <1>1, <2>1, <2>2, <2>3, <2>4, SendersKept DEF Runs
<1> QED
  BY Zenon, <1>5, <1>7, <1>8, <1>9

\* A call takes a permit or finds the dispatcher still open.
LEMMA PermitInv ==
  ASSUME IInv, NEW j \in Jobs, UNCHANGED rvars,
         \/ call[j] = "new" /\ call' = [call EXCEPT ![j] = "permit"]
              /\ permits > 0 /\ permits' = permits - 1
         \/ call[j] = "permit" /\ call' = [call EXCEPT ![j] = "insert"] /\ UNCHANGED permits,
         UNCHANGED <<config, closer, stranded, queue, pending, depth, why, woken, reply, client, wk>>
  PROVE  IInv'
<1> USE DEF IInv
<1>1. /\ UNCHANGED <<in_progress, silent, outcome, translating, processing, reaper>>
      /\ UNCHANGED <<cancelled, pollers, lapsed, visits, notifying>>
  BY Zenon DEF rvars, client
<1>2. PICK s \in {"permit", "insert"} :
        /\ call' = [call EXCEPT ![j] = s]
        /\ permits' = permits + Bit(call[j] \in {"permit", "insert"}) - 1
        /\ call[j] \in {"new", "permit"} /\ permits' >= 0
  BY Finite DEF Bit
<1>3. s \in CallPc
  BY Zenon DEF CallPc
<1>4. /\ call' \in [Jobs -> CallPc] /\ call'[j] = s
      /\ \A k \in Jobs : k # j => call'[k] = call[k]
      /\ Cardinality(Permitted') = Cardinality(Permitted) + Bit(s \in {"permit", "insert"})
                                    - Bit(call[j] \in {"permit", "insert"})
      /\ Cardinality(Entering') = Cardinality(Entering) + Bit(s = "enqueue")
                                   - Bit(call[j] = "enqueue")
  BY Zenon, <1>2, <1>3, CallMoves
<1>5. /\ permits' \in Int /\ Cardinality(Permitted') \in Int
      /\ permits' - permits + (Cardinality(Permitted') - Cardinality(Permitted)) = 0
      /\ Cardinality(Entering') = Cardinality(Entering)
  BY SMTT(60), <1>2, <1>4, Finite DEF Bit
<1>6. PermitsExact' /\ DepthExact'
  BY SMTT(60), <1>5, Finite, Balance
<1>7. permits' \in 0..Capacity
  <2>1. permits \in 0..Capacity /\ Capacity \in Nat
    BY Zenon, DispatcherAssumption DEF TypeOK
  <2> QED
    BY SMTT(60), <1>2, <2>1 DEF Bit
<1>8. TypeOK'
  BY Zenon, <1>1, <1>4, <1>7 DEF TypeOK
<1>9. HandsOK' /\ NoneAfterDrain'
  BY Zenon DEF HandsOK, NoneAfterDrain
<1>10. Senders'
  <2>1. \A k \in Jobs : Early(k)' => Early(k)
    BY Zenon, <1>2, <1>4 DEF Early
  <2> QED
    BY Zenon, <1>1, <2>1, SendersKept DEF Runs
<1> QED
  BY Zenon, <1>6, <1>8, <1>9, <1>10

\* The insertion: the permit and the sender move into the pending map.
LEMMA EntryInv ==
  ASSUME IInv, NEW j \in Jobs, UNCHANGED rvars, call[j] = "insert", ~closing,
         pending' = pending \cup {j}, call' = [call EXCEPT ![j] = "enqueue"],
         UNCHANGED <<config, closer, stranded, permits, queue, depth, why, woken, reply, client, wk>>
  PROVE  IInv'
<1> USE DEF IInv
<1>1. /\ UNCHANGED <<in_progress, silent, outcome, translating, processing, reaper>>
      /\ UNCHANGED <<cancelled, pollers, lapsed, visits, notifying>>
      /\ "enqueue" \in CallPc
  BY Zenon DEF rvars, client, CallPc
<1>2. /\ call' \in [Jobs -> CallPc] /\ call'[j] = "enqueue"
      /\ \A k \in Jobs : k # j => call'[k] = call[k]
      /\ Cardinality(Permitted') = Cardinality(Permitted) + Bit("enqueue" \in {"permit", "insert"})
                                    - Bit(call[j] \in {"permit", "insert"})
      /\ Cardinality(Entering') = Cardinality(Entering) + Bit("enqueue" = "enqueue")
                                   - Bit(call[j] = "enqueue")
  BY Zenon, <1>1, CallMoves
<1>3. j \notin pending \cup stranded \cup translating /\ \A w \in Workers : ~Runs(w, j)
  BY Zenon DEF Senders, Sender, Untaken, Early
<1>4. Cardinality(pending)' = Cardinality(pending) + 1
  <2>1. pending \ {j} = pending' \ {j} /\ j \in pending'
    BY Zenon
  <2>2. Cardinality(pending') = Cardinality(pending) + Bit(j \in pending') - Bit(j \in pending)
    BY Zenon, <2>1, Finite, CardMove
  <2> QED
    BY SMTT(60), <1>3, <2>1, <2>2, Finite DEF Bit
<1>5. /\ Cardinality(Permitted') = Cardinality(Permitted) - 1
      /\ Cardinality(Entering') = Cardinality(Entering) + 1
  BY <1>2, Finite DEF Bit
<1>6. PermitsExact' /\ DepthExact'
  BY SMTT(60), <1>4, <1>5, Finite, Balance
<1>7. TypeOK'
  BY ZenonT(100), <1>1, <1>2 DEF TypeOK
<1>8. HandsOK' /\ NoneAfterDrain'
  BY Zenon DEF HandsOK, NoneAfterDrain, closing
<1>9. Senders'
  <2> SUFFICES ASSUME NEW k \in Jobs PROVE Sender(k)'
    BY Zenon DEF Senders
  <2>1. Sender(k) /\ Sender(j) /\ Untaken(j)
    BY Zenon DEF Senders, Untaken, Early
  <2>2. CASE k = j
    BY Zenon, <1>1, <1>2, <1>3, <2>1, <2>2 DEF Sender, Untaken, Early, Runs
  <2>3. CASE k # j
    <3>1. (Early(k)' <=> Early(k)) /\ (k \in pending' <=> k \in pending)
      BY Zenon, <1>2, <2>3 DEF Early
    <3> QED
      BY ZenonT(100), <1>1, <2>1, <3>1 DEF Sender, Untaken, Runs
  <2> QED
    BY Zenon, <2>2, <2>3
<1> QED
  BY Zenon, <1>6, <1>7, <1>8, <1>9

\* The job goes into the queue and is counted.
LEMMA EnqueueInv ==
  ASSUME IInv, NEW j \in Jobs, UNCHANGED rvars, Enqueue(j)
  PROVE  IInv'
<1> USE DEF IInv
<1>1. /\ UNCHANGED <<in_progress, silent, outcome, translating, processing, reaper>>
      /\ UNCHANGED <<cancelled, pollers, lapsed, visits, notifying>>
      /\ UNCHANGED <<config, closer, stranded, permits, pending, why, woken, reply, wk>>
      /\ "arm" \in CallPc /\ call[j] = "enqueue" /\ depth' = depth + 1
      /\ call' = [call EXCEPT ![j] = "arm"] /\ queue' \subseteq queue \cup {j}
  BY Zenon DEF rvars, client, CallPc, Looping, Enqueue, Push
<1>2. /\ call' \in [Jobs -> CallPc] /\ call'[j] = "arm"
      /\ \A k \in Jobs : k # j => call'[k] = call[k]
      /\ Cardinality(Permitted') = Cardinality(Permitted) + Bit("arm" \in {"permit", "insert"})
                                    - Bit(call[j] \in {"permit", "insert"})
      /\ Cardinality(Entering') = Cardinality(Entering) + Bit("arm" = "enqueue")
                                   - Bit(call[j] = "enqueue")
  BY Zenon, <1>1, CallMoves
<1>3. /\ Cardinality(Permitted') = Cardinality(Permitted)
      /\ Cardinality(Entering') = Cardinality(Entering) - 1 /\ depth' \in Int
  BY SMTT(60), <1>1, <1>2, Finite DEF Bit
<1>4. PermitsExact' /\ DepthExact'
  BY SMTT(60), <1>1, <1>3, Finite, Balance
<1>5. TypeOK'
  BY Zenon, <1>1, <1>2, <1>3 DEF TypeOK
<1>6. HandsOK' /\ NoneAfterDrain'
  BY Zenon, <1>1 DEF HandsOK, NoneAfterDrain
<1>7. Senders'
  <2>1. \A k \in Jobs : Early(k)' => Early(k)
    BY Zenon, <1>1, <1>2 DEF Early
  <2> QED
    BY Zenon, <1>1, <2>1, SendersKept DEF Runs
<1> QED
  BY Zenon, <1>4, <1>5, <1>6, <1>7

\* One entry leaves the pending map.
LEMMA EntryLeaves ==
  ASSUME IInv, NEW j \in Jobs, j \in pending, pending' = pending \ {j},
         permits' = permits + 1, depth' = depth - 1,
         Cardinality(Permitted') = Cardinality(Permitted),
         Cardinality(Entering') = Cardinality(Entering)
  PROVE  PermitsExact' /\ DepthExact' /\ permits' \in 0..Capacity /\ depth' \in Int
<1> USE DEF IInv
<1>1. IsFiniteSet(pending) /\ IsFiniteSet(pending \ {j})
  BY Zenon, Finite, FS_RemoveElement
<1>a. Cardinality(pending \ {j}) = Cardinality(pending) - 1
  BY Zenon, <1>1, FS_RemoveElement
<1>b. Cardinality(pending) \in Nat /\ Cardinality(pending \ {j}) \in Nat
  BY Zenon, <1>1, FS_CardinalityType
<1>2. Cardinality(pending)' = Cardinality(pending) - 1 /\ Cardinality(pending)' \in Nat
  BY Zenon, <1>a, <1>b
<1>3. PermitsExact' /\ DepthExact'
  BY <1>2, Finite, Balance
<1>4. permits' + Cardinality(Permitted') + Cardinality(pending)' = Capacity
  BY Zenon, <1>3 DEF PermitsExact, Permitted
<1> QED
  BY SMTT(60), <1>2, <1>3, <1>4, Finite

\* The withdrawal of a queued call.
LEMMA WithdrawInv ==
  ASSUME IInv, NEW j \in Jobs, UNCHANGED rvars, Withdraw(j)
  PROVE  IInv'
<1> USE DEF IInv
<1>1. /\ call[j] = "withdraw" /\ call[j] \in Looping /\ EndRound(j)
      /\ UNCHANGED <<config, closer, stranded, queue, client, wk>>
      /\ why' \in [Jobs -> {"none"} \cup Errors] /\ woken' \subseteq Jobs
  BY Zenon, EndRoundType DEF Withdraw, Looping, Armed
<1>2. CASE /\ UNCHANGED <<permits, pending, depth, reply>>
           /\ call' = [call EXCEPT ![j] = "arm"] \/ call' = [call EXCEPT ![j] = "last"]
  BY Zenon, <1>1, <1>2, LoopInv DEF Looping, Armed
<1>3. CASE /\ j \in pending /\ pending' = pending \ {j} /\ depth' = depth - 1
           /\ permits' = permits + 1 /\ Return(j, why[j])
  <2>1. /\ UNCHANGED <<in_progress, silent, outcome, translating, processing, reaper>>
        /\ UNCHANGED <<cancelled, pollers, lapsed, visits, notifying>>
        /\ call' = [call EXCEPT ![j] = "returned"] /\ reply' = [reply EXCEPT ![j] = why[j]]
        /\ "returned" \in CallPc /\ pending \subseteq Jobs
    BY Zenon, <1>1, <1>3 DEF rvars, client, Return, CallPc, TypeOK
  <2>2. /\ call' \in [Jobs -> CallPc] /\ call'[j] = "returned"
        /\ \A k \in Jobs : k # j => call'[k] = call[k]
    BY Zenon, <2>1, CallMoves
  <2>3. Permitted' = Permitted /\ Entering' = Entering
    BY Zenon, <1>1, <2>2 DEF Permitted, Entering
  <2>4. PermitsExact' /\ DepthExact' /\ permits' \in 0..Capacity /\ depth' \in Int
    BY Zenon, <1>3, <2>3, EntryLeaves
  <2>5. TypeOK'
    <3>1. reply' \in [Jobs -> Replies \cup {"ok"} \cup Outcomes]
      BY Zenon, <2>1 DEF TypeOK, Replies
    <3> QED
      BY ZenonT(100), <1>1, <1>3, <2>1, <2>2, <2>4, <3>1 DEF TypeOK
  <2>6. HandsOK' /\ NoneAfterDrain'
    BY Zenon, <1>1, <1>3 DEF HandsOK, NoneAfterDrain
  <2>7. Senders'
    <3>1. \A k \in Jobs : Early(k)' => Early(k) /\ k # j
      BY Zenon, <1>1, <2>2 DEF Early
    <3>2. j \notin stranded \cup translating /\ \A w \in Workers : ~Runs(w, j)
      BY Zenon, <1>3 DEF Senders, Sender, Untaken
    <3>3. \A k \in Jobs : reply'[k] = reply[k] \/ k = j
      BY Zenon, <2>1 DEF TypeOK
    <3>4. ~Untaken(j)'
      BY Zenon, <1>1, <1>3, <3>1, <3>2 DEF Untaken, Runs
    <3> QED
      BY ZenonT(100), <1>1, <1>3, <2>1, <3>1, <3>2, <3>3, <3>4, SendersKept DEF Runs
  <2> QED
    BY Zenon, <2>4, <2>5, <2>6, <2>7
<1> QED
  BY Zenon, <1>2, <1>3 DEF Withdraw

\* The steps of a dispatch call.
LEMMA CallInv ==
  ASSUME IInv, NEW j \in Jobs, UNCHANGED rvars, CallStep(j)
  PROVE  IInv'
<1>1. permits \in Int /\ permits \in Nat
  BY Finite DEF IInv
<1>2. CASE RefuseUser(j)
  BY SMTT(60), <1>1, <1>2, RefuseInv DEF RefuseUser, Early, Refusals, Bit
<1>3. CASE Acquire(j)
  <2>1. CASE (Return(j, "closed") \/ Return(j, "full")) /\ UNCHANGED permits
    BY SMTT(60), <1>1, <1>3, <2>1, RefuseInv DEF Acquire, Early, Refusals, Bit
  <2>2. CASE permits > 0 /\ permits' = permits - 1 /\ call' = [call EXCEPT ![j] = "permit"]
             /\ UNCHANGED reply
    BY Zenon, <1>3, <2>2, PermitInv DEF Acquire
  <2> QED
    BY Zenon, <1>3, <2>1, <2>2 DEF Acquire
<1>4. CASE CheckClosing(j)
  <2>1. CASE Closed(j)
    BY Zenon, <1>1, <1>4, <2>1, RefuseInv DEF CheckClosing, Closed, Early, Refusals, Bit
  <2>2. CASE call' = [call EXCEPT ![j] = "insert"] /\ UNCHANGED <<permits, reply>>
    BY Zenon, <1>4, <2>2, PermitInv DEF CheckClosing
  <2> QED
    BY Zenon, <1>4, <2>1, <2>2 DEF CheckClosing
<1>5. CASE Insert(j)
  <2>1. CASE Closed(j) /\ UNCHANGED pending
    BY Zenon, <1>1, <1>5, <2>1, RefuseInv DEF Insert, Closed, Early, Refusals, Bit
  <2>2. CASE ~closing /\ pending' = pending \cup {j} /\ call' = [call EXCEPT ![j] = "enqueue"]
             /\ UNCHANGED <<permits, reply>>
    BY Zenon, <1>5, <2>2, EntryInv DEF Insert
  <2> QED
    BY Zenon, <1>5, <2>1, <2>2 DEF Insert
<1> QED
  BY ZenonT(100), <1>2, <1>3, <1>4, <1>5, EnqueueInv, WithdrawInv, LoopStepInv DEF CallStep

-----------------------------------------------------------------------------
(* Close *)

\* The steps of close: the drain takes all entries with their permits, the
\* answers use the senders it took.
LEMMA CloseInv ==
  ASSUME IInv, UNCHANGED rvars, Close
  PROVE  IInv'
<1> USE DEF IInv
<1>1. /\ UNCHANGED <<in_progress, silent, outcome, translating, processing, reaper>>
      /\ UNCHANGED <<config, queue, call, why, woken, wk>>
      /\ UNCHANGED <<cancelled, pollers, lapsed, visits, notifying>>
  BY Zenon DEF rvars, client, Close, CloseFlag, CloseAdmission, CloseQueue, CloseStep, CloseDrain, CloseReply
<1>2. Permitted' = Permitted /\ Entering' = Entering /\ HandsOK'
  BY Zenon, <1>1 DEF Permitted, Entering, HandsOK
<1>3. CASE CloseFlag \/ CloseAdmission \/ CloseQueue
  <2>1. /\ UNCHANGED <<stranded, permits, pending, depth, reply>>
        /\ closer' \in {"flag", "admission", "queue"}
    BY Zenon, <1>3 DEF CloseFlag, CloseAdmission, CloseQueue, CloseStep
  <2>2. TypeOK'
    BY Zenon, <1>1, <2>1 DEF TypeOK, CloserPc
  <2>3. PermitsExact' /\ DepthExact' /\ NoneAfterDrain'
    BY ZenonT(100), <1>1, <2>1 DEF PermitsExact, DepthExact, NoneAfterDrain
  <2>4. Senders'
    BY <1>1, <2>1 DEF Senders, Sender, Untaken, Early, Runs
  <2> QED
    BY Zenon, <1>2, <2>2, <2>3, <2>4
<1>4. CASE CloseDrain
  <2>1. /\ closer' = "drained" /\ stranded' = pending /\ pending' = {} /\ reply' = reply
        /\ permits' = permits + Cardinality(pending) /\ depth' = depth - Cardinality(pending)
        /\ Cardinality(pending)' = 0
    BY Zenon, <1>4, FS_EmptySet DEF CloseDrain
  <2>2. PermitsExact' /\ DepthExact'
    BY SMTT(60), <1>2, <2>1, Finite, Balance
  <2>3. permits' \in 0..Capacity /\ depth' \in Int
    BY SMTT(60), <2>1, Finite DEF PermitsExact, Permitted
  <2>4. TypeOK'
    BY Zenon, <1>1, <2>1, <2>3 DEF TypeOK, CloserPc
  <2>5. NoneAfterDrain'
    BY Zenon, <2>1 DEF NoneAfterDrain
  <2>6. Senders'
    <3> SUFFICES ASSUME NEW j \in Jobs PROVE Sender(j)'
      BY Zenon DEF Senders
    <3>1. Sender(j)
      BY Zenon DEF Senders
    <3>2. (Early(j)' <=> Early(j)) /\ \A w \in Workers : Runs(w, j)' <=> Runs(w, j)
      BY ZenonT(100), <1>1 DEF Early, Runs
    <3> QED
      BY Zenon, <1>1, <2>1, <3>1, <3>2 DEF Sender, Untaken
  <2> QED
    BY ZenonT(100), <1>2, <2>2, <2>4, <2>5, <2>6
<1>5. CASE CloseReply
  <2>1. /\ closer' = "closed" /\ stranded' = {} /\ UNCHANGED <<permits, pending, depth>>
        /\ reply' = [j \in Jobs |-> IF j \in stranded THEN "closed" ELSE reply[j]]
        /\ closer = "drained"
    BY Zenon, <1>5 DEF CloseReply
  <2>2. TypeOK'
    <3>1. reply' \in [Jobs -> Replies \cup {"ok"} \cup Outcomes]
      BY Zenon, <2>1 DEF TypeOK, Replies, Refusals
    <3> QED
      BY Zenon, <1>1, <2>1, <3>1 DEF TypeOK, CloserPc
  <2>3. PermitsExact' /\ DepthExact' /\ NoneAfterDrain'
    BY Zenon, <1>1, <2>1 DEF PermitsExact, DepthExact, NoneAfterDrain
  <2>4. Senders'
    <3> SUFFICES ASSUME NEW j \in Jobs PROVE Sender(j)'
      BY Zenon DEF Senders
    <3>1. Sender(j)
      BY Zenon DEF Senders
    <3>2. (Early(j)' <=> Early(j)) /\ \A w \in Workers : Runs(w, j)' <=> Runs(w, j)
      BY Zenon, <1>1 DEF Early, Runs
    <3>3. reply'[j] = IF j \in stranded THEN "closed" ELSE reply[j]
      BY Zenon, <2>1
    <3> QED
      BY ZenonT(100), <1>1, <2>1, <3>1, <3>2, <3>3 DEF Sender, Untaken
  <2> QED
    BY Zenon, <1>2, <2>2, <2>3, <2>4
<1> QED
  BY Zenon, <1>3, <1>4, <1>5 DEF Close

-----------------------------------------------------------------------------
(* Workers *)

\* A worker that moves is typed, and the others stay.
LEMMA WorkerMoves ==
  ASSUME TypeOK, HandsOK, NEW w \in Workers, NEW st \in WorkerSt, NEW j \in Jobs \cup {NoJob},
         st \in {"sent", "got", "claim", "work"} => j \in Jobs, Worker(w, st, j)
  PROVE  /\ wk' \in [Workers -> [st: WorkerSt, job: Jobs \cup {NoJob}]]
         /\ wk'[w].st = st /\ wk'[w].job = j /\ HandsOK'
         /\ \A v \in Workers : v # w => wk'[v] = wk[v]
<1>1. wk \in [Workers -> [st: WorkerSt, job: Jobs \cup {NoJob}]]
      /\ wk' = [wk EXCEPT ![w] = [st |-> st, job |-> j]]
  BY Zenon DEF TypeOK, Worker
<1>2. /\ wk' \in [Workers -> [st: WorkerSt, job: Jobs \cup {NoJob}]]
      /\ wk'[w].st = st /\ wk'[w].job = j
      /\ \A v \in Workers : v # w => wk'[v] = wk[v]
  BY Zenon, <1>1
<1> QED
  BY Zenon, <1>2 DEF HandsOK

\* Worker steps that give it no sender: dequeue, hand over, wait, leave.
LEMMA FreeInv ==
  ASSUME IInv, NEW w \in Workers, NEW st \in {"idle", "ask", "sent", "got", "exited"},
         NEW j \in Jobs \cup {NoJob}, st \in {"sent", "got"} => j \in Jobs,
         Worker(w, st, j), queue' \subseteq queue,
         UNCHANGED <<config, closer, stranded, permits, pending, depth, call, why, woken, reply,
                     client, rvars>>
  PROVE  IInv'
<1> USE DEF IInv
<1>1. /\ UNCHANGED <<in_progress, silent, outcome, translating, processing, reaper>>
      /\ UNCHANGED <<cancelled, pollers, lapsed, visits, notifying>>
      /\ st \in WorkerSt
  BY Zenon DEF rvars, client, WorkerSt
<1>2. /\ wk' \in [Workers -> [st: WorkerSt, job: Jobs \cup {NoJob}]]
      /\ wk'[w].st = st /\ wk'[w].job = j /\ HandsOK'
      /\ \A v \in Workers : v # w => wk'[v] = wk[v]
  BY Zenon, <1>1, WorkerMoves
<1>3. TypeOK'
  BY Zenon, <1>1, <1>2 DEF TypeOK
<1>4. PermitsExact' /\ DepthExact' /\ NoneAfterDrain'
  BY Zenon DEF PermitsExact, DepthExact, NoneAfterDrain
<1>5. Senders'
  <2>1. \A k \in Jobs : \A v \in Workers : Runs(v, k)' => Runs(v, k)
    BY Zenon, <1>2 DEF Runs
  <2> QED
    BY Zenon, <1>1, <2>1, SendersKept DEF Early
<1> QED
  BY Zenon, <1>2, <1>3, <1>4, <1>5

\* A worker uses the sender it has and is free, or dead.
LEMMA AnswerInv ==
  ASSUME IInv, NEW w \in Workers, Runs(w, wk[w].job), NEW st \in {"idle", "dead"},
         Worker(w, st, NoJob), NEW r \in Replies \cup {"ok"},
         reply' = [reply EXCEPT ![wk[w].job] = r],
         UNCHANGED <<config, closer, stranded, permits, queue, pending, depth, call, why, woken,
                     client, rvars>>
  PROVE  IInv'
<1> USE DEF IInv
<1>0. PICK j \in Jobs : j = wk[w].job
  BY Zenon DEF HandsOK, Runs
<1>1. /\ UNCHANGED <<in_progress, silent, outcome, translating, processing, reaper>>
      /\ UNCHANGED <<cancelled, pollers, lapsed, visits, notifying>>
      /\ st \in WorkerSt
  BY Zenon DEF rvars, client, WorkerSt
<1>2. /\ wk' \in [Workers -> [st: WorkerSt, job: Jobs \cup {NoJob}]]
      /\ wk'[w].st = st /\ HandsOK'
      /\ \A v \in Workers : v # w => wk'[v] = wk[v]
  BY Zenon, <1>1, WorkerMoves
<1>3. reply' \in [Jobs -> Replies \cup {"ok"} \cup Outcomes] /\ \A k \in Jobs : k # j => reply'[k] = reply[k]
  BY Zenon, <1>0 DEF TypeOK
<1>4. Sender(j)
  BY Zenon DEF Senders
<1>5. TypeOK'
  BY Zenon, <1>1, <1>2, <1>3 DEF TypeOK
<1>6. PermitsExact' /\ DepthExact' /\ NoneAfterDrain'
  BY Zenon DEF PermitsExact, DepthExact, NoneAfterDrain
<1>7. Senders'
  <2>1. \A k \in Jobs : \A v \in Workers : Runs(v, k)' => Runs(v, k) /\ v # w
    BY Zenon, <1>2 DEF Runs
  <2>2. Runs(w, j)
    BY Zenon, <1>0
  <2>3. ~Untaken(j)' /\ j \notin translating
    BY Zenon, <1>1, <1>4, <2>1, <2>2 DEF Sender, Untaken, Early
  <2> QED
    BY ZenonT(100), <1>1, <1>3, <2>1, <2>3, SendersKept DEF Early
<1> QED
  BY Zenon, <1>2, <1>5, <1>6, <1>7

\* A worker takes the entry of its job out of the pending map: the permit is
\* free, the sender is the worker's or, when the caller is gone, dropped.
LEMMA ResolveInv ==
  ASSUME IInv, NEW w \in Workers, UNCHANGED rvars, Resolve(w)
  PROVE  IInv'
<1> USE DEF IInv
<1>0. PICK j \in Jobs : j = wk[w].job
  BY Zenon DEF HandsOK, Resolve
<1>1. /\ UNCHANGED <<in_progress, silent, outcome, translating, processing, reaper>>
      /\ UNCHANGED <<cancelled, pollers, lapsed, visits, notifying>>
      /\ UNCHANGED <<config, closer, stranded, queue, call, why, woken, reply, client>>
      /\ wk[w].st = "got"
  BY Zenon DEF rvars, client, Resolve
<1>2. CASE Idle(w) /\ UNCHANGED <<pending, permits, depth>>
  BY Zenon, <1>1, <1>2, FreeInv DEF Idle
<1>3. CASE /\ j \in pending /\ pending' = pending \ {j} /\ permits' = permits + 1
           /\ depth' = depth - 1 /\ (Idle(w) \/ Worker(w, "claim", j))
  <2>1. Permitted' = Permitted /\ Entering' = Entering
    BY ZenonT(100), <1>1 DEF Permitted, Entering
  <2>2. PermitsExact' /\ DepthExact' /\ permits' \in 0..Capacity /\ depth' \in Int
    BY SMTT(60), <1>1, <1>3, <2>1, EntryLeaves
  <2>3. {"idle", "claim"} \subseteq WorkerSt
    BY Zenon DEF WorkerSt
  <2>4. /\ wk' \in [Workers -> [st: WorkerSt, job: Jobs \cup {NoJob}]] /\ HandsOK'
        /\ \A v \in Workers : v # w => wk'[v] = wk[v]
        /\ wk'[w].st = "idle" \/ (wk'[w].st = "claim" /\ wk'[w].job = j)
    <3>1. CASE Idle(w)
      BY Zenon, <2>3, <3>1, WorkerMoves DEF Idle
    <3>2. CASE Worker(w, "claim", j)
      BY Zenon, <1>1, <2>3, <3>2, WorkerMoves
    <3> QED
      BY Zenon, <1>3, <3>1, <3>2
  <2>5. TypeOK'
    BY Zenon, <1>1, <1>3, <2>2, <2>4 DEF TypeOK
  <2>6. NoneAfterDrain'
    BY Zenon, <1>1, <1>3 DEF NoneAfterDrain
  <2>7. Senders'
    <3> SUFFICES ASSUME NEW k \in Jobs PROVE Sender(k)'
      BY Zenon DEF Senders
    <3>1. Sender(k) /\ Sender(j)
      BY Zenon DEF Senders
    <3>2. Early(k)' <=> Early(k)
      BY Zenon, <1>1 DEF Early
    <3>3. CASE k # j
      <4>1. \A v \in Workers : Runs(v, k)' <=> Runs(v, k)
        BY Zenon, <1>1, <2>4, <3>3 DEF Runs
      <4>2. k \in pending' <=> k \in pending
        BY Zenon, <1>3, <3>3
      <4> QED
        BY Zenon, <1>1, <3>1, <3>2, <4>1, <4>2 DEF Sender, Untaken
    <3>4. CASE k = j
      <4>1. \A v \in Workers : ~Runs(v, j)
        BY Zenon, <1>3, <3>1 DEF Sender
      <4>2. \A v \in Workers : Runs(v, j)' => v = w
        BY Zenon, <1>1, <2>4, <4>1 DEF Runs
      <4>3. Untaken(j) /\ ~Early(j) /\ j \notin stranded /\ j \notin pending'
        BY Zenon, <1>3, <3>1 DEF Untaken, Sender
      <4> QED
        BY ZenonT(100), <1>1, <3>1, <3>2, <3>4, <4>2, <4>3 DEF Sender
    <3> QED
      BY Zenon, <3>3, <3>4
  <2> QED
    BY ZenonT(100), <2>2, <2>4, <2>5, <2>6, <2>7
<1> QED
  BY Zenon, <1>0, <1>2, <1>3 DEF Resolve

\* What every executor does to get a job.
LEMMA FetchInv ==
  ASSUME IInv, NEW w \in Workers, UNCHANGED rvars, Fetch(w)
  PROVE  IInv'
<1>1. queue \subseteq Jobs /\ wk[w].st \in {"sent", "got", "claim", "work"} => wk[w].job \in Jobs
  BY Zenon DEF IInv, TypeOK, HandsOK
<1>2. CASE Dequeue(w)
  <2>1. PICK j \in queue : queue' = queue \ {j} /\ Worker(w, "got", j)
    BY Zenon, <1>2 DEF Dequeue
  <2> QED
    BY ZenonT(100), <1>1, <1>2, <2>1, FreeInv DEF Dequeue, IInv, TypeOK
<1>3. CASE Ask(w)
  BY Zenon, <1>3, FreeInv DEF Ask
<1>4. CASE Serve(w)
  <2>1. PICK j \in queue : queue' = queue \ {j} /\ Worker(w, "sent", j)
    BY Zenon, <1>4 DEF Serve
  <2> QED
    BY ZenonT(100), <1>1, <1>4, <2>1, FreeInv DEF Serve, IInv, TypeOK
<1>5. CASE Take(w)
  BY Zenon, <1>1, <1>5, FreeInv DEF Take, IInv, TypeOK, HandsOK
<1>6. CASE GuardRefuses(w)
  <2>1. Runs(w, wk[w].job) /\ wk[w].job \in Jobs
    BY Zenon, <1>6 DEF GuardRefuses, Runs, IInv, HandsOK
  <2>2. QueuedError(wk[w].job) \in Replies \cup {"ok"}
    BY Zenon, <2>1, QueuedErrorType DEF Replies
  <2> QED
    BY Zenon, <1>6, <2>1, <2>2, AnswerInv DEF GuardRefuses, Idle
<1> QED
  BY ZenonT(100), <1>2, <1>3, <1>4, <1>5, <1>6, ResolveInv DEF Fetch

\* The local pool: the work keeps the sender until it ends or panics.
LEMMA LocalInv ==
  ASSUME IInv, NEW w \in Workers, UNCHANGED rvars, config.executor = "local",
         Run(w) \/ Finish(w) \/ Panic(w) \/ Exit(w)
  PROVE  IInv'
<1>1. CASE Run(w)
  <2> USE DEF IInv
  <2>0. PICK j \in Jobs : j = wk[w].job
    BY Zenon, <1>1 DEF Run, HandsOK
  <2>1. /\ UNCHANGED <<in_progress, silent, outcome, translating, processing, reaper>>
        /\ UNCHANGED <<cancelled, pollers, lapsed, visits, notifying>>
        /\ UNCHANGED <<config, closer, stranded, permits, queue, pending, depth, call, why, woken, reply>>
        /\ wk[w].st = "claim" /\ Worker(w, "work", j) /\ "work" \in WorkerSt
    BY Zenon, <1>1, <2>0 DEF Run, rvars, client, lunchanged, WorkerSt
  <2>2. /\ wk' \in [Workers -> [st: WorkerSt, job: Jobs \cup {NoJob}]]
        /\ wk'[w].st = "work" /\ wk'[w].job = j /\ HandsOK'
        /\ \A v \in Workers : v # w => wk'[v] = wk[v]
    BY Zenon, <2>1, WorkerMoves
  <2>3. TypeOK'
    BY Zenon, <2>1, <2>2 DEF TypeOK
  <2>4. PermitsExact' /\ DepthExact' /\ NoneAfterDrain'
    BY Zenon, <2>1 DEF PermitsExact, DepthExact, NoneAfterDrain
  <2>5. Senders'
    <3>1. \A k \in Jobs : \A v \in Workers : Runs(v, k)' => Runs(v, k)
      BY ZenonT(100), <2>0, <2>1, <2>2 DEF Runs
    <3> QED
      BY Zenon, <2>1, <3>1, SendersKept DEF Early
  <2> QED
    BY Zenon, <2>2, <2>3, <2>4, <2>5
<1>2. CASE Finish(w)
  BY Zenon, <1>2, AnswerInv DEF Finish, Runs, Idle, lunchanged
<1>3. CASE Panic(w)
  BY Zenon, <1>3, AnswerInv DEF Panic, Runs, Replies, lunchanged
<1>4. CASE Exit(w)
  BY Zenon, <1>4, FreeInv DEF Exit, lunchanged
<1> QED
  BY Zenon, <1>1, <1>2, <1>3, <1>4

-----------------------------------------------------------------------------
(* The remote pool *)

\* A worker is given the job: the sender goes to the outcome task.
LEMMA ClaimWorkInv ==
  ASSUME IInv, NEW w \in Workers, config.executor = "remote", ClaimWork(w)
  PROVE  IInv'
<1> USE DEF IInv
<1>0. PICK j \in Jobs : j = wk[w].job
  BY Zenon DEF ClaimWork, HandsOK
<1>1. /\ UNCHANGED <<config, closer, stranded, permits, queue, pending, depth, call, why, woken, reply>>
      /\ UNCHANGED <<cancelled, pollers, lapsed, visits, notifying, outcome, reaper>>
      /\ wk[w].st = "claim" /\ Worker(w, "work", j) /\ "work" \in WorkerSt
      /\ in_progress' = in_progress \cup {j} /\ silent' = silent \ {j}
      /\ processing' = processing \cup {j} /\ translating' = translating \cup {j}
  BY Zenon, <1>0 DEF ClaimWork, client, runchanged, WorkerSt
<1>2. /\ wk' \in [Workers -> [st: WorkerSt, job: Jobs \cup {NoJob}]]
      /\ wk'[w].st = "work" /\ wk'[w].job = j /\ HandsOK'
      /\ \A v \in Workers : v # w => wk'[v] = wk[v]
  BY Zenon, <1>1, WorkerMoves
<1>3. TypeOK'
  BY Zenon, <1>1, <1>2 DEF TypeOK
<1>4. PermitsExact' /\ DepthExact' /\ NoneAfterDrain'
  BY Zenon, <1>1 DEF PermitsExact, DepthExact, NoneAfterDrain
<1>5. Senders'
  <2> SUFFICES ASSUME NEW k \in Jobs PROVE Sender(k)'
    BY ZenonT(100) DEF Senders
  <2>1. Sender(k) /\ Sender(j) /\ Runs(w, j) /\ Untaken(j)
    BY <1>0, <1>1 DEF Senders, Runs, Untaken
  <2>2. (Early(k)' <=> Early(k)) /\ \A v \in Workers : Runs(v, k)' <=> Runs(v, k) /\ v # w
    BY Zenon, <1>1, <1>2 DEF Early, Runs
  <2>3. CASE k = j
    <3>1. ~Untaken(j)'
      BY Zenon, <1>1, <2>1, <2>2, <2>3 DEF Untaken, Sender
    <3> QED
      BY ZenonT(100), <1>1, <2>1, <2>2, <2>3, <3>1 DEF Sender
  <2>4. CASE k # j
    <3>1. /\ (k \in translating' <=> k \in translating) /\ (k \in in_progress' <=> k \in in_progress)
          /\ Untaken(k)' => Untaken(k)
      BY Zenon, <1>1, <2>2, <2>4 DEF Untaken
    <3> QED
      BY Zenon, <1>1, <2>1, <2>2, <3>1 DEF Sender
  <2> QED
    BY Zenon, <2>3, <2>4
<1> QED
  BY Zenon, <1>2, <1>3, <1>4, <1>5

\* Outcomes are set for jobs that leave the in-progress map, and only for them.
LEMMA OutcomeInv ==
  ASSUME IInv, NEW S \in SUBSET in_progress,
         in_progress' = in_progress \ S, silent' = silent \ S,
         outcome' \in [Jobs -> {"none", "dropped"} \cup Outcomes],
         \A j \in Jobs \ S : outcome'[j] = outcome[j],
         wk' \in [Workers -> [st: WorkerSt, job: Jobs \cup {NoJob}]], HandsOK',
         \A j \in Jobs : \A w \in Workers : Runs(w, j)' => Runs(w, j),
         reaper' \in {"on", "stopping", "off"},
         UNCHANGED <<runchanged, reply, translating, processing>>
  PROVE  IInv'
<1> USE DEF IInv
<1>1. /\ UNCHANGED <<config, closer, stranded, permits, queue, pending, depth, call, why, woken, reply>>
      /\ UNCHANGED <<cancelled, pollers, lapsed, visits, notifying, translating, processing>>
  BY Zenon DEF client, runchanged
<1>2. TypeOK'
  BY Zenon, <1>1 DEF TypeOK
<1>3. PermitsExact' /\ DepthExact' /\ NoneAfterDrain'
  BY Zenon, <1>1 DEF PermitsExact, DepthExact, NoneAfterDrain
<1>4. Senders'
  <2> SUFFICES ASSUME NEW j \in Jobs PROVE Sender(j)'
    BY Zenon DEF Senders
  <2>1. Sender(j) /\ (Early(j)' <=> Early(j))
    BY Zenon, <1>1 DEF Senders, Early
  <2>2. Untaken(j)' => Untaken(j)
    BY Zenon, <1>1, <2>1 DEF Untaken
  <2>3. CASE j \in S
    BY Zenon, <1>1, <2>1, <2>2, <2>3 DEF Sender
  <2>4. CASE j \notin S
    BY ZenonT(100), <1>1, <2>1, <2>2, <2>4 DEF Sender
  <2> QED
    BY Zenon, <2>3, <2>4
<1> QED
  BY Zenon, <1>2, <1>3, <1>4

\* A completion: the entry and its outcome, or a 404.
LEMMA CompleteInv ==
  ASSUME IInv, NEW w \in Workers, config.executor = "remote", Complete(w)
  PROVE  IInv'
<1>0. PICK j \in Jobs : j = wk[w].job
  BY Zenon DEF Complete, IInv, HandsOK
<1>1. UNCHANGED <<runchanged, reply, translating, processing, reaper>> /\ wk[w].st = "work"
  BY Zenon DEF Complete
<1>2. CASE /\ j \in in_progress /\ in_progress' = in_progress \ {j} /\ silent' = silent \ {j}
           /\ \E o \in Outcomes : outcome' = [outcome EXCEPT ![j] = o]
           /\ Idle(w) \/ UNCHANGED wk
  <2>1. /\ outcome' \in [Jobs -> {"none", "dropped"} \cup Outcomes]
        /\ \A k \in Jobs \ {j} : outcome'[k] = outcome[k]
    BY SMTT(60), <1>2 DEF IInv, TypeOK
  <2>2. /\ wk' \in [Workers -> [st: WorkerSt, job: Jobs \cup {NoJob}]] /\ HandsOK'
        /\ \A v \in Workers : wk'[v] = wk[v] \/ wk'[v].st = "idle"
    <3>1. CASE Idle(w)
      <4>1. "idle" \in WorkerSt
        BY Zenon DEF WorkerSt
      <4> QED
        BY Zenon, <3>1, <4>1, WorkerMoves DEF Idle, IInv
    <3>2. CASE UNCHANGED wk
      BY Zenon, <3>2 DEF IInv, TypeOK, HandsOK
    <3> QED
      BY Zenon, <1>2, <3>1, <3>2
  <2>3. \A k \in Jobs : \A v \in Workers : Runs(v, k)' => Runs(v, k)
    BY Zenon, <1>1, <2>2 DEF Runs, runchanged
  <2>4. reaper' \in {"on", "stopping", "off"}
    BY Zenon, <1>1 DEF IInv, TypeOK
  <2>5. {j} \in SUBSET in_progress
    BY Zenon, <1>2
  <2> QED
    BY ZenonT(100), <1>1, <1>2, <2>1, <2>2, <2>3, <2>4, <2>5, OutcomeInv
<1>3. CASE Idle(w) /\ UNCHANGED <<in_progress, silent, outcome>>
  BY Zenon, <1>1, <1>3, FreeInv DEF Idle, runchanged, rvars
<1> QED
  BY Zenon, <1>0, <1>2, <1>3 DEF Complete

\* The reaper takes silent entries, its last drain all of them.
LEMMA ReapInv ==
  ASSUME IInv, Drain \/ \E j \in Jobs : Reap(j)
  PROVE  IInv'
<1>1. PICK S \in SUBSET in_progress : Evict(S)
  BY Zenon DEF Drain, Reap, IInv, TypeOK
<1>2. /\ outcome' \in [Jobs -> {"none", "dropped"} \cup Outcomes]
      /\ \A k \in Jobs \ S : outcome'[k] = outcome[k]
  BY Zenon, <1>1 DEF Evict, IInv, TypeOK
<1>3. /\ wk' \in [Workers -> [st: WorkerSt, job: Jobs \cup {NoJob}]] /\ HandsOK'
      /\ \A k \in Jobs : \A v \in Workers : Runs(v, k)' => Runs(v, k)
  BY Zenon, <1>1 DEF Evict, IInv, TypeOK, HandsOK, Runs, runchanged
<1>4. reaper' \in {"on", "stopping", "off"}
  BY Zenon DEF Drain, Reap, IInv, TypeOK
<1> QED
  BY Zenon, <1>1, <1>2, <1>3, <1>4, OutcomeInv DEF Evict

\* The outcome task uses the sender.
LEMMA DeliverInv ==
  ASSUME IInv, NEW j \in Jobs, Deliver(j)
  PROVE  IInv'
<1> USE DEF IInv
<1>1. /\ UNCHANGED <<config, closer, stranded, permits, queue, pending, depth, call, why, woken, wk>>
      /\ UNCHANGED <<cancelled, pollers, lapsed, visits, notifying, in_progress, silent, outcome>>
      /\ UNCHANGED <<processing, reaper>>
      /\ j \in translating /\ outcome[j] # "none" /\ translating' = translating \ {j}
      /\ reply' = [reply EXCEPT ![j] = Translate(outcome[j])]
  BY Zenon DEF Deliver, client, runchanged
<1>2. /\ reply' \in [Jobs -> Replies \cup {"ok"} \cup Outcomes]
      /\ \A k \in Jobs : k # j => reply'[k] = reply[k]
  <2>1. Translate(outcome[j]) \in Replies \cup Outcomes
    BY Zenon, <1>1 DEF Translate, TypeOK, Replies
  <2> QED
    BY Zenon, <1>1, <2>1 DEF TypeOK
<1>3. TypeOK'
  BY Zenon, <1>1, <1>2 DEF TypeOK
<1>4. HandsOK' /\ PermitsExact' /\ DepthExact' /\ NoneAfterDrain'
  BY Zenon, <1>1 DEF HandsOK, PermitsExact, DepthExact, NoneAfterDrain
<1>5. Senders'
  <2> SUFFICES ASSUME NEW k \in Jobs PROVE Sender(k)'
    BY Zenon DEF Senders
  <2>1. Sender(k) /\ (Early(k)' <=> Early(k)) /\ (Untaken(k)' <=> Untaken(k))
        /\ \A v \in Workers : Runs(v, k)' <=> Runs(v, k)
    BY Zenon, <1>1 DEF Senders, Early, Untaken, Runs
  <2>2. CASE k = j
    BY Zenon, <1>1, <2>1, <2>2 DEF Sender
  <2>3. CASE k # j
    BY Zenon, <1>1, <1>2, <2>1, <2>3 DEF Sender
  <2> QED
    BY Zenon, <2>2, <2>3
<1> QED
  BY Zenon, <1>3, <1>4, <1>5

\* Steps that only change who was heard from, or stop the reaper.
LEMMA QuietInv ==
  ASSUME IInv, silent' \subseteq in_progress, reaper' \in {"on", "stopping", "off"},
         UNCHANGED <<runchanged, reply, wk, in_progress, outcome, translating, processing>>
  PROVE  IInv'
<1>1. /\ UNCHANGED <<config, closer, stranded, permits, queue, pending, depth, call, why, woken, wk>>
      /\ UNCHANGED <<cancelled, pollers, lapsed, visits, notifying, in_progress, outcome>>
      /\ UNCHANGED <<processing, translating, reply>>
  BY Zenon DEF client, runchanged
<1>2. TypeOK'
  BY Zenon, <1>1 DEF IInv, TypeOK
<1>3. HandsOK' /\ PermitsExact' /\ DepthExact' /\ NoneAfterDrain'
  BY Zenon, <1>1 DEF IInv, HandsOK, PermitsExact, DepthExact, NoneAfterDrain
<1>4. Senders'
  <2>1. \A j \in Jobs : (Early(j)' <=> Early(j)) /\ \A w \in Workers : Runs(w, j)' <=> Runs(w, j)
    BY Zenon, <1>1 DEF Early, Runs
  <2> QED
    BY Zenon, <1>1, <2>1, SendersKept DEF IInv
<1> QED
  BY Zenon, <1>2, <1>3, <1>4 DEF IInv

\* The steps of a remote pool.
LEMMA RemoteInv ==
  ASSUME IInv, config.executor = "remote", RNext
  PROVE  IInv'
<1>1. silent \subseteq in_progress /\ reaper \in {"on", "stopping", "off"}
  BY Zenon DEF IInv, TypeOK
<1>2. ASSUME NEW w \in Workers, EndPoll(w) \/ WorkerLost(w) PROVE IInv'
  BY Zenon, <1>2, FreeInv DEF EndPoll, WorkerLost, Idle, runchanged
<1>3. ASSUME NEW w \in Workers, Heartbeat(w) PROVE IInv'
  BY Zenon, <1>1, <1>3, QuietInv DEF Heartbeat
<1>4. ASSUME NEW j \in Jobs, Silence(j) PROVE IInv'
  BY Zenon, <1>1, <1>4, QuietInv DEF Silence
<1>5. CASE Shutdown
  BY Zenon, <1>1, <1>5, QuietInv DEF Shutdown
<1> QED
  BY ZenonT(100), <1>2, <1>3, <1>4, <1>5, ClaimWorkInv, CompleteInv, ReapInv, DeliverInv DEF RNext

-----------------------------------------------------------------------------
(* The theorems *)

\* IInv is inductive: it holds initially and every step of the dispatcher, of its
\* queue and of either executor keeps it, a step that changes nothing included.
THEOREM Inductive == (Init => IInv) /\ (IInv /\ [Next]_vars => IInv')
<1>1. IInv /\ Next => IInv'
  <2> SUFFICES ASSUME IInv, Next PROVE IInv'
    BY Zenon
  <2>1. CASE DNext /\ UNCHANGED rvars
    BY Zenon, <2>1, CallInv, ClientInv, CloseInv, FetchInv DEF DNext
  <2>2. CASE config.executor = "local" /\ LNext /\ UNCHANGED rvars
    BY Zenon, <2>2, LocalInv DEF LNext
  <2>3. CASE config.executor = "remote" /\ RNext
    BY Zenon, <2>3, RemoteInv
  <2> QED
    BY Zenon, <2>1, <2>2, <2>3 DEF Next
<1>2. IInv /\ UNCHANGED vars => IInv'
  <2> SUFFICES ASSUME IInv, UNCHANGED vars PROVE IInv'
    BY Zenon
  <2>1. UNCHANGED <<runchanged, reply, wk, in_progress, silent, outcome, translating, processing, reaper>>
    BY Zenon DEF vars, dvars, rvars, runchanged
  <2>2. silent \subseteq in_progress /\ reaper \in {"on", "stopping", "off"}
    BY Zenon DEF IInv, TypeOK
  <2> QED
    BY Zenon, <2>1, <2>2, QuietInv
<1> QED
  BY Zenon, <1>1, <1>2, InitInv

\* Every reachable state of a dispatcher with its executor satisfies IInv.
THEOREM Invariance == Spec => []IInv
<1>1. Init => IInv
  BY Zenon, Inductive
<1>2. IInv /\ [Next]_vars => IInv'
  BY Zenon, Inductive
<1> QED
  BY <1>1, <1>2, PTL DEF Spec

\* Every variable of the dispatcher and the executors has its type: no step leaves
\* permits below zero or above the capacity of the admission semaphore.
THEOREM TypeCorrect == Spec => []TypeOK
<1>1. IInv => TypeOK
  BY Zenon DEF IInv
<1> QED
  BY <1>1, Invariance, PTL

\* For any number of jobs and workers, any capacity and any guard, a permit is
\* free, with a call that has not inserted, or in a pending entry.
THEOREM PermitsCorrect == Spec => []PermitsExact
<1>1. IInv => PermitsExact
  BY Zenon DEF IInv
<1> QED
  BY <1>1, Invariance, PTL

\* The queue_depth gauge counts every entry of the pending map once its caller has
\* counted itself.
THEOREM DepthCorrect == Spec => []DepthExact
<1>1. IInv => DepthExact
  BY Zenon DEF IInv
<1> QED
  BY <1>1, Invariance, PTL

\* Nothing enters the pending map after close has drained it.
THEOREM DrainedCorrect == Spec => []NoneAfterDrain
<1>1. IInv => NoneAfterDrain
  BY Zenon DEF IInv
<1> QED
  BY <1>1, Invariance, PTL

\* A step of a dispatch call answers only a call whose sender is still there.
LEMMA CallAnswers ==
  ASSUME IInv, NEW k \in Jobs, NEW j \in Jobs, CallStep(j)
  PROVE  reply'[k] = reply[k] \/ Untaken(k)
<1>1. reply' = reply \/ (Untaken(j) /\ \E r : reply' = [reply EXCEPT ![j] = r])
  <2>1. ASSUME RefuseUser(j) \/ Acquire(j) PROVE reply' = reply \/ (Untaken(j) /\ \E r : Return(j, r))
    BY Zenon, <2>1 DEF RefuseUser, Acquire, Untaken, Early
  <2>2. ASSUME CheckClosing(j) \/ Insert(j) PROVE reply' = reply \/ (Untaken(j) /\ \E r : Return(j, r))
    BY Zenon, <2>2 DEF CheckClosing, Insert, Closed, Untaken, Early
  <2>3. ASSUME Withdraw(j) PROVE reply' = reply \/ (Untaken(j) /\ \E r : Return(j, r))
    BY Zenon, <2>3 DEF Withdraw, Untaken
  <2>4. ASSUME Enqueue(j) \/ Arm(j) \/ Check(j) \/ Park(j) \/ Wake(j) \/ Receive(j) \/ DropCall(j)
        PROVE  reply' = reply
    BY Zenon, <2>4 DEF Enqueue, Arm, Check, Park, Wake, Receive, DropCall
  <2> QED
    BY Zenon, <2>1, <2>2, <2>3, <2>4 DEF CallStep, Return
<1>2. reply' = reply \/ (Untaken(j) /\ \A i \in Jobs : i # j => reply'[i] = reply[i])
  BY Zenon, <1>1 DEF IInv, TypeOK
<1> QED
  BY Zenon, <1>2

\* So does a worker of either executor, and close.
LEMMA WorkerAnswers ==
  ASSUME IInv, NEW k \in Jobs, NEW w \in Workers,
         Fetch(w) \/ (config.executor = "local" /\ (Run(w) \/ Finish(w) \/ Panic(w) \/ Exit(w)))
  PROVE  reply'[k] = reply[k] \/ Untaken(k)
<1>1. UNCHANGED reply \/ (Runs(w, wk[w].job) /\ \E r : reply' = [reply EXCEPT ![wk[w].job] = r])
  <2>1. ASSUME Dequeue(w) \/ Ask(w) \/ Serve(w) \/ Take(w) \/ Resolve(w) \/ Run(w) \/ Exit(w)
        PROVE  UNCHANGED reply
    BY Zenon, <2>1 DEF Dequeue, Ask, Serve, Take, Resolve, Run, Exit
  <2>2. ASSUME GuardRefuses(w) PROVE (\E r : reply' = [reply EXCEPT ![wk[w].job] = r]) /\ Runs(w, wk[w].job)
    BY Zenon, <2>2 DEF GuardRefuses, Runs
  <2>3. ASSUME config.executor = "local", Finish(w) \/ Panic(w)
        PROVE  (\E r : reply' = [reply EXCEPT ![wk[w].job] = r]) /\ Runs(w, wk[w].job)
    BY Zenon, <2>3 DEF Finish, Panic, Runs
  <2> QED
    BY Zenon, <2>1, <2>2, <2>3 DEF Fetch
<1>2. UNCHANGED reply \/ (Runs(w, wk[w].job) /\ (k # wk[w].job => reply'[k] = reply[k]))
  BY Zenon, <1>1 DEF IInv, TypeOK
<1> QED
  BY Zenon, <1>2 DEF Untaken

\* A call is answered once.  The reply sender is in one place until it is used, so
\* a step that answers finds no answer there; the outcome sender leaves with the
\* entry of in_progress, so a late completion finds neither.
THEOREM AnsweredCorrect == Spec => AnsweredOnce
<1> DEFINE Once == \A j \in Jobs : /\ reply[j] # "none" => reply'[j] = reply[j]
                                   /\ outcome[j] # "none" => outcome'[j] = outcome[j]
<1>1. IInv /\ [Next]_vars => [Once]_vars
  <2> SUFFICES ASSUME IInv, Next, NEW k \in Jobs
               PROVE  /\ reply[k] # "none" => reply'[k] = reply[k]
                      /\ outcome[k] # "none" => outcome'[k] = outcome[k]
    BY Zenon
  <2>1. Sender(k)
    BY Zenon DEF IInv, Senders
  <2>2. reply'[k] = reply[k] \/ Untaken(k) \/ k \in translating
    <3>1. ASSUME NEW j \in Jobs, ClientStep(j) PROVE reply' = reply
      BY Zenon, <3>1 DEF ClientStep, Cancel, Connect, Disconnect, Lapse, Notify
    <3>2. CASE Close
      BY Zenon, <3>2 DEF Close, CloseFlag, CloseAdmission, CloseQueue, CloseStep, CloseDrain, CloseReply,
                  Untaken
    <3>3. CASE DNext
      BY ZenonT(100), <3>1, <3>2, <3>3, CallAnswers, WorkerAnswers DEF DNext
    <3>4. CASE config.executor = "local" /\ LNext
      BY Zenon, <3>4, WorkerAnswers DEF LNext
    <3>5. CASE RNext
      <4>1. reply' = reply
            \/ \E j \in translating : \E r : reply' = [reply EXCEPT ![j] = r]
        BY Zenon, <3>5 DEF RNext, ClaimWork, EndPoll, Heartbeat, Complete, WorkerLost, Silence, Reap,
                    Deliver, Shutdown, Drain, Evict
      <4> QED
        BY Zenon, <4>1 DEF IInv, TypeOK
    <3> QED
      BY Zenon, <3>3, <3>4, <3>5 DEF Next
  <2>3. outcome'[k] = outcome[k] \/ k \in in_progress
    <3>1. CASE UNCHANGED rvars
      BY Zenon, <3>1 DEF rvars
    <3>2. CASE RNext
      <4>1. \/ outcome' = outcome
            \/ \E j \in in_progress : \E o : outcome' = [outcome EXCEPT ![j] = o]
            \/ \E S \in SUBSET in_progress : Evict(S)
        BY Zenon, <3>2 DEF RNext, ClaimWork, EndPoll, Heartbeat, Complete, WorkerLost, Silence, Reap,
                    Deliver, Shutdown, Drain, rvars, IInv, TypeOK
      <4> QED
        BY Zenon, <4>1 DEF IInv, TypeOK, Evict
    <3> QED
      BY Zenon, <3>1, <3>2 DEF Next
  <2> QED
    BY Zenon, <2>1, <2>2, <2>3 DEF Sender
<1>2. AnsweredOnce <=> [][Once]_vars
  BY Zenon DEF AnsweredOnce
<1> QED
  BY <1>1, <1>2, Invariance, PTL DEF Spec

-----------------------------------------------------------------------------
(* The contract.  Phase tells the places of the reply sender apart, so that    *)
(* the contract's steps follow from where Senders says the sender can be.      *)

Held(j) == With("claim", j)
Busy(j) == IF config.executor = "local" THEN With("work", j) ELSE j \in translating

\* What the contract sees of a step.
Shown == <<[j \in Jobs |-> Phase(j)], ~closing>>

\* A call is in one place.
LEMMA OnePlace ==
  ASSUME IInv, NEW j \in Jobs
  PROVE  /\ Early(j) => j \notin pending /\ ~Held(j) /\ ~Busy(j)
         /\ j \in pending \cup stranded => ~Held(j) /\ ~Busy(j) /\ ~Early(j)
         /\ Held(j) => ~Busy(j)
<1>1. Sender(j)
  BY Zenon DEF IInv, Senders
<1>2. \A w \in Workers : wk[w] \in [st: WorkerSt, job: Jobs \cup {NoJob}]
  BY Zenon DEF IInv, TypeOK
<1>3. Held(j) => \E w \in Workers : Runs(w, j) /\ wk[w].st = "claim"
  BY <1>2 DEF Held, With, Runs
<1>4. config.executor = "local" /\ Busy(j) => \E w \in Workers : Runs(w, j) /\ wk[w].st = "work"
  BY <1>2 DEF Busy, With, Runs
<1>5. config.executor # "local" => (Busy(j) <=> j \in translating)
  BY Zenon DEF Busy
<1> QED
  BY ZenonT(100), <1>1, <1>3, <1>4, <1>5 DEF Sender, Untaken

\* The phase that goes with each place.
LEMMA PhaseIs ==
  ASSUME NEW j \in Jobs
  PROVE  /\ Early(j) => Phase(j) = "idle"
         /\ ~Early(j) /\ j \in pending => Phase(j) = "queued"
         /\ ~Early(j) /\ j \notin pending /\ Held(j) => Phase(j) = "claimed"
         /\ ~Early(j) /\ j \notin pending /\ ~Held(j) /\ Busy(j) => Phase(j) = "running"
         /\ ~Early(j) /\ j \notin pending /\ ~Held(j) /\ ~Busy(j) => Phase(j) = "done"
BY Zenon DEF Phase, Early, Held, Busy

\* The same in the state a step leads to.
LEMMA PhaseIsNext ==
  ASSUME NEW j \in Jobs
  PROVE  /\ Early(j)' => Phase(j)' = "idle"
         /\ ~Early(j)' /\ j \in pending' => Phase(j)' = "queued"
         /\ ~Early(j)' /\ j \notin pending' /\ Held(j)' => Phase(j)' = "claimed"
         /\ ~Early(j)' /\ j \notin pending' /\ ~Held(j)' /\ Busy(j)' => Phase(j)' = "running"
         /\ ~Early(j)' /\ j \notin pending' /\ ~Held(j)' /\ ~Busy(j)' => Phase(j)' = "done"
BY Zenon DEF Phase, Early, Held, Busy

\* A call whose place does not change keeps its phase.
LEMMA Kept ==
  ASSUME NEW j \in Jobs, Early(j)' <=> Early(j), j \in pending' <=> j \in pending,
         Held(j)' <=> Held(j), Busy(j)' <=> Busy(j)
  PROVE  Phase(j)' = Phase(j)
BY SMTT(60), PhaseIs, PhaseIsNext

\* A step in which one call moves, and is seen to move.
LEMMA Moves ==
  ASSUME NEW j \in Jobs, \A k \in Jobs : k # j => Phase(k)' = Phase(k), UNCHANGED closing,
         \/ Phase(j) = "idle" /\ Phase(j)' = "done"
         \/ Phase(j) = "queued" /\ Phase(j)' = "claimed"
         \/ Phase(j) = "claimed" /\ Phase(j)' = "running"
         \/ Phase(j) \in {"claimed", "running"} /\ Phase(j)' = "done"
         \/ Phase(j) = "queued" /\ Phase(j)' = "done"
         \/ Phase(j)' = Phase(j)
  PROVE  [Contract!Next]_Shown
<1> DEFINE phase == [k \in Jobs |-> Phase(k)]
<1>1. \A to : Phase(j)' = to => phase' = [phase EXCEPT ![j] = to]
  BY Zenon
<1>2. phase[j] = Phase(j)
  BY Zenon
<1>3. CASE Phase(j) = "idle" /\ Phase(j)' = "done"
  BY Zenon, <1>1, <1>2, <1>3 DEF Contract!Next, Contract!Refuse, Contract!Move
<1>4. CASE Phase(j) = "queued" /\ Phase(j)' = "claimed"
  BY Zenon, <1>1, <1>2, <1>4 DEF Contract!Next, Contract!Claim, Contract!Move
<1>5. CASE Phase(j) = "claimed" /\ Phase(j)' = "running"
  BY Zenon, <1>1, <1>2, <1>5 DEF Contract!Next, Contract!Start, Contract!Move
<1>6. CASE Phase(j) \in {"claimed", "running"} /\ Phase(j)' = "done"
  BY Zenon, <1>1, <1>2, <1>6 DEF Contract!Next, Contract!Settle, Contract!Move
<1>7. CASE Phase(j) = "queued" /\ Phase(j)' = "done"
  <2>1. {j} \in SUBSET Contract!Queued
    BY Zenon, <1>2, <1>7 DEF Contract!Queued
  <2>2. phase' = [k \in Jobs |-> IF k \in {j} THEN "done" ELSE phase[k]]
    BY Zenon, <1>7
  <2> QED
    BY Zenon, <2>1, <2>2 DEF Contract!Next, Contract!Withdraw
<1>8. CASE Phase(j)' = Phase(j)
  BY Zenon, <1>8 DEF Shown
<1> QED
  BY ZenonT(100), <1>3, <1>4, <1>5, <1>6, <1>7, <1>8

\* No call moves, and closing is not begun.
LEMMA NoneMoves ==
  ASSUME \A j \in Jobs : Phase(j)' = Phase(j), UNCHANGED closing
  PROVE  [Contract!Next]_Shown
BY Zenon DEF Shown

\* A step of a dispatch call: it is refused, accepted while there is room, or
\* withdrawn.
LEMMA CallKeeps ==
  ASSUME IInv, NEW j \in Jobs, CallStep(j), UNCHANGED rvars
  PROVE  [Contract!Next]_Shown
<1>1. /\ UNCHANGED <<config, closer, wk, translating>> /\ pending' \subseteq pending \cup {j}
      /\ pending \subseteq pending' \cup {j}
  <2>1. ASSUME RefuseUser(j) \/ Acquire(j) \/ CheckClosing(j) \/ Enqueue(j) \/ Arm(j) \/ Check(j)
               \/ Park(j) \/ Wake(j) \/ Receive(j) \/ DropCall(j)
        PROVE  UNCHANGED <<config, closer, wk, pending>>
    BY Zenon, <2>1 DEF RefuseUser, Acquire, CheckClosing, Enqueue, Arm, Check, Park, Wake, Receive, DropCall
  <2>2. ASSUME Insert(j) \/ Withdraw(j)
        PROVE  UNCHANGED <<config, closer, wk>> /\ (pending' = pending \/ pending' = pending \cup {j}
                                                    \/ pending' = pending \ {j})
    BY Zenon, <2>2 DEF Insert, Withdraw
  <2> QED
    BY Zenon, <2>1, <2>2 DEF CallStep, rvars
<1>2. PICK s : call' = [call EXCEPT ![j] = s]
  <2>1. ASSUME RefuseUser(j) \/ Acquire(j) \/ CheckClosing(j) \/ Insert(j) PROVE \E s : call' = [call EXCEPT ![j] = s]
    BY Zenon, <2>1 DEF RefuseUser, Acquire, CheckClosing, Insert, Closed, Return
  <2>2. ASSUME Enqueue(j) \/ Arm(j) \/ Check(j) \/ Withdraw(j) \/ Park(j) \/ Wake(j) \/ Receive(j) \/ DropCall(j)
        PROVE \E s : call' = [call EXCEPT ![j] = s]
    BY Zenon, <2>2 DEF Enqueue, Arm, Check, Withdraw, Return, Park, Wake, Receive, DropCall
  <2> QED
    BY Zenon, <2>1, <2>2 DEF CallStep
<1>3. call'[j] = s /\ \A k \in Jobs : k # j => (Early(k)' <=> Early(k))
  BY ZenonT(100), <1>2 DEF IInv, TypeOK, Early
<1>4. \A k \in Jobs : (Held(k)' <=> Held(k)) /\ (Busy(k)' <=> Busy(k))
  BY Zenon, <1>1 DEF Held, Busy, With
<1>5. \A k \in Jobs : k # j => Phase(k)' = Phase(k)
  BY ZenonT(100), <1>1, <1>3, <1>4, Kept
<1>6. UNCHANGED closing
  BY Zenon, <1>1 DEF closing
<1>7. ASSUME Early(j), ~Early(j)', pending' = pending PROVE [Contract!Next]_Shown
  BY ZenonT(100), <1>4, <1>5, <1>6, <1>7, OnePlace, PhaseIs, PhaseIsNext, Moves
<1>8. ASSUME Early(j)' <=> Early(j), pending' = pending PROVE [Contract!Next]_Shown
  BY ZenonT(100), <1>4, <1>5, <1>6, <1>8, Kept, NoneMoves
<1>9. CASE RefuseUser(j) \/ Acquire(j) \/ CheckClosing(j)
  <2>1. pending' = pending /\ Early(j)
    BY Zenon, <1>9 DEF RefuseUser, Acquire, CheckClosing, Early
  <2> QED
    BY Zenon, <1>7, <1>8, <2>1
<1>10. CASE Insert(j)
  <2>1. call[j] = "insert" /\ Early(j)
    BY Zenon, <1>10 DEF Insert, Early
  <2>2. CASE Closed(j) /\ UNCHANGED pending
    BY ZenonT(100), <1>7, <1>8, <2>1, <2>2
  <2>3. CASE ~closing /\ pending' = pending \cup {j} /\ call' = [call EXCEPT ![j] = "enqueue"]
    <3>1. call'[j] = "enqueue" /\ ~Early(j)' /\ j \in pending'
      BY Zenon, <2>3 DEF IInv, TypeOK, Early
    <3>2. Phase(j) = "idle" /\ Phase(j)' = "queued"
      BY ZenonT(100), <2>1, <3>1, PhaseIs, PhaseIsNext
    <3>3. Contract!Queued = pending
      <4>1. \A k \in Jobs : Phase(k) = "queued" <=> k \in pending
        BY Zenon, PhaseIs, OnePlace
      <4> QED
        BY Zenon, <4>1 DEF Contract!Queued, IInv, TypeOK
    <3>4. Cardinality(pending) < Capacity
      <4>1. /\ permits \in Nat /\ Cardinality(pending) \in Nat /\ Cardinality(Permitted) \in Nat
            /\ Permitted # {} => Cardinality(Permitted) > 0
        BY Finite, FS_EmptySet DEF IInv
      <4>2. permits + Cardinality(Permitted) + Cardinality(pending) = Capacity
        BY Zenon DEF IInv, PermitsExact, Permitted
      <4>3. Permitted # {}
        BY Zenon, <2>1 DEF Permitted
      <4> QED
        BY SMTT(60), <4>1, <4>2, <4>3, DispatcherAssumption
    <3>5. [k \in Jobs |-> Phase(k)]' = [[k \in Jobs |-> Phase(k)] EXCEPT ![j] = "queued"]
      BY Zenon, <1>5, <3>2
    <3>6. Contract!Move(j, "idle", "queued")
      BY Zenon, <3>2, <3>5 DEF Contract!Move
    <3>7. Contract!Cardinality(pending) = Cardinality(pending)
      BY Zenon DEF Contract!Cardinality, Cardinality
    <3>8. Contract!Accept(j)
      BY ZenonT(100), <1>6, <2>3, <3>3, <3>4, <3>6, <3>7 DEF Contract!Accept
    <3> QED
      BY Zenon, <3>8 DEF Contract!Next
  <2> QED
    BY Zenon, <1>10, <2>2, <2>3 DEF Insert
<1>11. CASE Withdraw(j)
  <2>1. call[j] = "withdraw" /\ ~Early(j)
    BY Zenon, <1>11 DEF Withdraw, Early
  <2>2. ~Early(j)'
    BY ZenonT(100), <1>11, <1>3 DEF Withdraw, Early, Return, IInv, TypeOK
  <2>3. CASE pending' = pending
    BY ZenonT(100), <1>8, <2>1, <2>2, <2>3
  <2>4. CASE j \in pending /\ pending' = pending \ {j}
    BY ZenonT(100), <1>4, <1>5, <1>6, <2>1, <2>2, <2>4, OnePlace, PhaseIs, PhaseIsNext, Moves
  <2> QED
    BY Zenon, <1>11, <2>3, <2>4 DEF Withdraw
<1>12. CASE Enqueue(j) \/ Arm(j) \/ Check(j) \/ Park(j) \/ Wake(j) \/ Receive(j) \/ DropCall(j)
  <2>1. pending' = pending /\ ~Early(j)
    BY ZenonT(100), <1>12 DEF Enqueue, Arm, Check, Park, Wake, Receive, DropCall, Early, Suspended
  <2>2. s \in {"arm", "check", "withdraw", "park", "timed", "wait", "returned", "dropped"}
    BY ZenonT(100), <1>12, <1>2, <1>3 DEF Enqueue, Arm, Check, Park, Wake, Receive, DropCall, IInv, TypeOK
  <2> QED
    BY ZenonT(100), <1>3, <1>8, <2>1, <2>2 DEF Early
<1> QED
  BY ZenonT(100), <1>9, <1>10, <1>11, <1>12 DEF CallStep

\* Cancellations and polls move nothing; close begins, or sweeps the pending map.
LEMMA CloseKeeps ==
  ASSUME IInv, UNCHANGED rvars, Close \/ \E j \in Jobs : ClientStep(j)
  PROVE  [Contract!Next]_Shown
<1>1. UNCHANGED <<config, call, wk, translating>>
  BY Zenon DEF Close, CloseFlag, CloseAdmission, CloseQueue, CloseStep, CloseDrain, CloseReply, ClientStep,
         Cancel, Connect, Disconnect, Lapse, Notify, rvars
<1>2. \A k \in Jobs : (Held(k)' <=> Held(k)) /\ (Busy(k)' <=> Busy(k)) /\ (Early(k)' <=> Early(k))
  BY Zenon, <1>1 DEF Held, Busy, With, Early
<1>3. UNCHANGED pending => \A k \in Jobs : Phase(k)' = Phase(k)
  BY ZenonT(100), <1>2, Kept
<1>4. CASE CloseFlag
  BY Zenon, <1>3, <1>4 DEF CloseFlag, CloseStep, closing, Contract!Next, Contract!Shut
<1>5. CASE CloseDrain
  <2>1. UNCHANGED closing /\ pending' = {}
    BY Zenon, <1>5 DEF CloseDrain, closing
  <2>2. \A k \in Jobs : /\ Phase(k)' = IF k \in pending THEN "done" ELSE Phase(k)
                        /\ k \in pending => Phase(k) = "queued"
    <3> SUFFICES ASSUME NEW k \in Jobs
                 PROVE  /\ Phase(k)' = IF k \in pending THEN "done" ELSE Phase(k)
                        /\ k \in pending => Phase(k) = "queued"
      BY Zenon
    <3>1. CASE k \in pending
      BY ZenonT(100), <1>2, <2>1, <3>1, OnePlace, PhaseIs, PhaseIsNext
    <3>2. CASE k \notin pending
      BY ZenonT(100), <1>2, <2>1, <3>2, Kept
    <3> QED
      BY Zenon, <3>1, <3>2
  <2>3. pending \in SUBSET Contract!Queued
    BY Zenon, <2>2 DEF Contract!Queued, IInv, TypeOK
  <2>4. [k \in Jobs |-> Phase(k)]'
        = [k \in Jobs |-> IF k \in pending THEN "done" ELSE [i \in Jobs |-> Phase(i)][k]]
    BY Zenon, <2>2
  <2> QED
    BY Zenon, <2>1, <2>3, <2>4 DEF Contract!Next, Contract!Withdraw
<1>6. ASSUME CloseAdmission \/ CloseQueue \/ CloseReply PROVE UNCHANGED <<pending, closing>>
  BY Zenon, <1>6 DEF CloseAdmission, CloseQueue, CloseReply, CloseStep, closing
<1>7. ASSUME NEW j \in Jobs, ClientStep(j) PROVE UNCHANGED <<pending, closing>>
  BY Zenon, <1>7 DEF ClientStep, Cancel, Connect, Disconnect, Lapse, Notify, closing
<1> QED
  BY ZenonT(100), <1>3, <1>4, <1>5, <1>6, <1>7, NoneMoves DEF Close

\* What a step of worker w leaves in the hands of the workers.
LEMMA OtherHands ==
  ASSUME IInv, NEW w \in Workers, NEW st, NEW i, Worker(w, st, i)
  PROVE  \A s, k : (wk[w].st # s \/ wk[w].job # k)
                   => (With(s, k)' <=> With(s, k) \/ (s = st /\ k = i))
<1>1. /\ wk'[w] = [st |-> st, job |-> i]
      /\ \A v \in Workers : v # w => wk'[v] = wk[v]
  BY Zenon DEF Worker, IInv, TypeOK
<1>2. ASSUME NEW s, NEW k, wk[w].st # s \/ wk[w].job # k
      PROVE  With(s, k)' <=> With(s, k) \/ (s = st /\ k = i)
  <2>1. ASSUME NEW v \in Workers, wk'[v] = [st |-> s, job |-> k]
        PROVE  With(s, k) \/ (s = st /\ k = i)
    BY SMTT(60), <1>1, <2>1 DEF With
  <2>2. ASSUME NEW v \in Workers, wk[v] = [st |-> s, job |-> k] PROVE wk'[v] = [st |-> s, job |-> k]
    BY SMTT(60), <1>1, <1>2, <2>2
  <2>3. s = st /\ k = i => wk'[w] = [st |-> s, job |-> k]
    BY Zenon, <1>1
  <2> QED
    BY ZenonT(100), <2>1, <2>2, <2>3 DEF With
<1> QED
  BY Zenon, <1>2

\* A call that leaves the only worker it was with.
LEMMA LeavesHands ==
  ASSUME IInv, NEW w \in Workers, NEW st, NEW i, Worker(w, st, i),
         NEW j \in Jobs, Runs(w, j)
  PROVE  /\ With("claim", j)' => st = "claim" /\ i = j
         /\ config.executor = "local" /\ With("work", j)' => st = "work" /\ i = j
         /\ wk[w].st = "claim" => Held(j)
         /\ wk[w].st = "work" => Busy(j)
<1>1. /\ wk'[w] = [st |-> st, job |-> i]
      /\ \A v \in Workers : v # w => wk'[v] = wk[v]
      /\ \A v \in Workers : wk[v] = [st |-> wk[v].st, job |-> wk[v].job]
  BY Zenon DEF Worker, IInv, TypeOK
<1>2. \A v \in Workers : Runs(v, j) => v = w
  BY Zenon DEF IInv, Senders, Sender
<1>3. ASSUME NEW v \in Workers, NEW s \in {"claim", "work"}, wk'[v] = [st |-> s, job |-> j],
             s = "work" => config.executor = "local"
      PROVE  st = s /\ i = j
  <2>1. CASE v = w
    BY SMTT(60), <1>1, <1>3, <2>1
  <2>2. CASE v # w
    BY SMTT(60), <1>1, <1>2, <1>3, <2>2 DEF Runs
  <2> QED
    BY ZenonT(100), <2>1, <2>2
<1>4. With("claim", j)' => st = "claim" /\ i = j
  BY Zenon, <1>3 DEF With
<1>5. config.executor = "local" /\ With("work", j)' => st = "work" /\ i = j
  BY Zenon, <1>3 DEF With
<1> QED
  BY ZenonT(100), <1>1, <1>4, <1>5 DEF Runs, Held, Busy, With

\* A worker asks for a job, gets it, claims it or refuses it.
LEMMA FetchKeeps ==
  ASSUME IInv, NEW w \in Workers, Fetch(w), UNCHANGED rvars
  PROVE  [Contract!Next]_Shown
<1>1. UNCHANGED <<config, closer, call, translating>>
  BY Zenon DEF Fetch, Dequeue, Ask, Serve, Take, Resolve, GuardRefuses, rvars
<1>2. UNCHANGED closing /\ \A k \in Jobs : Early(k)' <=> Early(k)
  BY Zenon, <1>1 DEF closing, Early
<1>3. ASSUME NEW st, NEW i, Worker(w, st, i), st \notin {"claim", "work"},
             wk[w].st \notin {"claim", "work"}
      PROVE  \A k \in Jobs : (Held(k)' <=> Held(k)) /\ (Busy(k)' <=> Busy(k))
  BY ZenonT(100), <1>1, <1>3, OtherHands DEF Held, Busy
<1>4. CASE Dequeue(w) \/ Ask(w) \/ Serve(w) \/ Take(w)
  <2>1. /\ pending' = pending /\ wk[w].st \notin {"claim", "work"}
        /\ \E st \in {"got", "ask", "sent"} : \E i : Worker(w, st, i)
    BY Zenon, <1>4 DEF Dequeue, Ask, Serve, Take
  <2> QED
    BY ZenonT(100), <1>2, <1>3, <2>1, Kept, NoneMoves
<1>5. CASE Resolve(w)
  <2>0. PICK j \in Jobs : j = wk[w].job
    BY Zenon, <1>5 DEF Resolve, IInv, HandsOK
  <2>1. CASE pending' = pending /\ Idle(w)
    BY ZenonT(100), <1>2, <1>3, <1>5, <2>1, Kept, NoneMoves DEF Resolve, Idle
  <2>2. CASE j \in pending /\ pending' = pending \ {j} /\ Idle(w)
    <3>1. \A k \in Jobs : (Held(k)' <=> Held(k)) /\ (Busy(k)' <=> Busy(k))
      BY Zenon, <1>3, <1>5, <2>2 DEF Resolve, Idle
    <3>2. Phase(j) = "queued" /\ Phase(j)' = "done"
      BY ZenonT(100), <1>2, <2>2, <3>1, OnePlace, PhaseIs, PhaseIsNext
    <3>3. \A k \in Jobs : k # j => Phase(k)' = Phase(k)
      BY ZenonT(100), <1>2, <2>2, <3>1, Kept
    <3> QED
      BY ZenonT(100), <1>2, <3>2, <3>3, Moves
  <2>3. CASE j \in pending /\ pending' = pending \ {j} /\ Worker(w, "claim", j)
    <3>1. /\ \A k \in Jobs : (Held(k)' <=> Held(k) \/ k = j) /\ (Busy(k)' <=> Busy(k))
      BY SMTT(60), <1>1, <1>5, <2>3, OtherHands DEF Resolve, Held, Busy
    <3>2. Phase(j) = "queued" /\ Phase(j)' = "claimed"
      BY ZenonT(100), <1>2, <2>3, <3>1, OnePlace, PhaseIs, PhaseIsNext
    <3>3. \A k \in Jobs : k # j => Phase(k)' = Phase(k)
      BY ZenonT(100), <1>2, <2>3, <3>1, Kept
    <3> QED
      BY ZenonT(100), <1>2, <3>2, <3>3, Moves
  <2> QED
    BY ZenonT(100), <1>5, <2>0, <2>1, <2>2, <2>3 DEF Resolve
<1>6. CASE GuardRefuses(w)
  <2>0. PICK j \in Jobs : j = wk[w].job
    BY Zenon, <1>6 DEF GuardRefuses, IInv, HandsOK
  <2>1. /\ Worker(w, "idle", NoJob) /\ wk[w].st = "claim" /\ Runs(w, j) /\ pending' = pending
    BY ZenonT(100), <1>6, <2>0 DEF GuardRefuses, Idle, Runs
  <2>2. Held(j) /\ ~Held(j)'
    BY SMTT(60), <2>1, LeavesHands DEF Held
  <2>3. \A k \in Jobs : (k # j => (Held(k)' <=> Held(k))) /\ (Busy(k)' <=> Busy(k))
    BY SMTT(60), <1>1, <2>0, <2>1, OtherHands DEF Held, Busy
  <2>4. Phase(j) = "claimed" /\ Phase(j)' = "done"
    BY ZenonT(100), <1>2, <2>1, <2>2, <2>3, OnePlace, PhaseIs, PhaseIsNext
  <2>5. \A k \in Jobs : k # j => Phase(k)' = Phase(k)
    BY ZenonT(100), <1>2, <2>1, <2>3, Kept
  <2> QED
    BY ZenonT(100), <1>2, <2>4, <2>5, Moves
<1> QED
  BY ZenonT(100), <1>4, <1>5, <1>6 DEF Fetch

\* A local worker starts the job it claimed, and settles the one it started.
LEMMA LocalKeeps ==
  ASSUME IInv, NEW w \in Workers, config.executor = "local", UNCHANGED rvars,
         Run(w) \/ Finish(w) \/ Panic(w) \/ Exit(w)
  PROVE  [Contract!Next]_Shown
<1>1. UNCHANGED <<config, closer, call, pending, translating>>
  BY Zenon DEF Run, Finish, Panic, Exit, lunchanged, rvars
<1>2. UNCHANGED closing /\ \A k \in Jobs : Early(k)' <=> Early(k)
  BY Zenon, <1>1 DEF closing, Early
<1>3. CASE Exit(w)
  <2>1. Worker(w, "exited", NoJob) /\ wk[w].st \in {"idle", "ask"}
    BY ZenonT(100), <1>3 DEF Exit
  <2>2. \A k \in Jobs : (Held(k)' <=> Held(k)) /\ (Busy(k)' <=> Busy(k))
    BY SMTT(60), <1>1, <2>1, OtherHands DEF Held, Busy
  <2> QED
    BY ZenonT(100), <1>1, <1>2, <2>2, Kept, NoneMoves
<1>4. CASE Run(w)
  <2>0. PICK j \in Jobs : j = wk[w].job
    BY Zenon, <1>4 DEF Run, IInv, HandsOK
  <2>1. Worker(w, "work", j) /\ wk[w].st = "claim" /\ Runs(w, j)
    BY Zenon, <1>4, <2>0 DEF Run, Runs
  <2>2. Held(j) /\ ~Held(j)'
    BY ZenonT(100), <2>1, LeavesHands DEF Held
  <2>3. Busy(j)' /\ \A k \in Jobs : k # j => (Held(k)' <=> Held(k)) /\ (Busy(k)' <=> Busy(k))
    BY SMTT(60), <1>1, <2>0, <2>1, OtherHands DEF Held, Busy
  <2>4. Phase(j) = "claimed" /\ Phase(j)' = "running"
    BY ZenonT(100), <1>1, <1>2, <2>2, <2>3, OnePlace, PhaseIs, PhaseIsNext
  <2>5. \A k \in Jobs : k # j => Phase(k)' = Phase(k)
    BY ZenonT(100), <1>1, <1>2, <2>3, Kept
  <2> QED
    BY ZenonT(100), <1>2, <2>4, <2>5, Moves
<1>5. CASE Finish(w) \/ Panic(w)
  <2>0. PICK j \in Jobs : j = wk[w].job
    BY Zenon, <1>5 DEF Finish, Panic, IInv, HandsOK
  <2>1. wk[w].st = "work" /\ Runs(w, j) /\ \E st \in {"idle", "dead"} : Worker(w, st, NoJob)
    BY ZenonT(100), <1>5, <2>0 DEF Finish, Panic, Idle, Runs
  <2>2. Busy(j) /\ ~Busy(j)'
    BY ZenonT(100), <1>1, <2>1, LeavesHands DEF Busy
  <2>3. \A k \in Jobs : (Held(k)' <=> Held(k)) /\ (k # j => (Busy(k)' <=> Busy(k)))
    BY SMTT(60), <1>1, <2>0, <2>1, OtherHands DEF Held, Busy
  <2>4. Phase(j) = "running" /\ Phase(j)' = "done"
    BY ZenonT(100), <1>1, <1>2, <2>2, <2>3, OnePlace, PhaseIs, PhaseIsNext
  <2>5. \A k \in Jobs : k # j => Phase(k)' = Phase(k)
    BY ZenonT(100), <1>1, <1>2, <2>3, Kept
  <2> QED
    BY ZenonT(100), <1>2, <2>4, <2>5, Moves
<1> QED
  BY Zenon, <1>3, <1>4, <1>5

\* A remote job is started when handle_get_work returns it, and settled by its
\* outcome task; what its worker does in between is not seen.
LEMMA RemoteKeeps ==
  ASSUME IInv, config.executor = "remote", RNext
  PROVE  [Contract!Next]_Shown
<1>1. UNCHANGED <<config, closer, call, pending>>
  BY Zenon DEF RNext, ClaimWork, EndPoll, Heartbeat, Complete, WorkerLost, Silence, Reap, Deliver,
         Shutdown, Drain, Evict, runchanged
<1>2. UNCHANGED closing /\ (\A k \in Jobs : Early(k)' <=> Early(k))
      /\ \A k : (Busy(k) <=> k \in translating) /\ (Busy(k)' <=> k \in translating')
  BY Zenon, <1>1 DEF closing, Early, Busy
<1>3. ASSUME NEW w \in Workers, ClaimWork(w) PROVE [Contract!Next]_Shown
  <2>0. PICK j \in Jobs : j = wk[w].job
    BY Zenon, <1>3 DEF ClaimWork, IInv, HandsOK
  <2>1. Worker(w, "work", j) /\ wk[w].st = "claim" /\ Runs(w, j) /\ translating' = translating \cup {j}
    BY ZenonT(100), <1>3, <2>0 DEF ClaimWork, Runs
  <2>2. Held(j) /\ ~Held(j)' /\ Busy(j)'
    BY SMTT(60), <1>2, <2>1, LeavesHands DEF Held
  <2>3. \A k \in Jobs : k # j => (Held(k)' <=> Held(k)) /\ (Busy(k)' <=> Busy(k))
    BY SMTT(60), <1>2, <2>0, <2>1, OtherHands DEF Held
  <2>4. Phase(j) = "claimed" /\ Phase(j)' = "running"
    BY ZenonT(100), <1>1, <1>2, <2>2, <2>3, OnePlace, PhaseIs, PhaseIsNext
  <2>5. \A k \in Jobs : k # j => Phase(k)' = Phase(k)
    BY ZenonT(100), <1>1, <1>2, <2>3, Kept
  <2> QED
    BY ZenonT(100), <1>2, <2>4, <2>5, Moves
<1>4. ASSUME NEW j \in Jobs, Deliver(j) PROVE [Contract!Next]_Shown
  <2>1. j \in translating /\ translating' = translating \ {j} /\ UNCHANGED wk
    BY Zenon, <1>4 DEF Deliver
  <2>2. /\ Busy(j) /\ ~Busy(j)'
        /\ \A k \in Jobs : (Held(k)' <=> Held(k)) /\ (k # j => (Busy(k)' <=> Busy(k)))
    BY Zenon, <1>2, <2>1 DEF Held, With
  <2>3. Phase(j) = "running" /\ Phase(j)' = "done"
    BY ZenonT(100), <1>1, <1>2, <2>2, OnePlace, PhaseIs, PhaseIsNext
  <2>4. \A k \in Jobs : k # j => Phase(k)' = Phase(k)
    BY ZenonT(100), <1>1, <1>2, <2>2, Kept
  <2> QED
    BY ZenonT(100), <1>2, <2>3, <2>4, Moves
<1>5. ASSUME translating' = translating,
             UNCHANGED wk \/ \E w \in Workers : wk[w].st # "claim" /\ Idle(w)
      PROVE  [Contract!Next]_Shown
  <2>1. \A k \in Jobs : Held(k)' <=> Held(k)
    <3>1. CASE UNCHANGED wk
      BY ZenonT(100), <3>1 DEF Held, With
    <3>2. ASSUME NEW w \in Workers, wk[w].st # "claim", Idle(w)
          PROVE  \A k \in Jobs : Held(k)' <=> Held(k)
      BY SMTT(60), <3>2, OtherHands DEF Held, Idle
    <3> QED
      BY ZenonT(100), <1>5, <3>1, <3>2
  <2> QED
    BY ZenonT(100), <1>1, <1>2, <1>5, <2>1, Kept, NoneMoves
<1>6. ASSUME NEW w \in Workers, EndPoll(w) \/ Heartbeat(w) \/ Complete(w) \/ WorkerLost(w)
      PROVE  [Contract!Next]_Shown
  BY ZenonT(100), <1>5, <1>6 DEF EndPoll, Heartbeat, Complete, WorkerLost, rvars
<1>7. ASSUME Shutdown \/ Drain \/ \E j \in Jobs : Silence(j) \/ Reap(j)
      PROVE  [Contract!Next]_Shown
  BY ZenonT(100), <1>5, <1>7 DEF Shutdown, Drain, Silence, Reap, Evict
<1> QED
  BY ZenonT(100), <1>3, <1>4, <1>6, <1>7 DEF RNext

\* The dispatcher implements DispatchContract with either executor and either kind
\* of queue, for any number of jobs and workers and any capacity: the initial
\* states map to the contract's, and every step to one of its steps or to none.
THEOREM ContractCorrect == Spec => KeepsContract
<1>1. Init => Contract!Init
  <2> SUFFICES ASSUME Init PROVE Contract!Init
    BY Zenon
  <2>1. \A j \in Jobs : Phase(j) = "idle"
    BY Zenon DEF Init, DInit, Phase
  <2>2. ~closing
    BY Zenon DEF Init, DInit, closing
  <2> QED
    BY ZenonT(100), <2>1, <2>2 DEF Contract!Init
<1>2. IInv /\ [Next]_vars => [Contract!Next]_Shown
  <2> SUFFICES ASSUME IInv, [Next]_vars PROVE [Contract!Next]_Shown
    BY Zenon
  <2>1. CASE DNext /\ UNCHANGED rvars
    BY ZenonT(100), <2>1, CallKeeps, CloseKeeps, FetchKeeps DEF DNext
  <2>2. CASE config.executor = "local" /\ LNext /\ UNCHANGED rvars
    BY Zenon, <2>2, LocalKeeps DEF LNext
  <2>3. CASE config.executor = "remote" /\ RNext
    BY Zenon, <2>3, RemoteKeeps
  <2>4. CASE UNCHANGED vars
    <3>1. UNCHANGED <<config, closer, call, pending, wk, translating>>
      BY Zenon, <2>4 DEF vars, dvars, rvars
    <3>2. UNCHANGED closing /\ \A k \in Jobs : /\ (Early(k)' <=> Early(k))
                                              /\ (Held(k)' <=> Held(k)) /\ (Busy(k)' <=> Busy(k))
      BY Zenon, <3>1 DEF closing, Early, Held, Busy, With
    <3> QED
      BY ZenonT(100), <3>1, <3>2, Kept, NoneMoves
  <2> QED
    BY ZenonT(100), <2>1, <2>2, <2>3, <2>4 DEF Next
<1>3. KeepsContract <=> Contract!Init /\ [][Contract!Next]_Shown
  BY Zenon DEF KeepsContract, Contract!Spec, Shown
<1> QED
  BY <1>1, <1>2, <1>3, Invariance, PTL DEF Spec

-----------------------------------------------------------------------------
(* No pending entry is forgotten *)

\* A FIFO queue hands a job over in one step.
FifoOK == config.queue = "fifo" => \A w \in Workers : wk[w].st \notin {"ask", "sent"}
KInv == IInv /\ FifoOK /\ JobKept

\* Job j can still reach an executor.
Reach(j) == QueueClosed \/ call[j] = "enqueue" \/ j \in queue \/ With("sent", j) \/ With("got", j)

\* A step of a dispatch call: what it inserts it also puts into the queue.
LEMMA CallReach ==
  ASSUME KInv, NEW j \in Jobs, CallStep(j)
  PROVE  FifoOK' /\ JobKept'
<1>1. UNCHANGED <<config, closer, wk>>
  BY Zenon DEF CallStep, RefuseUser, Acquire, CheckClosing, Insert, Enqueue, Arm, Check, Withdraw,
         Park, Wake, Receive, DropCall
<1>2. FifoOK' /\ (QueueClosed' <=> QueueClosed) /\ \A s, k : With(s, k)' <=> With(s, k)
  BY Zenon, <1>1 DEF KInv, FifoOK, QueueClosed, With
<1>3. call \in [Jobs -> CallPc] /\ pending \subseteq Jobs
  BY Zenon DEF KInv, IInv, TypeOK
<1>4. ASSUME Insert(j), pending' # pending PROVE call'[j] = "enqueue" /\ pending' = pending \cup {j}
  BY Zenon, <1>3, <1>4 DEF Insert
<1>5. ASSUME Enqueue(j) PROVE j \in queue' \/ QueueClosed
  BY Zenon, <1>5 DEF Enqueue, Push
<1>6. /\ queue \subseteq queue' /\ pending' \subseteq pending \cup {j}
      /\ \A k \in Jobs : k # j => call'[k] = call[k]
  <2>1. ASSUME RefuseUser(j) \/ Acquire(j) \/ CheckClosing(j) \/ Insert(j)
        PROVE  /\ queue' = queue /\ pending' \subseteq pending \cup {j}
               /\ \A k \in Jobs : k # j => call'[k] = call[k]
    BY ZenonT(100), <1>3, <2>1 DEF RefuseUser, Acquire, CheckClosing, Insert, Closed, Return
  <2>2. ASSUME Enqueue(j)
        PROVE  /\ queue \subseteq queue' /\ pending' = pending
               /\ \A k \in Jobs : k # j => call'[k] = call[k]
    BY ZenonT(100), <1>3, <2>2 DEF Enqueue, Push
  <2>3. ASSUME Arm(j) \/ Check(j) \/ Withdraw(j) \/ Park(j) \/ Wake(j) \/ Receive(j) \/ DropCall(j)
        PROVE  /\ queue' = queue /\ pending' \subseteq pending
               /\ \A k \in Jobs : k # j => call'[k] = call[k]
    BY ZenonT(100), <1>3, <2>3 DEF Arm, Check, Withdraw, Return, Park, Wake, Receive, DropCall
  <2> QED
    BY ZenonT(100), <2>1, <2>2, <2>3 DEF CallStep
<1>7. ASSUME j \in pending, call[j] = "enqueue" PROVE Enqueue(j)
  BY ZenonT(100), <1>7 DEF CallStep, RefuseUser, Acquire, CheckClosing, Insert, Arm, Check, Withdraw,
         Park, Wake, Receive, DropCall, Suspended
<1>8. ASSUME j \in pending', j \notin pending PROVE Insert(j)
  BY Zenon, <1>8 DEF CallStep, RefuseUser, Acquire, CheckClosing, Enqueue, Arm, Check, Withdraw,
         Park, Wake, Receive, DropCall
<1>9. ASSUME JobNotLost PROVE JobNotLost'
  <2> SUFFICES ASSUME NEW k \in pending' PROVE Reach(k)'
    BY Zenon DEF JobNotLost, Reach
  <2>1. CASE k \in pending
    <3>1. Reach(k)
      BY Zenon, <1>9, <2>1 DEF JobNotLost, Reach
    <3> QED
      BY ZenonT(100), <1>2, <1>3, <1>5, <1>6, <1>7, <2>1, <3>1 DEF Reach
  <2>2. CASE k \notin pending
    BY ZenonT(100), <1>4, <1>6, <1>8, <2>2 DEF Reach
  <2> QED
    BY Zenon, <2>1, <2>2
<1> QED
  BY ZenonT(100), <1>1, <1>2, <1>9 DEF KInv, JobKept

\* Steps that at most empty the pending map, close the queue or touch the client.
LEMMA CloseReach ==
  ASSUME KInv, Close \/ \E j \in Jobs : ClientStep(j)
  PROVE  FifoOK' /\ JobKept'
<1>1. UNCHANGED <<config, wk, queue, call>>
  BY Zenon DEF Close, CloseFlag, CloseAdmission, CloseQueue, CloseStep, CloseDrain, CloseReply, ClientStep,
         Cancel, Connect, Disconnect, Lapse, Notify
<1>2. pending' \subseteq pending /\ (QueueClosed => QueueClosed')
  <2>1. ASSUME Close PROVE pending' \subseteq pending /\ (QueueClosed => QueueClosed')
    BY Zenon, <2>1 DEF Close, CloseFlag, CloseAdmission, CloseQueue, CloseStep, CloseDrain, CloseReply, QueueClosed
  <2>2. ASSUME NEW j \in Jobs, ClientStep(j) PROVE UNCHANGED <<pending, closer>>
    BY Zenon, <2>2 DEF ClientStep, Cancel, Connect, Disconnect, Lapse, Notify
  <2> QED
    BY Zenon, <2>1, <2>2 DEF QueueClosed
<1> QED
  BY Zenon, <1>1, <1>2 DEF KInv, FifoOK, JobKept, JobNotLost, With

\* A worker's step: the job stays in its hands until it leaves the pending map.
LEMMA HandsReach ==
  ASSUME KInv, NEW w \in Workers, NEW st, NEW i, Worker(w, st, i), config' = config,
         st \in {"ask", "sent"} => config.queue = "weighted",
         closer' = closer, call' = call, pending' \subseteq pending,
         wk[w].st \in {"sent", "got"} /\ wk[w].job \in pending' => st = "got" /\ i = wk[w].job,
         queue' \subseteq queue, \A k \in queue \ queue' : i = k /\ st \in {"sent", "got"}
  PROVE  FifoOK' /\ JobKept'
<1>1. /\ wk'[w].st = st /\ \A v \in Workers : v # w => wk'[v] = wk[v]
      /\ wk'[w] = [st |-> st, job |-> i]
  BY Zenon DEF Worker, KInv, IInv, TypeOK
<1>2. FifoOK'
  <2>1. config.queue = "fifo" => st \notin {"ask", "sent"}
    BY Zenon
  <2> QED
    BY Zenon, <1>1, <2>1 DEF KInv, FifoOK
<1>3. ASSUME JobNotLost PROVE JobNotLost'
  <2> SUFFICES ASSUME NEW k \in pending' PROVE Reach(k)'
    BY Zenon DEF JobNotLost, Reach
  <2>1. Reach(k) /\ (QueueClosed' <=> QueueClosed)
    BY Zenon, <1>3 DEF JobNotLost, Reach, QueueClosed
  <2>2. CASE k \in queue
    BY ZenonT(100), <1>1, <2>2 DEF Reach, With
  <2>3. ASSUME NEW s \in {"sent", "got"}, With(s, k) PROVE Reach(k)'
    <3>1. PICK v \in Workers : wk[v] = [st |-> s, job |-> k]
      BY ZenonT(100), <2>3 DEF With
    <3>2. CASE v = w
      <4>1. wk'[w] = [st |-> "got", job |-> k]
        BY SMTT(60), <1>1, <3>1, <3>2
      <4> QED
        BY ZenonT(100), <4>1 DEF Reach, With
    <3>3. CASE v # w
      <4>1. wk'[v] = [st |-> s, job |-> k]
        BY ZenonT(100), <1>1, <3>1, <3>3
      <4> QED
        BY Zenon, <4>1 DEF Reach, With
    <3> QED
      BY ZenonT(100), <3>2, <3>3
  <2> QED
    BY ZenonT(100), <2>1, <2>2, <2>3 DEF Reach
<1> QED
  BY ZenonT(100), <1>2, <1>3 DEF KInv, JobKept

\* The steps every executor shares.
LEMMA FetchReach ==
  ASSUME KInv, NEW w \in Workers, Fetch(w)
  PROVE  FifoOK' /\ JobKept'
<1>1. UNCHANGED <<config, closer, call>>
  BY Zenon DEF Fetch, Dequeue, Ask, Serve, Take, Resolve, GuardRefuses
<1>2. /\ config.queue \in {"fifo", "weighted"}
      /\ wk[w].st \in {"ask", "sent"} => config.queue = "weighted"
  BY ZenonT(100), DispatcherAssumption DEF KInv, IInv, TypeOK, FifoOK
<1>3. CASE Dequeue(w) \/ Serve(w)
  <2>1. PICK j \in queue :
          /\ queue' = queue \ {j}
          /\ (wk[w].st = "idle" /\ Worker(w, "got", j)) \/ (wk[w].st = "ask" /\ Worker(w, "sent", j))
    BY Zenon, <1>3 DEF Dequeue, Serve
  <2>2. pending' = pending
    BY Zenon, <1>3 DEF Dequeue, Serve
  <2> QED
    BY ZenonT(100), <1>1, <1>2, <2>1, <2>2, HandsReach
<1>4. CASE Ask(w)
  BY ZenonT(100), <1>1, <1>4, HandsReach DEF Ask
<1>5. CASE Take(w)
  BY ZenonT(100), <1>1, <1>5, HandsReach DEF Take
<1>6. CASE Resolve(w)
  <2>1. /\ queue' = queue /\ wk[w].st = "got" /\ pending' \subseteq pending /\ wk[w].job \notin pending'
        /\ \E st \in {"idle", "claim"} : \E i : Worker(w, st, i)
    BY Zenon, <1>6 DEF Resolve, Idle
  <2> QED
    BY ZenonT(100), <1>1, <2>1, HandsReach
<1>7. CASE GuardRefuses(w)
  BY ZenonT(100), <1>1, <1>7, HandsReach DEF GuardRefuses, Idle
<1> QED
  BY ZenonT(100), <1>3, <1>4, <1>5, <1>6, <1>7 DEF Fetch

\* The steps of one executor; only a poll of a remote pool on a weighted queue can
\* end with a job in its hands.
LEMMA ExecutorReach ==
  ASSUME KInv, \/ LNext
               \/ config.executor = "remote" /\ RNext
  PROVE  FifoOK' /\ JobKept'
<1>1. UNCHANGED <<config, closer, call, queue, pending>>
  <2>1. ASSUME LNext PROVE UNCHANGED <<config, closer, call, queue, pending>>
    BY ZenonT(100), <2>1 DEF LNext, Run, Finish, Panic, Exit, lunchanged
  <2>2. ASSUME RNext PROVE UNCHANGED <<config, closer, call, queue, pending>>
    BY ZenonT(100), <2>2 DEF RNext, ClaimWork, EndPoll, Heartbeat, Complete, WorkerLost, Silence, Reap, Deliver,
                Shutdown, Drain, Evict, runchanged
  <2> QED
    BY Zenon, <2>1, <2>2
<1>2. CASE UNCHANGED wk
  BY ZenonT(100), <1>1, <1>2 DEF KInv, FifoOK, JobKept, JobNotLost, QueueClosed, With
<1>3. ASSUME NEW w \in Workers, wk[w].st \notin {"sent", "got"}, NEW i,
             NEW st \in {"idle", "work", "dead", "exited"}, Worker(w, st, i)
      PROVE  FifoOK' /\ JobKept'
  BY ZenonT(100), <1>1, <1>3, HandsReach
<1>4. ASSUME NEW w \in Workers, Run(w) \/ Finish(w) \/ Panic(w) \/ Exit(w)
      PROVE  FifoOK' /\ JobKept'
  BY ZenonT(100), <1>3, <1>4 DEF Run, Finish, Panic, Exit, Idle
<1>5. ASSUME NEW w \in Workers, ClaimWork(w) \/ Heartbeat(w) \/ Complete(w) \/ WorkerLost(w)
      PROVE  FifoOK' /\ JobKept'
  BY ZenonT(100), <1>2, <1>3, <1>5 DEF ClaimWork, Heartbeat, Complete, WorkerLost, Idle
<1>6. ASSUME NEW w \in Workers, EndPoll(w), config.executor = "remote"
      PROVE  FifoOK' /\ JobKept'
  <2>1. config.queue # "fifo" /\ config \in [executor: {"local", "remote"}, queue: {"fifo", "weighted"}]
    BY ZenonT(100), <1>6, DispatcherAssumption DEF EndPoll, KInv, IInv, TypeOK, FifoOK
  <2>2. config = [executor |-> "remote", queue |-> "weighted"]
    BY Zenon, <1>6, <2>1
  <2> QED
    BY ZenonT(100), <1>1, <2>1, <2>2 DEF FifoOK, JobKept
<1>7. ASSUME Shutdown \/ Drain \/ \E j \in Jobs : Silence(j) \/ Reap(j) \/ Deliver(j)
      PROVE  UNCHANGED wk
  BY Zenon, <1>7 DEF Shutdown, Drain, Silence, Reap, Deliver, Evict
<1> QED
  BY ZenonT(100), <1>2, <1>4, <1>5, <1>6, <1>7 DEF LNext, RNext

\* An entry of the pending map is not forgotten, whatever the interleaving, but
\* for a remote pool on a weighted queue: a queue that hands over in one step, or
\* to a worker that waits, never leaves a job with nobody.
THEOREM JobKeptCorrect == Spec => []JobKept
<1>1. Init => FifoOK /\ JobKept
  BY DEF Init, DInit, FifoOK, JobKept, JobNotLost
<1>2. IInv /\ FifoOK /\ JobKept /\ [Next]_vars => FifoOK' /\ JobKept'
  <2> SUFFICES ASSUME KInv, [Next]_vars PROVE FifoOK' /\ JobKept'
    BY Zenon DEF KInv
  <2>1. CASE DNext
    BY ZenonT(100), <2>1, CallReach, CloseReach, FetchReach DEF DNext
  <2>2. CASE LNext \/ (config.executor = "remote" /\ RNext)
    BY Zenon, <2>2, ExecutorReach
  <2>3. CASE UNCHANGED vars
    <3>1. UNCHANGED <<config, closer, call, queue, pending, wk>>
      BY Zenon, <2>3 DEF vars, dvars
    <3> QED
      BY Zenon, <3>1 DEF KInv, FifoOK, JobKept, JobNotLost, QueueClosed, With
  <2> QED
    BY ZenonT(100), <2>1, <2>2, <2>3 DEF Next
<1> QED
  BY <1>1, <1>2, Invariance, PTL DEF Spec
=============================================================================
