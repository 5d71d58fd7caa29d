--------------------------- MODULE RecoveryProofs ---------------------------
(***************************************************************************)
(* Proofs about Recovery: for any number of brokers, jobs and polls and    *)
(* with every fault, a persisted job keeps its record until its result is  *)
(* taken; and, except for what an own broker that serves without a lease   *)
(* costs, brokers in service never execute one job twice, a record is only *)
(* taken from an owner whose lease is gone, and a client is told that its  *)
(* job is lost only when no broker in service has it.                      *)
(***************************************************************************)
EXTENDS Recovery, TLAPS

\* A broker in service without a lease exposes the jobs whose ids name it; a
\* stopped broker has no table.
Fleet ==
  /\ \A j \in Jobs :
       j \in issued /\ up[Hint[j]] = "up" /\ ~Active(Hint[j]) => j \in exposed
  /\ \A b \in Brokers : up[b] = "down" => \A j \in Jobs : local[b][j] = "none"

\* The life of job j: it is issued, sent to the store once, by the broker of its
\* hint, and other brokers have it only once it was written.
Life(j) ==
  /\ rec[j] # NoBroker => j \in written
  /\ j \in written => j \in consumed \/ rec[j] # NoBroker
  /\ j \in written \cup upserts => j \in issued
  /\ j \in upserts => j \notin written
  /\ \A b \in Brokers :
       /\ j \in deletes[b] => j \in consumed
       /\ local[b][j] # "none" => j \in issued /\ (b = Hint[j] \/ j \in written)
       /\ local[b][j] = "run" => b = Hint[j] /\ j \notin written \cup upserts
       /\ local[b][j] = "upsert" => b = Hint[j] /\ j \in upserts
Lives == \A j \in Jobs : Life(j)

\* A poll runs at a broker in service; at its claim the owner it expects has
\* lost its lease (or once lacked it in service), or is the broker itself, which
\* does not have the job.
Asked(q) ==
  q.pc # "idle" =>
    /\ q.at \in Brokers /\ up[q.at] = "up" /\ q.job \in issued
    /\ q.pc \in {"owner", "proxy"} => q.owner \in Brokers
    /\ q.pc = "lease" => q.at # Hint[q.job]
    /\ q.pc = "claim" /\ q.at # Hint[q.job] /\ q.job \notin exposed => ~Active(Hint[q.job])
    /\ q.pc = "claim" /\ q.at = Hint[q.job] /\ q.job \notin written =>
         local[q.at][q.job] = "none"
    /\ q.pc = "restore" => q.job \in written
Polls == \A p \in Pollers : Asked(poll[p])

\* A broker in service executes the job or has claimed it and will.
Claims(b, j) ==
  /\ up[b] = "up"
  /\ \/ local[b][j] \in Executing
     \/ \E p \in Pollers : poll[p].pc = "restore" /\ poll[p].at = b /\ poll[p].job = j

\* Left aside is the execution by the broker of the hint that others may have
\* taken for gone.
Holds(b, j) == Claims(b, j) /\ (b # Hint[j] \/ j \notin exposed)

\* At most one broker holds a job, and the record, if there is one, names it.
Owned(b, j) ==
  Holds(b, j) => rec[j] \in {b, NoBroker} /\ \A c \in Brokers : Holds(c, j) => c = b
Ownership == \A j \in Jobs : \A b \in Brokers : Owned(b, j)

IInv == TypeOK /\ setting \in Settings /\ Fleet /\ Lives /\ Polls /\ Ownership

-----------------------------------------------------------------------------
(* Facts several actions use *)

\* The broker of an unexposed job whose lease is gone is not in service.
LEMMA GoneNotUp ==
  ASSUME Fleet, NEW j \in Jobs, j \in issued, j \notin exposed, ~Active(Hint[j])
  PROVE  up[Hint[j]] # "up"
BY Zenon DEF Fleet

\* A step that starts no execution and hands the record to no one keeps the
\* ownership.
LEMMA OwnershipKept ==
  ASSUME Ownership, exposed \subseteq exposed',
         \A j \in Jobs : rec'[j] \in {rec[j], NoBroker},
         \A b \in Brokers : \A j \in Jobs : Claims(b, j)' => Claims(b, j)
  PROVE  Ownership'
<1>1. \A b \in Brokers : \A j \in Jobs : Holds(b, j)' => Holds(b, j)
  BY Zenon DEF Holds
<1> SUFFICES ASSUME NEW j \in Jobs, NEW b \in Brokers, Holds(b, j)'
             PROVE  rec'[j] \in {b, NoBroker} /\ \A c \in Brokers : Holds(c, j)' => c = b
  BY Zenon DEF Ownership, Owned
<1>2. Holds(b, j) /\ rec[j] \in {b, NoBroker} /\ \A c \in Brokers : Holds(c, j) => c = b
  BY Zenon, <1>1 DEF Ownership, Owned
<1> QED
  BY Zenon, <1>1, <1>2

\* A poll that is over is typed and asks for nothing.
LEMMA IdleType ==
  Idle \in PollFields /\ Idle.pc = "idle" /\ Idle.at = NoBroker
BY Zenon, RecoveryAssumption DEF Idle, PollFields, PollPc, AnyJob

\* What a poll asks for is a job.
LEMMA PollType ==
  ASSUME TypeOK, NEW p \in Pollers
  PROVE  /\ poll[p] \in PollFields /\ poll[p].job \in Jobs /\ poll[p].pc \in PollPc
         /\ poll[p].at \in Brokers \cup {NoBroker} /\ poll[p].owner \in Brokers \cup {NoBroker}
BY Zenon DEF TypeOK, PollFields

\* The invariant holds initially.
LEMMA InitInv == Init => IInv
<1> SUFFICES ASSUME Init PROVE IInv
  BY Zenon
<1>1. /\ TTL \in Nat \ {0} /\ Grace \in Nat /\ Lag \in Nat /\ Expired \in Nat
      /\ NoBroker \notin Brokers /\ Hint \in [Jobs -> Brokers]
  BY RecoveryAssumption DEF Expired
<1>2. \A p \in Pollers : poll[p].pc = "idle"
  BY Zenon DEF Init, Idle
<1>3. \A b \in Brokers : \A j \in Jobs : local[b][j] = "none"
  BY Zenon DEF Init
<1>4. TypeOK
  <2>1. /\ up \in [Brokers -> {"up", "draining", "drained", "down"}]
        /\ age \in [Brokers -> 0..Expired] /\ drain \in [Brokers -> 0..TTL]
    BY <1>1 DEF Init
  <2>2. /\ local \in [Brokers -> [Jobs -> LocalState]] /\ persisted \in [Brokers -> SUBSET Jobs]
        /\ rec \in [Jobs -> Brokers \cup {NoBroker}] /\ deletes \in [Brokers -> SUBSET Jobs]
        /\ upserts \in SUBSET Jobs
        /\ issued \in SUBSET Jobs /\ written \in SUBSET Jobs
        /\ consumed \in SUBSET Jobs /\ exposed \in SUBSET Jobs
    BY Zenon DEF Init, LocalState
  <2> QED
    BY Zenon, <2>1, <2>2, IdleType DEF TypeOK, Init
<1> QED
  BY <1>1, <1>2, <1>3, <1>4 DEF IInv, Fleet, Lives, Life, Polls, Asked, Ownership, Owned, Holds,
                               Claims, Executing, Init

-----------------------------------------------------------------------------
(* Jobs *)

\* A job is accepted.
LEMMA SubmitInv ==
  ASSUME IInv, NEW j \in Jobs, Submit(j)
  PROVE  IInv'
<1> USE DEF IInv
<1> DEFINE h == Hint[j]
<1>1. /\ h \in Brokers /\ j \notin issued /\ up[h] = "up" /\ issued' = issued \cup {j}
      /\ local \in [Brokers -> [Jobs -> LocalState]]
      /\ exposed' = IF Active(h) THEN exposed ELSE exposed \cup {j}
      /\ UNCHANGED <<setting, up, age, drain, persisted, rec, upserts, deletes, poll, written, consumed>>
  BY Zenon, RecoveryAssumption DEF Submit, TypeOK, brokerVars, storeVars
<1>2. local' = [local EXCEPT ![h][j] = "run"]
  BY Zenon DEF Submit, SetLocal
<1>3. /\ local' \in [Brokers -> [Jobs -> LocalState]] /\ local'[h][j] = "run"
      /\ \A b \in Brokers : \A k \in Jobs : b # h \/ k # j => local'[b][k] = local[b][k]
  BY Zenon, <1>1, <1>2 DEF LocalState
<1>4. TypeOK'
  BY Zenon, <1>1, <1>3 DEF TypeOK
<1>5. Fleet'
  BY <1>1, <1>3 DEF Fleet, Active
<1>6. Lives'
  BY <1>1, <1>3 DEF Lives, Life
<1>7. Polls'
  BY ZenonT(100), <1>1, <1>3, PollType DEF Polls, Asked, Active
<1>8. Ownership'
  <2>1. rec[j] = NoBroker /\ \A b \in Brokers : local[b][j] = "none"
    BY Zenon, <1>1 DEF Lives, Life
  <2>2. \A p \in Pollers : poll[p].pc = "restore" => poll[p].job # j
    BY Zenon, <1>1 DEF Polls, Asked
  <2>3. \A b \in Brokers : \A k \in Jobs : k # j => (Claims(b, k)' <=> Claims(b, k))
    BY Zenon, <1>1, <1>3 DEF Claims
  <2>4. \A b \in Brokers : Claims(b, j)' => b = h
    BY Zenon, <1>1, <1>3, <2>1, <2>2 DEF Claims, Executing
  <2>5. \A b \in Brokers : \A k \in Jobs : k # j => (Holds(b, k)' <=> Holds(b, k))
    BY Zenon, <1>1, <2>3 DEF Holds
  <2>6. \A b \in Brokers : Holds(b, j)' => b = h
    BY Zenon, <2>4 DEF Holds
  <2> QED
    BY <1>1, <2>1, <2>5, <2>6 DEF Ownership, Owned
<1> QED
  BY Zenon, <1>1, <1>4, <1>5, <1>6, <1>7, <1>8

\* The write of the record is sent, or fails.
LEMMA SendInv ==
  ASSUME IInv, NEW j \in Jobs, PersistTimer(j) \/ UpsertFails(j)
  PROVE  IInv'
<1> USE DEF IInv
<1> DEFINE h == Hint[j]
<1>1. /\ h \in Brokers /\ local \in [Brokers -> [Jobs -> LocalState]]
      /\ UNCHANGED <<setting, up, age, drain, persisted, rec, deletes, poll, issued, written, consumed, exposed>>
  BY Zenon, RecoveryAssumption DEF PersistTimer, UpsertFails, TypeOK, brokerVars, history
<1>2. PICK s \in LocalState :
        /\ local' = [local EXCEPT ![h][j] = s]
        /\ \/ local[h][j] = "run" /\ s = "upsert" /\ upserts' = upserts \cup {j}
           \/ local[h][j] = "upsert" /\ s = "late" /\ upserts' \in {upserts, upserts \ {j}}
  BY Zenon DEF PersistTimer, UpsertFails, SetLocal, LocalState
<1>3. /\ local' \in [Brokers -> [Jobs -> LocalState]] /\ local'[h][j] = s
      /\ \A b \in Brokers : \A k \in Jobs : b # h \/ k # j => local'[b][k] = local[b][k]
  BY Zenon, <1>1, <1>2
<1>4. TypeOK'
  BY Zenon, <1>1, <1>2, <1>3 DEF TypeOK
<1>5. Fleet'
  BY <1>1, <1>2, <1>3 DEF Fleet, Active
<1>6. Lives'
  BY SMTT(60), <1>1, <1>2, <1>3 DEF Lives, Life
<1>7. Polls'
  BY <1>1, <1>2, <1>3 DEF Polls, Asked, Active
<1>8. Ownership'
  <2>1. \A b \in Brokers : \A k \in Jobs : Claims(b, k)' => Claims(b, k)
    BY <1>1, <1>2, <1>3 DEF Claims, Executing
  <2> QED
    BY Zenon, <1>1, <2>1, OwnershipKept
<1> QED
  BY Zenon, <1>1, <1>4, <1>5, <1>6, <1>7, <1>8

\* The write lands: no one but the broker of the hint has claimed the job.
LEMMA UpsertLandsInv ==
  ASSUME IInv, NEW j \in Jobs, UpsertLands(j)
  PROVE  IInv'
<1> USE DEF IInv
<1> DEFINE h == Hint[j]
<1>1. /\ h \in Brokers /\ local \in [Brokers -> [Jobs -> LocalState]] /\ j \in upserts
      /\ h # NoBroker /\ rec \in [Jobs -> Brokers \cup {NoBroker}]
      /\ upserts' = upserts \ {j} /\ written' = written \cup {j}
      /\ UNCHANGED <<setting, up, age, drain, deletes, poll, issued, consumed, exposed>>
  BY Zenon, RecoveryAssumption DEF UpsertLands, TypeOK, brokerVars
<1>2. rec' = [rec EXCEPT ![j] = h]
  BY Zenon DEF UpsertLands
<1>3. /\ local' \in [Brokers -> [Jobs -> LocalState]]
      /\ local'[h][j] = IF local[h][j] = "upsert" THEN "late" ELSE local[h][j]
      /\ \A b \in Brokers : \A k \in Jobs : b # h \/ k # j => local'[b][k] = local[b][k]
  BY SMTT(60), <1>1 DEF UpsertLands, SetLocal, LocalState, tableVars
<1>4. persisted' \in [Brokers -> SUBSET Jobs]
  <2>1. persisted \in [Brokers -> SUBSET Jobs]
    BY Zenon DEF TypeOK
  <2>2. persisted' = persisted \/ persisted' = [persisted EXCEPT ![h] = @ \cup {j}]
    BY Zenon DEF UpsertLands, tableVars
  <2> QED
    BY <2>1, <2>2
<1>5. rec' \in [Jobs -> Brokers \cup {NoBroker}] /\ rec'[j] = h /\ \A k \in Jobs : k # j => rec'[k] = rec[k]
  BY Zenon, <1>1, <1>2
<1>6. TypeOK'
  BY Zenon, <1>1, <1>3, <1>4, <1>5 DEF TypeOK
<1>7. Fleet'
  BY <1>1, <1>3 DEF Fleet, Active
<1>8. Lives'
  BY SMTT(60), <1>1, <1>3, <1>5 DEF Lives, Life
<1>9. Polls'
  BY <1>1, <1>3, PollType DEF Polls, Asked, Active
<1>10. Ownership'
  <2>1. \A b \in Brokers : \A k \in Jobs : Claims(b, k)' => Claims(b, k)
    BY ZenonT(100), <1>1, <1>3 DEF Claims, Executing
  <2>2. j \notin written
    BY Zenon, <1>1 DEF Lives, Life
  <2>3. \A b \in Brokers : Claims(b, j) => b = h
    BY Zenon, <2>2 DEF Claims, Lives, Life, Polls, Asked, Executing
  <2>4. /\ \A b \in Brokers : \A k \in Jobs : Holds(b, k)' => Holds(b, k)
        /\ \A b \in Brokers : Holds(b, j) => b = h
    BY Zenon, <1>1, <2>1, <2>3 DEF Holds
  <2> QED
    BY <1>5, <2>4 DEF Ownership, Owned
<1> QED
  BY Zenon, <1>1, <1>6, <1>7, <1>8, <1>9, <1>10

\* An execution ends.
LEMMA FinishInv ==
  ASSUME IInv, NEW b \in Brokers, NEW j \in Jobs, Finish(b, j)
  PROVE  IInv'
<1> USE DEF IInv
<1>1. /\ local \in [Brokers -> [Jobs -> LocalState]] /\ local[b][j] \in {"run", "late"}
      /\ local' = [local EXCEPT ![b][j] = "ready"]
      /\ UNCHANGED <<setting, up, age, drain, persisted, rec, upserts, deletes, poll,
                     issued, written, consumed, exposed>>
  BY Zenon DEF Finish, SetLocal, TypeOK, brokerVars, storeVars, history
<1>2. /\ local' \in [Brokers -> [Jobs -> LocalState]] /\ local'[b][j] = "ready"
      /\ \A c \in Brokers : \A k \in Jobs : c # b \/ k # j => local'[c][k] = local[c][k]
  BY Zenon, <1>1 DEF LocalState
<1>3. TypeOK'
  BY Zenon, <1>1, <1>2 DEF TypeOK
<1>4. Fleet'
  BY <1>1, <1>2 DEF Fleet, Active
<1>5. Lives'
  BY SMTT(60), <1>1, <1>2 DEF Lives, Life
<1>6. Polls'
  BY <1>1, <1>2, PollType DEF Polls, Asked, Active
<1>7. Ownership'
  <2>1. \A c \in Brokers : \A k \in Jobs : Claims(c, k)' => Claims(c, k)
    BY <1>1, <1>2 DEF Claims, Executing
  <2> QED
    BY Zenon, <1>1, <2>1, OwnershipKept
<1> QED
  BY Zenon, <1>1, <1>3, <1>4, <1>5, <1>6, <1>7

\* A result that leaves the table, by a sweep or with the answer to a poll.
LEMMA ConsumeInv ==
  ASSUME IInv, NEW b \in Brokers, NEW j \in Jobs, Consume(b, j), local[b][j] # "none",
         UNCHANGED <<setting, up, age, drain, rec, upserts, issued, written, exposed>>,
         \A p \in Pollers : poll'[p] = poll[p] \/ poll'[p] = Idle,
         poll' \in [Pollers -> PollFields]
  PROVE  IInv'
<1> USE DEF IInv
<1>1. /\ local \in [Brokers -> [Jobs -> LocalState]] /\ local' = [local EXCEPT ![b][j] = "none"]
      /\ persisted \in [Brokers -> SUBSET Jobs] /\ persisted' = [persisted EXCEPT ![b] = @ \ {j}]
      /\ deletes \in [Brokers -> SUBSET Jobs]
      /\ deletes' = deletes \/ deletes' = [deletes EXCEPT ![b] = @ \cup {j}]
      /\ consumed' = consumed \cup {j}
  BY Zenon DEF Consume, SetLocal, TypeOK
<1>2. /\ local' \in [Brokers -> [Jobs -> LocalState]] /\ local'[b][j] = "none"
      /\ \A c \in Brokers : \A k \in Jobs : c # b \/ k # j => local'[c][k] = local[c][k]
  BY Zenon, <1>1 DEF LocalState
<1>3. /\ persisted' \in [Brokers -> SUBSET Jobs] /\ deletes' \in [Brokers -> SUBSET Jobs]
      /\ \A c \in Brokers : deletes'[c] \subseteq deletes[c] \cup {j}
  BY ZenonT(100), <1>1
<1>4. TypeOK'
  BY Zenon, <1>1, <1>2, <1>3 DEF TypeOK
<1>5. Fleet'
  BY <1>1, <1>2 DEF Fleet, Active
<1>6. Lives'
  <2> SUFFICES ASSUME NEW k \in Jobs PROVE Life(k)'
    BY Zenon DEF Lives
  <2>1. Life(k)
    BY Zenon DEF Lives
  <2>2. \A c \in Brokers : local'[c][k] \in {"none", local[c][k]}
    BY Zenon, <1>2
  <2>3. \A c \in Brokers : k \in deletes'[c] => k \in consumed'
    BY Zenon, <1>1, <1>3, <2>1 DEF Life
  <2> QED
    BY Zenon, <1>1, <2>1, <2>2, <2>3 DEF Life
<1>7. Polls'
  <2> SUFFICES ASSUME NEW p \in Pollers, poll'[p] = poll[p] PROVE Asked(poll[p])'
    BY Zenon, IdleType DEF Polls, Asked
  <2>1. Asked(poll[p])
    BY Zenon DEF Polls
  <2> QED
    BY ZenonT(100), <1>2, <2>1, PollType DEF Asked, Active
<1>8. Ownership'
  <2>1. ASSUME NEW c \in Brokers, NEW k \in Jobs, Claims(c, k)'
        PROVE  Claims(c, k)
    <3>1. local'[c][k] \in Executing => local[c][k] \in Executing
      BY Zenon, <1>2 DEF Executing
    <3>2. \A p \in Pollers : poll'[p].pc = "restore" => poll'[p] = poll[p]
      BY Zenon, IdleType
    <3> QED
      BY Zenon, <2>1, <3>1, <3>2 DEF Claims
  <2> QED
    BY Zenon, <2>1, OwnershipKept
<1> QED
  BY Zenon, <1>4, <1>5, <1>6, <1>7, <1>8

\* A sweep.
LEMMA SweepInv ==
  ASSUME IInv, NEW b \in Brokers, NEW j \in Jobs, Sweep(b, j)
  PROVE  IInv'
BY Zenon, ConsumeInv DEF Sweep, IInv, TypeOK, brokerVars

\* The delete of a consumed job's record lands or fails.
LEMMA DeleteInv ==
  ASSUME IInv, NEW b \in Brokers, NEW j \in Jobs, DeleteLands(b, j) \/ DeleteFails(b, j)
  PROVE  IInv'
<1> USE DEF IInv
<1>1. /\ j \in deletes[b] /\ deletes' = [deletes EXCEPT ![b] = @ \ {j}]
      /\ rec' = rec \/ rec' = [rec EXCEPT ![j] = NoBroker]
      /\ deletes \in [Brokers -> SUBSET Jobs] /\ rec \in [Jobs -> Brokers \cup {NoBroker}]
      /\ UNCHANGED <<setting, up, age, drain, local, persisted, upserts, poll, issued, written, consumed, exposed>>
  BY Zenon DEF DeleteLands, DeleteFails, TypeOK, brokerVars, tableVars, history
<1>2. /\ deletes' \in [Brokers -> SUBSET Jobs] /\ \A c \in Brokers : deletes'[c] \subseteq deletes[c]
      /\ rec' \in [Jobs -> Brokers \cup {NoBroker}] /\ rec'[j] \in {rec[j], NoBroker}
      /\ \A k \in Jobs : k # j => rec'[k] = rec[k]
  BY Zenon, <1>1
<1>3. j \in consumed
  BY Zenon, <1>1 DEF Lives, Life
<1>4. TypeOK'
  BY Zenon, <1>1, <1>2 DEF TypeOK
<1>5. Fleet'
  BY Zenon, <1>1 DEF Fleet, Active
<1>6. Lives'
  BY SMTT(60), <1>1, <1>2, <1>3 DEF Lives, Life
<1>7. Polls'
  BY Zenon, <1>1 DEF Polls, Asked, Active
<1>8. Ownership'
  <2>1. \A c \in Brokers : \A k \in Jobs : Claims(c, k)' => Claims(c, k)
    BY Zenon, <1>1 DEF Claims
  <2> QED
    BY Zenon, <1>1, <1>2, <2>1, OwnershipKept
<1> QED
  BY Zenon, <1>1, <1>4, <1>5, <1>6, <1>7, <1>8

-----------------------------------------------------------------------------
(* Polls *)

\* A step of one poll that changes nothing else and claims nothing.
LEMMA MovePoll ==
  ASSUME IInv, NEW p \in Pollers,
         UNCHANGED <<brokerVars, tableVars, storeVars, history>>,
         NEW q \in PollFields, poll' = [poll EXCEPT ![p] = q], Asked(q), q.pc # "restore"
  PROVE  IInv'
<1> USE DEF IInv
<1>1. /\ poll \in [Pollers -> PollFields]
      /\ UNCHANGED <<setting, up, age, drain, local, persisted, rec, upserts, deletes, issued,
                     written, consumed, exposed>>
  BY Zenon DEF TypeOK, brokerVars, tableVars, storeVars, history
<1>2. /\ poll' \in [Pollers -> PollFields] /\ poll'[p] = q
      /\ \A r \in Pollers : r # p => poll'[r] = poll[r]
  BY Zenon, <1>1
<1>3. TypeOK'
  BY Zenon, <1>1, <1>2 DEF TypeOK
<1>4. Fleet' /\ Lives'
  BY Zenon, <1>1 DEF Fleet, Active, Lives, Life
<1>5. Polls'
  <2> SUFFICES ASSUME NEW r \in Pollers PROVE Asked(poll[r])'
    BY Zenon DEF Polls
  <2>1. Asked(poll'[r])
    BY Zenon, <1>2 DEF Polls
  <2> QED
    BY Zenon, <1>1, <2>1 DEF Asked, Active
<1>6. Ownership'
  <2>1. \A c \in Brokers : \A k \in Jobs : Claims(c, k)' => Claims(c, k)
    BY Zenon, <1>1, <1>2 DEF Claims
  <2> QED
    BY Zenon, <1>1, <2>1, OwnershipKept
<1> QED
  BY Zenon, <1>1, <1>3, <1>4, <1>5, <1>6

\* A poll is answered.
LEMMA AnswerInv ==
  ASSUME IInv, NEW p \in Pollers, Answer(p),
         UNCHANGED <<brokerVars, tableVars, storeVars, history>>
  PROVE  IInv'
<1>1. Idle \in PollFields /\ Idle.pc = "idle" /\ Asked(Idle)
  BY Zenon, IdleType DEF Asked
<1> QED
  BY Zenon, <1>1, MovePoll DEF Answer

\* A poll moves on to another phase at the same broker.
LEMMA GotoInv ==
  ASSUME IInv, NEW p \in Pollers, NEW pc \in PollPc \ {"restore"}, NEW o \in Brokers \cup {NoBroker},
         \/ poll' = [poll EXCEPT ![p].pc = pc, ![p].owner = o]
         \/ Goto(p, pc) /\ o = poll[p].owner,
         Asked([pc |-> pc, at |-> poll[p].at, job |-> poll[p].job, owner |-> o]),
         UNCHANGED <<brokerVars, tableVars, storeVars, history>>
  PROVE  IInv'
<1> DEFINE q == [pc |-> pc, at |-> poll[p].at, job |-> poll[p].job, owner |-> o]
<1>1. q \in PollFields /\ q.pc # "restore"
  BY Zenon, PollType DEF IInv, PollFields
<1>2. poll' = [poll EXCEPT ![p] = q]
  <2>1. poll \in [Pollers -> PollFields] /\ poll[p] \in PollFields
    BY Zenon DEF IInv, TypeOK
  <2>2. poll' \in [Pollers -> PollFields] /\ poll'[p] = q /\ \A r \in Pollers : r # p => poll'[r] = poll[r]
    BY <2>1 DEF PollFields, Goto
  <2> HIDE DEF q
  <2> QED
    BY Zenon, <2>1, <2>2
<1> HIDE DEF q
<1>3. Asked(q)
  BY Zenon DEF q
<1> QED
  BY Zenon, <1>1, <1>2, <1>3, MovePoll

\* A poll arrives.
LEMMA StartPollInv ==
  ASSUME IInv, NEW p \in Pollers, NEW b \in Brokers, NEW j \in Jobs, StartPoll(p, b, j)
  PROVE  IInv'
<1> DEFINE q == [pc |-> "local", at |-> b, job |-> j, owner |-> NoBroker]
<1>1. q \in PollFields /\ q.pc # "restore"
  BY Zenon DEF PollFields, PollPc
<1>2. Asked(q)
  BY Zenon DEF StartPoll, Asked
<1>3. poll' = [poll EXCEPT ![p] = q] /\ UNCHANGED <<brokerVars, tableVars, storeVars, history>>
  BY Zenon DEF StartPoll
<1> HIDE DEF q
<1> QED
  BY Zenon, <1>1, <1>2, <1>3, MovePoll

\* A poll finds the job in the table.
LEMMA PollFoundInv ==
  ASSUME IInv, NEW p \in Pollers, PollFound(p)
  PROVE  IInv'
<1> DEFINE b == poll[p].at
           j == poll[p].job
<1>1. b \in Brokers /\ j \in Jobs /\ Answer(p)
  BY Zenon, PollType DEF PollFound, IInv, Polls, Asked
<1>2. CASE local[b][j] = "ready" /\ Consume(b, j)
  <2>1. UNCHANGED <<setting, up, age, drain, rec, upserts, issued, written, exposed>>
    BY Zenon DEF PollFound, brokerVars
  <2>2. poll' \in [Pollers -> PollFields] /\ \A r \in Pollers : poll'[r] = poll[r] \/ poll'[r] = Idle
    BY Zenon, <1>1, IdleType DEF Answer, IInv, TypeOK
  <2> HIDE DEF b, j
  <2> QED
    BY Zenon, <1>1, <1>2, <2>1, <2>2, ConsumeInv
<1>3. CASE UNCHANGED <<tableVars, deletes, consumed>>
  BY Zenon, <1>1, <1>3, AnswerInv DEF PollFound, storeVars, history
<1> QED
  BY Zenon, <1>2, <1>3 DEF PollFound

\* A poll misses the job.
LEMMA PollMissedInv ==
  ASSUME IInv, NEW p \in Pollers, PollMissed(p)
  PROVE  IInv'
<1> DEFINE b == poll[p].at
           j == poll[p].job
<1>1. UNCHANGED <<brokerVars, tableVars, storeVars, history>> /\ local[b][j] = "none"
      /\ poll[p].pc # "idle"
  BY Zenon DEF PollMissed
<1>2. CASE Answer(p)
  BY Zenon, <1>1, <1>2, AnswerInv
<1>3. CASE Goto(p, IF Hint[j] = b THEN "claim" ELSE "lease")
  <2>1. PICK pc \in {"claim", "lease"} : Goto(p, pc) /\ (pc = "claim" <=> Hint[j] = b)
    BY Zenon, <1>3
  <2>2. pc \in PollPc \ {"restore"} /\ poll[p].owner \in Brokers \cup {NoBroker}
    BY Zenon, <2>1, PollType DEF PollPc, IInv
  <2>3. Asked([pc |-> pc, at |-> b, job |-> j, owner |-> poll[p].owner])
    BY Zenon, <1>1, <2>1 DEF IInv, Polls, Asked
  <2> QED
    BY Zenon, <1>1, <2>1, <2>2, <2>3, GotoInv
<1> QED
  BY Zenon, <1>2, <1>3 DEF PollMissed

\* The lease of the hint is looked up: a claim follows only when it is gone.
LEMMA LookupHintInv ==
  ASSUME IInv, NEW p \in Pollers, LookupHint(p)
  PROVE  IInv'
<1> DEFINE a == Hint[poll[p].job]
<1>1. /\ UNCHANGED <<brokerVars, tableVars, storeVars, history>> /\ poll[p].pc = "lease"
      /\ a \in Brokers /\ poll[p].owner \in Brokers \cup {NoBroker}
  BY Zenon, PollType, RecoveryAssumption DEF LookupHint, IInv
<1>2. CASE poll' = [poll EXCEPT ![p].pc = "proxy", ![p].owner = a]
  <2>1. Asked([pc |-> "proxy", at |-> poll[p].at, job |-> poll[p].job, owner |-> a])
    BY Zenon, <1>1 DEF IInv, Polls, Asked
  <2>2. "proxy" \in PollPc \ {"restore"}
    BY Zenon DEF PollPc
  <2> HIDE DEF a
  <2> QED
    BY Zenon, <1>1, <1>2, <2>1, <2>2, GotoInv
<1>3. CASE ~Active(a) /\ Goto(p, "claim")
  <2>1. Asked([pc |-> "claim", at |-> poll[p].at, job |-> poll[p].job, owner |-> poll[p].owner])
    <3>1. poll[p].at \in Brokers /\ up[poll[p].at] = "up" /\ poll[p].job \in issued
      BY Zenon, <1>1 DEF IInv, Polls, Asked
    <3>2. poll[p].at # a
      BY Zenon, <1>1 DEF IInv, Polls, Asked
    <3> QED
      BY SMTT(60), <1>3, <3>1, <3>2 DEF Asked
  <2>2. "claim" \in PollPc \ {"restore"}
    BY Zenon DEF PollPc
  <2> QED
    BY Zenon, <1>1, <1>3, <2>1, <2>2, GotoInv
<1>4. CASE Answer(p)
  BY Zenon, <1>1, <1>4, AnswerInv
<1> QED
  BY Zenon, <1>2, <1>3, <1>4 DEF LookupHint

\* The lease of the recorded owner is looked up.
LEMMA LookupOwnerInv ==
  ASSUME IInv, NEW p \in Pollers, LookupOwner(p)
  PROVE  IInv'
<1>1. /\ UNCHANGED <<brokerVars, tableVars, storeVars, history>> /\ poll[p].pc = "owner"
      /\ poll[p].owner \in Brokers \cup {NoBroker}
  BY Zenon, PollType DEF LookupOwner, IInv
<1>2. CASE Goto(p, "proxy")
  <2>1. Asked([pc |-> "proxy", at |-> poll[p].at, job |-> poll[p].job, owner |-> poll[p].owner])
    BY Zenon, <1>1 DEF IInv, Polls, Asked
  <2>2. "proxy" \in PollPc \ {"restore"}
    BY Zenon DEF PollPc
  <2> QED
    BY Zenon, <1>1, <1>2, <2>1, <2>2, GotoInv
<1>3. CASE Answer(p)
  BY Zenon, <1>1, <1>3, AnswerInv
<1> QED
  BY Zenon, <1>2, <1>3 DEF LookupOwner

\* A poll goes on at the owner.
LEMMA ProxyInv ==
  ASSUME IInv, NEW p \in Pollers, Proxy(p)
  PROVE  IInv'
<1> DEFINE o == poll[p].owner
           q == [pc |-> "local", at |-> o, job |-> poll[p].job, owner |-> NoBroker]
<1>1. /\ UNCHANGED <<brokerVars, tableVars, storeVars, history>> /\ poll[p].pc = "proxy"
      /\ o \in Brokers /\ poll[p].job \in Jobs /\ poll[p].job \in issued
      /\ poll \in [Pollers -> PollFields] /\ poll[p] \in PollFields
  BY Zenon, PollType DEF Proxy, IInv, Polls, Asked, TypeOK
<1>2. CASE /\ up[o] = "up"
           /\ poll' = [poll EXCEPT ![p].pc = "local", ![p].at = o, ![p].owner = NoBroker]
  <2>1. q \in PollFields /\ q.pc # "restore" /\ Asked(q)
    BY Zenon, <1>1, <1>2 DEF PollFields, PollPc, Asked
  <2>2. poll' \in [Pollers -> PollFields] /\ poll'[p] = q /\ \A r \in Pollers : r # p => poll'[r] = poll[r]
    BY Zenon, <1>1, <1>2 DEF PollFields, PollPc
  <2> HIDE DEF q
  <2>3. poll' = [poll EXCEPT ![p] = q]
    BY Zenon, <1>1, <2>2
  <2> QED
    BY Zenon, <1>1, <2>1, <2>3, MovePoll
<1>3. CASE Answer(p)
  BY Zenon, <1>1, <1>3, AnswerInv
<1> QED
  BY Zenon, <1>2, <1>3 DEF Proxy

\* A claim takes the record.  Whoever executes the job is named by the record:
\* the claimant itself, or the broker of the hint, which has lost its lease or is
\* left aside.
LEMMA TakeInv ==
  ASSUME IInv, NEW p \in Pollers, poll[p].pc = "claim",
         rec[poll[p].job] \in {poll[p].at, Hint[poll[p].job]},
         rec' = [rec EXCEPT ![poll[p].job] = poll[p].at],
         Goto(p, "restore") \/ Answer(p),
         UNCHANGED <<brokerVars, tableVars, upserts, deletes, history>>
  PROVE  IInv'
<1> USE DEF IInv
<1> DEFINE b == poll[p].at
           j == poll[p].job
<1>1. /\ b \in Brokers /\ j \in Jobs /\ up[b] = "up" /\ j \in issued /\ Hint[j] \in Brokers
      /\ NoBroker \notin Brokers
      /\ b # Hint[j] /\ j \notin exposed => ~Active(Hint[j])
      /\ poll \in [Pollers -> PollFields] /\ poll[p] \in PollFields
      /\ rec \in [Jobs -> Brokers \cup {NoBroker}]
  BY Zenon, PollType, RecoveryAssumption DEF Polls, Asked, TypeOK
<1>2. j \in written /\ rec[j] # NoBroker
  BY Zenon, <1>1 DEF Lives, Life
<1>3. UNCHANGED <<setting, up, age, drain, local, persisted, upserts, deletes, issued, written, consumed, exposed>>
  BY Zenon DEF brokerVars, tableVars, history
<1>4. /\ rec' \in [Jobs -> Brokers \cup {NoBroker}] /\ rec'[j] = b
      /\ \A k \in Jobs : k # j => rec'[k] = rec[k]
  BY Zenon, <1>1
<1>5. /\ poll' \in [Pollers -> PollFields] /\ \A r \in Pollers : r # p => poll'[r] = poll[r]
      /\ \/ poll'[p] = Idle
         \/ poll'[p].pc = "restore" /\ poll'[p].at = b /\ poll'[p].job = j
  BY SMTT(60), <1>1, IdleType DEF Goto, Answer, PollFields, PollPc
<1> HIDE DEF b, j
<1>6. TypeOK'
  BY Zenon, <1>3, <1>4, <1>5 DEF TypeOK
<1>7. Fleet'
  BY ZenonT(100), <1>3 DEF Fleet, Active
<1>8. Lives'
  BY SMTT(60), <1>1, <1>2, <1>3, <1>4 DEF Lives, Life
<1>9. Polls'
  <2>1. \A r \in Pollers : r # p => Asked(poll[r])'
    BY ZenonT(100), <1>3, <1>5 DEF Polls, Asked, Active
  <2>2. Asked(poll[p])'
    BY Zenon, <1>1, <1>2, <1>3, <1>5, IdleType DEF Asked
  <2> QED
    BY Zenon, <2>1, <2>2 DEF Polls
<1>10. Ownership'
  <2>1. \A c \in Brokers : \A k \in Jobs : Claims(c, k)' => Claims(c, k) \/ (c = b /\ k = j)
    <3>1. \A r \in Pollers : poll'[r].pc = "restore" =>
            poll'[r] = poll[r] \/ (poll'[r].at = b /\ poll'[r].job = j)
      BY Zenon, <1>5, IdleType
    <3> QED
      BY Zenon, <1>3, <3>1 DEF Claims
  <2>2. \A c \in Brokers : Holds(c, j) => c = b
    <3> SUFFICES ASSUME NEW c \in Brokers, Holds(c, j) PROVE c = b
      BY Zenon
    <3>1. rec[j] = c
      BY Zenon, <1>1, <1>2 DEF Ownership, Owned
    <3>2. CASE c = Hint[j] /\ c # b
      <4>1. j \notin exposed /\ up[c] = "up"
        BY Zenon, <3>2 DEF Holds, Claims
      <4> QED
        BY Zenon, <1>1, <3>2, <4>1, GoneNotUp
    <3> QED
      BY Zenon, <3>1, <3>2 DEF b, j
  <2>3. \A c \in Brokers : \A k \in Jobs : Holds(c, k)' => Holds(c, k) \/ (c = b /\ k = j)
    BY Zenon, <1>3, <2>1 DEF Holds
  <2> QED
    BY <1>4, <2>2, <2>3 DEF Ownership, Owned
<1> QED
  BY Zenon, <1>3, <1>6, <1>7, <1>8, <1>9, <1>10

\* A claim and its answers.
LEMMA ClaimInv ==
  ASSUME IInv, NEW p \in Pollers, Claim(p)
  PROVE  IInv'
<1> DEFINE b == poll[p].at
           j == poll[p].job
<1>1. poll[p].pc = "claim" /\ UNCHANGED <<brokerVars, tableVars, upserts, deletes, history>>
  BY Zenon DEF Claim
<1>2. CASE Answer(p) /\ UNCHANGED rec
  BY Zenon, <1>1, <1>2, AnswerInv DEF storeVars
<1>3. CASE /\ rec[j] \in {b, Hint[j]} /\ rec' = [rec EXCEPT ![j] = b]
           /\ Goto(p, "restore") \/ Answer(p)
  BY Zenon, <1>1, <1>3, TakeInv
<1>4. CASE /\ rec[j] # NoBroker /\ UNCHANGED rec
           /\ poll' = [poll EXCEPT ![p].pc = "owner", ![p].owner = rec[j]]
  <2>1. rec[j] \in Brokers
    BY Zenon, <1>4, PollType DEF IInv, TypeOK
  <2>2. Asked([pc |-> "owner", at |-> poll[p].at, job |-> poll[p].job, owner |-> rec[j]])
    BY Zenon, <1>1, <2>1 DEF IInv, Polls, Asked
  <2>3. "owner" \in PollPc \ {"restore"}
    BY Zenon DEF PollPc
  <2>4. UNCHANGED storeVars
    BY Zenon, <1>1, <1>4 DEF storeVars
  <2> QED
    BY Zenon, <1>1, <1>4, <2>1, <2>2, <2>3, <2>4, GotoInv
<1> QED
  BY Zenon, <1>2, <1>3, <1>4 DEF Claim

\* A claimed job is entered into the claimant's table.
LEMMA RestoreInv ==
  ASSUME IInv, NEW p \in Pollers, Restore(p)
  PROVE  IInv'
<1> USE DEF IInv
<1> DEFINE b == poll[p].at
           j == poll[p].job
<1>1. /\ b \in Brokers /\ j \in Jobs /\ up[b] = "up" /\ j \in issued /\ j \in written
      /\ poll[p].pc = "restore"
      /\ poll \in [Pollers -> PollFields] /\ poll[p] \in PollFields
      /\ local \in [Brokers -> [Jobs -> LocalState]] /\ persisted \in [Brokers -> SUBSET Jobs]
  BY Zenon, PollType DEF Restore, Polls, Asked, TypeOK
<1>2. UNCHANGED <<setting, up, age, drain, rec, upserts, deletes, issued, written, consumed, exposed>>
  BY Zenon DEF Restore, brokerVars, storeVars, history
<1>3. /\ local' \in [Brokers -> [Jobs -> LocalState]] /\ persisted' \in [Brokers -> SUBSET Jobs]
      /\ local'[b][j] = IF local[b][j] = "none" THEN "late" ELSE local[b][j]
      /\ \A c \in Brokers : \A k \in Jobs : c # b \/ k # j => local'[c][k] = local[c][k]
  <2>1. CASE local[b][j] = "none"
    <3>1. local' = [local EXCEPT ![b][j] = "late"] /\ persisted' = [persisted EXCEPT ![b] = @ \cup {j}]
      BY Zenon, <2>1 DEF Restore, SetLocal
    <3> HIDE DEF b, j
    <3> QED
      BY Zenon, <1>1, <2>1, <3>1 DEF LocalState
  <2>2. CASE local[b][j] # "none"
    <3>1. UNCHANGED <<local, persisted>>
      BY Zenon, <2>2 DEF Restore, tableVars
    <3> QED
      BY Zenon, <1>1, <2>2, <3>1
  <2> QED
    BY Zenon, <2>1, <2>2
<1>4. /\ poll' \in [Pollers -> PollFields] /\ \A r \in Pollers : r # p => poll'[r] = poll[r]
      /\ poll'[p].pc = "repoll" /\ poll'[p].at = b /\ poll'[p].job = j
  BY Zenon, <1>1 DEF Restore, Goto, PollFields, PollPc
<1>5. Claims(b, j)
  BY Zenon, <1>1 DEF Claims
<1> HIDE DEF b, j
<1>6. TypeOK'
  BY Zenon, <1>2, <1>3, <1>4 DEF TypeOK
<1>7. Fleet'
  BY SMTT(60), <1>1, <1>2, <1>3 DEF Fleet, Active
<1>8. Lives'
  BY SMTT(60), <1>1, <1>2, <1>3 DEF Lives, Life
<1>9. Polls'
  <2>1. \A r \in Pollers : r # p => Asked(poll[r])'
    <3> SUFFICES ASSUME NEW r \in Pollers, r # p PROVE Asked(poll[r])'
      BY Zenon
    <3>1. Asked(poll[r]) /\ poll'[r] = poll[r] /\ poll[r].job \in Jobs
      BY Zenon, <1>4, PollType DEF Polls
    <3>2. CASE poll[r].at = b /\ poll[r].job = j
      BY Zenon, <1>1, <1>2, <3>1, <3>2 DEF Asked, Active
    <3>3. CASE ~(poll[r].at = b /\ poll[r].job = j)
      BY ZenonT(100), <1>2, <1>3, <3>1, <3>3 DEF Asked, Active
    <3> QED
      BY Zenon, <3>2, <3>3
  <2>2. Asked(poll[p])'
    BY Zenon, <1>1, <1>2, <1>4 DEF Asked
  <2> QED
    BY Zenon, <2>1, <2>2 DEF Polls
<1>10. Ownership'
  <2>1. ASSUME NEW c \in Brokers, NEW k \in Jobs, Claims(c, k)'
        PROVE  Claims(c, k)
    BY ZenonT(100), <1>2, <1>3, <1>4, <1>5, <2>1 DEF Claims
  <2> QED
    BY Zenon, <1>2, <2>1, OwnershipKept
<1> QED
  BY Zenon, <1>2, <1>6, <1>7, <1>8, <1>9, <1>10

-----------------------------------------------------------------------------
(* Brokers and time *)

\* A renewal: polls that took the broker for gone while it was in service ask
\* for exposed jobs.
LEMMA HeartbeatInv ==
  ASSUME IInv, NEW b \in Brokers, Heartbeat(b)
  PROVE  IInv'
<1> USE DEF IInv
<1>1. /\ up[b] = "up" /\ age \in [Brokers -> 0..Expired] /\ age' = [age EXCEPT ![b] = 0]
      /\ Expired \in Nat \ {0}
      /\ UNCHANGED <<setting, up, drain, local, persisted, rec, upserts, deletes, poll,
                     issued, written, consumed, exposed>>
  BY RecoveryAssumption DEF Heartbeat, TypeOK, tableVars, storeVars, history, Expired
<1>2. /\ age' \in [Brokers -> 0..Expired] /\ age'[b] = 0
      /\ \A c \in Brokers : c # b => age'[c] = age[c]
  BY <1>1
<1>3. \A c \in Brokers : /\ ~Active(c)' => ~Active(c)
                         /\ ~Active(c) /\ c # b => ~Active(c)'
  BY <1>1, <1>2 DEF Active, Expired
<1>4. TypeOK'
  BY Zenon, <1>1, <1>2 DEF TypeOK
<1>5. Fleet'
  BY Zenon, <1>1, <1>3, RecoveryAssumption DEF Fleet
<1>6. Lives'
  BY Zenon, <1>1 DEF Lives, Life
<1>7. Polls'
  <2> SUFFICES ASSUME NEW p \in Pollers, poll[p].pc # "idle" PROVE Asked(poll[p])'
    BY Zenon, <1>1 DEF Polls, Asked
  <2>1. /\ Asked(poll[p]) /\ Hint[poll[p].job] \in Brokers /\ poll[p].job \in Jobs
        /\ poll[p].job \in issued
    BY Zenon, PollType, RecoveryAssumption DEF Polls, Asked
  <2>2. poll[p].job \notin exposed /\ ~Active(Hint[poll[p].job]) => ~Active(Hint[poll[p].job])'
    BY Zenon, <1>1, <1>3, <2>1, GoneNotUp
  <2> QED
    BY <1>1, <2>1, <2>2 DEF Asked
<1>8. Ownership'
  <2>1. \A c \in Brokers : \A k \in Jobs : Claims(c, k)' => Claims(c, k)
    BY Zenon, <1>1 DEF Claims
  <2> QED
    BY Zenon, <1>1, <2>1, OwnershipKept
<1> QED
  BY Zenon, <1>1, <1>4, <1>5, <1>6, <1>7, <1>8

\* Time passes: no lease comes back, and one that lapses in service exposes.
LEMMA TickInv ==
  ASSUME IInv, Tick
  PROVE  IInv'
<1> USE DEF IInv
<1>1. /\ age \in [Brokers -> 0..Expired] /\ Expired \in Nat /\ TTL \in Nat
      /\ drain \in [Brokers -> 0..TTL]
      /\ \A b \in Brokers : up[b] = "draining" => drain[b] < TTL
      /\ age' = [b \in Brokers |-> IF age[b] < Expired THEN age[b] + 1 ELSE age[b]]
      /\ drain' = [b \in Brokers |-> IF up[b] = "draining" THEN drain[b] + 1 ELSE drain[b]]
      /\ exposed' = exposed \cup {j \in issued : up[Hint[j]] = "up" /\ age'[Hint[j]] = Expired}
      /\ UNCHANGED <<setting, up, local, persisted, rec, upserts, deletes, poll,
                     issued, written, consumed>>
  BY RecoveryAssumption DEF Tick, TypeOK, tableVars, storeVars, Expired
<1>2. age' \in [Brokers -> 0..Expired] /\ drain' \in [Brokers -> 0..TTL]
  BY <1>1
<1>3. \A c \in Brokers : /\ ~Active(c) => ~Active(c)'
                         /\ ~Active(c)' => age'[c] = Expired
  BY <1>1, <1>2 DEF Active, Expired
<1>4. exposed' \in SUBSET Jobs /\ exposed \subseteq exposed'
  BY Zenon, <1>1 DEF TypeOK
<1>5. TypeOK'
  BY Zenon, <1>1, <1>2, <1>4 DEF TypeOK
<1>6. Fleet'
  BY Zenon, <1>1, <1>3, RecoveryAssumption DEF Fleet
<1>7. Lives'
  BY Zenon, <1>1 DEF Lives, Life
<1>8. Polls'
  <2> SUFFICES ASSUME NEW p \in Pollers PROVE Asked(poll[p])'
    BY Zenon DEF Polls
  <2>1. Asked(poll[p]) /\ Hint[poll[p].job] \in Brokers
    BY Zenon, PollType, RecoveryAssumption DEF Polls
  <2> QED
    BY Zenon, <1>1, <1>3, <1>4, <2>1 DEF Asked
<1>9. Ownership'
  <2>1. \A c \in Brokers : \A k \in Jobs : Claims(c, k)' => Claims(c, k)
    BY Zenon, <1>1 DEF Claims
  <2> QED
    BY Zenon, <1>1, <1>4, <2>1, OwnershipKept
<1> QED
  BY Zenon, <1>1, <1>5, <1>6, <1>7, <1>8, <1>9

\* A shutdown begins.
LEMMA ShutdownInv ==
  ASSUME IInv, NEW b \in Brokers, Shutdown(b)
  PROVE  IInv'
<1> USE DEF IInv
<1>1. /\ up[b] = "up" /\ up' = [up EXCEPT ![b] = "draining"]
      /\ up \in [Brokers -> {"up", "draining", "drained", "down"}]
      /\ \A p \in Pollers : poll[p].at # b
      /\ UNCHANGED <<setting, age, drain, local, persisted, rec, upserts, deletes, poll,
                     issued, written, consumed, exposed>>
  BY Zenon DEF Shutdown, TypeOK, tableVars, storeVars, history
<1>2. /\ up' \in [Brokers -> {"up", "draining", "drained", "down"}] /\ up'[b] = "draining"
      /\ \A c \in Brokers : c # b => up'[c] = up[c]
  BY Zenon, <1>1
<1>3. TypeOK'
  BY Zenon, <1>1, <1>2 DEF TypeOK
<1>4. Fleet'
  BY SMTT(60), <1>1, <1>2 DEF Fleet, Active
<1>5. Lives'
  BY Zenon, <1>1 DEF Lives, Life
<1>6. Polls'
  BY ZenonT(100), <1>1, <1>2 DEF Polls, Asked, Active
<1>7. Ownership'
  <2>1. \A c \in Brokers : \A k \in Jobs : Claims(c, k)' => Claims(c, k)
    BY Zenon, <1>1, <1>2 DEF Claims
  <2> QED
    BY Zenon, <1>1, <2>1, OwnershipKept
<1> QED
  BY Zenon, <1>1, <1>3, <1>4, <1>5, <1>6, <1>7

\* The drain is over: the lease is deleted, or stays.
LEMMA DeleteLeaseInv ==
  ASSUME IInv, NEW b \in Brokers, DeleteLease(b)
  PROVE  IInv'
<1> USE DEF IInv
<1>1. /\ up[b] = "draining" /\ up' = [up EXCEPT ![b] = "drained"]
      /\ up \in [Brokers -> {"up", "draining", "drained", "down"}]
      /\ age \in [Brokers -> 0..Expired] /\ Expired \in Nat
      /\ age' = age \/ age' = [age EXCEPT ![b] = Expired]
      /\ UNCHANGED <<setting, drain, local, persisted, rec, upserts, deletes, poll,
                     issued, written, consumed, exposed>>
  BY RecoveryAssumption DEF DeleteLease, TypeOK, tableVars, storeVars, history, Expired
<1>2. /\ up' \in [Brokers -> {"up", "draining", "drained", "down"}] /\ up'[b] = "drained"
      /\ \A c \in Brokers : c # b => up'[c] = up[c]
  BY Zenon, <1>1
<1>3. age' \in [Brokers -> 0..Expired] /\ \A c \in Brokers : age'[c] = age[c] \/ age'[c] = Expired
  BY <1>1
<1>4. \A c \in Brokers : ~Active(c) => ~Active(c)'
  BY <1>1, <1>3 DEF Active, Expired
<1>5. \A c \in Brokers : up'[c] = "up" => up[c] = "up" /\ (~Active(c)' => ~Active(c))
  BY <1>1, <1>2 DEF Active, Expired
<1>6. TypeOK'
  BY Zenon, <1>1, <1>2, <1>3 DEF TypeOK
<1>7. Fleet'
  <2>1. \A c \in Brokers : up'[c] = "down" => up[c] = "down"
    BY <1>2
  <2> QED
    BY Zenon, <1>1, <1>5, <2>1, RecoveryAssumption DEF Fleet
<1>8. Lives'
  BY Zenon, <1>1 DEF Lives, Life
<1>9. Polls'
  <2> SUFFICES ASSUME NEW p \in Pollers PROVE Asked(poll[p])'
    BY Zenon DEF Polls
  <2>1. Asked(poll[p]) /\ Hint[poll[p].job] \in Brokers
    BY Zenon, PollType, RecoveryAssumption DEF Polls
  <2>2. \A c \in Brokers : up[c] = "up" => up'[c] = "up"
    BY Zenon, <1>1, <1>2
  <2> QED
    BY Zenon, <1>1, <1>4, <2>1, <2>2 DEF Asked
<1>10. Ownership'
  <2>1. \A c \in Brokers : \A k \in Jobs : Claims(c, k)' => Claims(c, k)
    BY Zenon, <1>1, <1>5 DEF Claims
  <2> QED
    BY Zenon, <1>1, <2>1, OwnershipKept
<1> QED
  BY Zenon, <1>1, <1>6, <1>7, <1>8, <1>9, <1>10

\* A process ends, by a crash or after its drain.
LEMMA StopInv ==
  ASSUME IInv, NEW b \in Brokers, Crash(b) \/ Exit(b)
  PROVE  IInv'
<1> USE DEF IInv
<1>1. /\ up' = [up EXCEPT ![b] = "down"] /\ drain' = [drain EXCEPT ![b] = 0]
      /\ local' = [local EXCEPT ![b] = [j \in Jobs |-> "none"]]
      /\ persisted' = [persisted EXCEPT ![b] = {}]
      /\ poll' = [p \in Pollers |-> IF poll[p].at = b THEN Idle ELSE poll[p]]
      /\ UNCHANGED <<setting, rec, upserts, issued, written, consumed, exposed>>
  BY Zenon DEF Crash, Exit, Stop, storeVars, history
<1>2. /\ up' \in [Brokers -> {"up", "draining", "drained", "down"}] /\ up'[b] = "down"
      /\ \A c \in Brokers : c # b => up'[c] = up[c]
  BY Zenon, <1>1 DEF TypeOK
<1>3. /\ local' \in [Brokers -> [Jobs -> LocalState]] /\ \A j \in Jobs : local'[b][j] = "none"
      /\ \A c \in Brokers : c # b => local'[c] = local[c]
  BY Zenon, <1>1 DEF TypeOK, LocalState
<1>4. /\ poll' \in [Pollers -> PollFields]
      /\ \A p \in Pollers : poll'[p] = Idle \/ (poll'[p] = poll[p] /\ poll[p].at # b)
  <2>1. poll \in [Pollers -> PollFields] /\ Idle \in PollFields
    BY Zenon, IdleType DEF TypeOK
  <2> QED
    BY Zenon, <1>1, <2>1
<1>5. drain' \in [Brokers -> 0..TTL] /\ persisted' \in [Brokers -> SUBSET Jobs]
  BY <1>1, RecoveryAssumption DEF TypeOK
<1>6. deletes' \in [Brokers -> SUBSET Jobs] /\ \A c \in Brokers : deletes'[c] \subseteq deletes[c]
  <2>1. deletes \in [Brokers -> SUBSET Jobs]
    BY Zenon DEF TypeOK
  <2>2. CASE Crash(b)
    <3>1. PICK D \in SUBSET deletes[b] : deletes' = [deletes EXCEPT ![b] = D]
      BY Zenon, <2>2 DEF Crash
    <3> QED
      BY Zenon, <2>1, <3>1
  <2>3. CASE Exit(b)
    BY Zenon, <2>1, <2>3 DEF Exit, storeVars
  <2> QED
    BY Zenon, <2>2, <2>3
<1>7. UNCHANGED age
  BY Zenon DEF Crash, Exit
<1>8. TypeOK'
  BY Zenon, <1>1, <1>2, <1>3, <1>4, <1>5, <1>6, <1>7 DEF TypeOK
<1>9. Fleet'
  <2>1. /\ \A c \in Brokers : up'[c] = "up" => up[c] = "up" /\ (~Active(c)' => ~Active(c))
        /\ \A c \in Brokers : up'[c] = "down" => c = b \/ up[c] = "down"
    BY <1>2, <1>7 DEF Active
  <2> QED
    <3>1. Hint \in [Jobs -> Brokers] /\ Fleet /\ UNCHANGED <<issued, exposed>>
      BY Zenon, <1>1, RecoveryAssumption
    <3>2. \A j \in Jobs :
            j \in issued' /\ up'[Hint[j]] = "up" /\ ~Active(Hint[j])' => j \in exposed'
      BY Zenon, <2>1, <3>1 DEF Fleet
    <3>3. \A c \in Brokers : up'[c] = "down" => \A j \in Jobs : local'[c][j] = "none"
      BY SMTT(60), <1>3, <2>1, <3>1 DEF Fleet
    <3> QED
      BY Zenon, <3>2, <3>3 DEF Fleet
<1>10. Lives'
  <2> SUFFICES ASSUME NEW j \in Jobs PROVE Life(j)'
    BY Zenon DEF Lives
  <2>1. Life(j)
    BY Zenon DEF Lives
  <2>2. \A c \in Brokers : local'[c][j] \in {"none", local[c][j]}
    BY Zenon, <1>3
  <2> QED
    BY Zenon, <1>1, <1>6, <2>1, <2>2 DEF Life
<1>11. Polls'
  <2> SUFFICES ASSUME NEW p \in Pollers, poll'[p] = poll[p], poll[p].at # b, poll[p].pc # "idle"
               PROVE  Asked(poll[p])'
    BY Zenon, <1>4, IdleType DEF Polls, Asked
  <2>1. Asked(poll[p]) /\ Hint[poll[p].job] \in Brokers
    BY Zenon, PollType, RecoveryAssumption DEF Polls
  <2>2. ~Active(Hint[poll[p].job]) => ~Active(Hint[poll[p].job])'
    BY Zenon, <1>7 DEF Active
  <2> QED
    BY ZenonT(100), <1>1, <1>2, <1>3, <2>1, <2>2 DEF Asked
<1>12. Ownership'
  <2>1. ASSUME NEW c \in Brokers, NEW k \in Jobs, Claims(c, k)'
        PROVE  Claims(c, k)
    <3>1. c # b /\ up[c] = "up" /\ local'[c] = local[c]
      BY Zenon, <1>2, <1>3, <2>1 DEF Claims
    <3>2. \A p \in Pollers : poll'[p].pc = "restore" => poll'[p] = poll[p]
      BY Zenon, <1>4, IdleType
    <3> QED
      BY Zenon, <2>1, <3>1, <3>2 DEF Claims
  <2> QED
    BY Zenon, <1>1, <2>1, OwnershipKept
<1> QED
  BY Zenon, <1>1, <1>8, <1>9, <1>10, <1>11, <1>12

-----------------------------------------------------------------------------
(* Theorems *)

\* Every step of jobs, polls, brokers and the store keeps the invariant.
THEOREM Inductive == IInv /\ [Next]_vars => IInv'
<1> SUFFICES ASSUME IInv, [Next]_vars PROVE IInv'
  BY Zenon
<1>1. ASSUME NEW j \in Jobs, JobStep(j) PROVE IInv'
  BY Zenon, <1>1, SubmitInv, SendInv, UpsertLandsInv, FinishInv, SweepInv, DeleteInv DEF JobStep
<1>2. ASSUME NEW p \in Pollers, PollStep(p) PROVE IInv'
  BY Zenon, <1>2, PollFoundInv, PollMissedInv, LookupHintInv, ClaimInv, RestoreInv, LookupOwnerInv,
     ProxyInv DEF PollStep
<1>3. ASSUME NEW b \in Brokers, BrokerStep(b) PROVE IInv'
  BY Zenon, <1>3, HeartbeatInv, ShutdownInv, DeleteLeaseInv, StopInv DEF BrokerStep
<1>4. CASE UNCHANGED vars
  <2> USE <1>4 DEF vars, brokerVars, tableVars, storeVars, history
  <2>1. TypeOK' /\ Fleet'
    BY Zenon DEF IInv, TypeOK, Fleet, Active
  <2>2. Lives'
    BY ZenonT(100) DEF IInv, Lives, Life
  <2>3. Polls'
    BY Zenon DEF IInv, Polls, Asked, Active
  <2>4. Ownership'
    BY DEF IInv, Ownership, Owned, Holds, Claims
  <2> QED
    BY Zenon, <2>1, <2>2, <2>3, <2>4 DEF IInv
<1> QED
  BY Zenon, <1>1, <1>2, <1>3, <1>4, StartPollInv, TickInv DEF Next

\* The invariant always holds.
THEOREM Invariance == Spec => []IInv
BY InitInv, Inductive, PTL DEF Spec

\* Every variable keeps its shape; in particular a drain ends within a TTL.
THEOREM TypeCorrect == Spec => []TypeOK
<1>1. IInv => TypeOK
  BY Zenon DEF IInv
<1> QED
  BY <1>1, Invariance, PTL

\* No split-brain: two brokers in service never execute one job, but for the
\* one next to a hint's broker that was in service without a lease.
THEOREM SingleExecutionCorrect == Spec => []SingleExecution
<1>1. IInv => SingleExecution
  BY Zenon DEF IInv, Ownership, Owned, Holds, Claims, SingleExecution
<1> QED
  BY <1>1, Invariance, PTL

\* A durable record stays until a result of its job was taken or swept.
THEOREM PersistedCorrect == Spec => []PersistedNotLost
<1>1. IInv => PersistedNotLost
  BY Zenon DEF IInv, TypeOK, Lives, Life, PersistedNotLost
<1> QED
  BY <1>1, Invariance, PTL

\* A record changes hands only by a claim, and then the owner that loses it has
\* no active lease, or once lacked it in service.
LEMMA HandOver ==
  ASSUME IInv, [Next]_vars, NEW j \in Jobs, rec[j] # NoBroker, rec'[j] \notin {NoBroker, rec[j]}
  PROVE  ~Active(rec[j]) \/ j \in exposed
<1>1. rec \in [Jobs -> Brokers \cup {NoBroker}]
  BY Zenon DEF IInv, TypeOK
<1>2. ASSUME NEW p \in Pollers, Claim(p) PROVE ~Active(rec[j]) \/ j \in exposed
  <2>1. poll[p].job = j /\ rec[j] = Hint[j] /\ rec'[j] = poll[p].at
    BY Zenon, <1>1, <1>2, PollType DEF Claim, IInv
  <2>2. poll[p].pc = "claim" /\ poll[p].at # Hint[j]
    BY Zenon, <1>2, <2>1 DEF Claim
  <2> QED
    BY Zenon, <2>1, <2>2 DEF IInv, Polls, Asked
<1>3. ASSUME NEW k \in Jobs, UpsertLands(k) PROVE FALSE
  <2>1. k = j
    BY Zenon, <1>1, <1>3 DEF UpsertLands
  <2> QED
    BY Zenon, <1>3, <2>1 DEF UpsertLands, IInv, Lives, Life
<1>4. ASSUME NEW k \in Jobs, NEW b \in Brokers, DeleteLands(b, k) PROVE FALSE
  BY Zenon, <1>1, <1>4 DEF DeleteLands
<1>5. \/ \E p \in Pollers : Claim(p)
      \/ \E k \in Jobs : UpsertLands(k)
      \/ \E k \in Jobs, b \in Brokers : DeleteLands(b, k)
      \/ UNCHANGED rec
  <2>1. ASSUME NEW k \in Jobs, JobStep(k)
        PROVE  UpsertLands(k) \/ (\E b \in Brokers : DeleteLands(b, k)) \/ UNCHANGED rec
    BY Zenon, <2>1 DEF JobStep, Submit, PersistTimer, UpsertFails, Finish, Sweep, DeleteFails, storeVars
  <2>2. ASSUME NEW p \in Pollers, PollStep(p)
        PROVE  Claim(p) \/ UNCHANGED rec
    BY Zenon, <2>2 DEF PollStep, PollFound, PollMissed, LookupHint, Restore, LookupOwner, Proxy, storeVars
  <2>3. ASSUME NEW p \in Pollers, NEW b \in Brokers, NEW k \in Jobs, StartPoll(p, b, k)
        PROVE  UNCHANGED rec
    BY Zenon, <2>3 DEF StartPoll, storeVars
  <2>4. ASSUME NEW b \in Brokers, BrokerStep(b)
        PROVE  UNCHANGED rec
    BY Zenon, <2>4 DEF BrokerStep, Heartbeat, Crash, Shutdown, DeleteLease, Exit, storeVars
  <2>5. CASE Tick \/ UNCHANGED vars
    BY Zenon, <2>5 DEF Tick, vars, storeVars
  <2> QED
    BY Zenon, <2>1, <2>2, <2>3, <2>4, <2>5 DEF Next
<1> QED
  BY Zenon, <1>2, <1>3, <1>4, <1>5

\* Reclaim is lease-gated, however stale the claimant's lookup is: the lease of a
\* broker that is gone does not come back.
THEOREM LeaseGatedCorrect == Spec => LeaseGated
<1>1. IInv /\ [Next]_vars =>
        [\A j \in Jobs :
           rec[j] # NoBroker /\ rec'[j] \notin {NoBroker, rec[j]}
             => ~Active(rec[j]) \/ j \in exposed]_vars
  BY Zenon, HandOver
<1> QED
  BY <1>1, Invariance, PTL DEF Spec, LeaseGated

\* A poll for an unexposed job that finds no record and no consumed result is at
\* a broker without the job, and so are all others in service.
LEMMA NoneHasIt ==
  ASSUME IInv, NEW p \in Pollers, poll[p].pc = "claim", rec[poll[p].job] = NoBroker,
         poll[p].job \notin consumed \cup exposed, NEW b \in Brokers, up[b] = "up"
  PROVE  local[b][poll[p].job] = "none"
<1> DEFINE j == poll[p].job
<1>1. j \in Jobs /\ Hint[j] \in Brokers /\ Asked(poll[p]) /\ Life(j)
  BY Zenon, PollType, RecoveryAssumption DEF IInv, Polls, Lives
<1>2. j \notin written
  BY Zenon, <1>1 DEF Life
<1>3. CASE b # Hint[j]
  BY Zenon, <1>1, <1>2, <1>3 DEF Life
<1>4. CASE b = Hint[j] /\ poll[p].at = b
  BY SMTT(60), <1>1, <1>2, <1>4 DEF Asked
<1>5. CASE b = Hint[j] /\ poll[p].at # b
  BY Zenon, <1>1, <1>5, GoneNotUp DEF Asked, IInv
<1> QED
  BY Zenon, <1>3, <1>4, <1>5

\* A client is told that its job is lost only when it was consumed, or no broker
\* in service has it, or its own broker was in service without a lease.
THEOREM LostCorrect == Spec => LostOnlyWhenGone
<1>1. IInv /\ [Next]_vars =>
        [\A p \in Pollers :
           LET j == poll[p].job IN
           poll[p].pc = "claim" /\ poll'[p].pc = "idle" /\ up'[poll[p].at] = "up"
             /\ rec[j] = NoBroker /\ j \notin consumed \cup exposed
             => \A b \in Brokers : up[b] = "up" => local[b][j] = "none"]_vars
  BY Zenon, NoneHasIt
<1> QED
  BY <1>1, Invariance, PTL DEF Spec, LostOnlyWhenGone

=============================================================================
