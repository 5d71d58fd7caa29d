--------------------------- MODULE JobTableProofs ---------------------------
(***************************************************************************)
(* Proofs about module JobTable, for any number of ids, instances and      *)
(* handlers, any max_jobs, with and without persistence and store errors.  *)
(***************************************************************************)
EXTENDS JobTable, Integers, FiniteSetTheorems, TLAPS

-----------------------------------------------------------------------------
(* The inductive invariant *)

\* Where a handler holds an Arc<Job>, and where also a ConnectedGuard.
Connected == {"take", "wait", "retake", "remove", "decrement", "cleanup", "disconnect"}
Holding == Connected \cup {"connect"}

PollersAt(i) == {h \in Handlers : handler[h].pc \in Connected /\ handler[h].inst = i}

\* active_pollers of a job is the number of guards its pollers hold.
PollersExact == \A i \in Insts : job[i].pollers = Cardinality(PollersAt(i))

\* The table maps ids to jobs whose task was spawned.
TableBorn == \A id \in Ids : jobs[id] # NoInst => runner[jobs[id]] # "unborn"

\* What holds of the locals of one handler.
Sound(f) ==
  /\ f.pc \in Holding => f.inst \in Insts /\ runner[f.inst] # "unborn"
  /\ f.pc \in {"take", "wait"} => f.wake # "unarmed"
  /\ f.pc = "bypass" => f.mode = "repoll"

HandlerSound == \A h \in Handlers : Sound(handler[h])

Published == {"notify", "done"}

\* Before its task publishes, a job has no result and none was delivered.
SlotEmptyBefore ==
  \A i \in Insts : runner[i] \notin Published => job[i].result = "none" /\ delivered[i] = 0

Waking(f) ==
  f.pc = "wait" /\ job[f.inst].result # "none" => f.wake = "woken" \/ runner[f.inst] = "notify"

IInv ==
  /\ TypeOK
  /\ CountExact
  /\ EnforcedWithinMax
  /\ PollersExact
  /\ TableBorn
  /\ HandlerSound
  /\ SlotEmptyBefore
  /\ ResultConserved
  /\ NoLostWakeup

-----------------------------------------------------------------------------
(* Counting *)

Bit(b) == IF b THEN 1 ELSE 0

\* A subset of a finite set is finite and no larger.
LEMMA CardSubset ==
  ASSUME NEW S, NEW T, IsFiniteSet(S), T \subseteq S
  PROVE  /\ IsFiniteSet(T)
         /\ Cardinality(S) \in Nat
         /\ Cardinality(T) \in Nat
         /\ Cardinality(T) <= Cardinality(S)
<1>1. IsFiniteSet(T) /\ Cardinality(T) <= Cardinality(S)
  BY Zenon, FS_Subset
<1> QED
  BY Zenon, <1>1, FS_CardinalityType

\* Two sets that differ in one element at most.
LEMMA CardMove ==
  ASSUME NEW S, NEW T, NEW x, IsFiniteSet(S), S \ {x} = T \ {x}
  PROVE  /\ IsFiniteSet(T)
         /\ Cardinality(S) \in Nat
         /\ Cardinality(T) \in Nat
         /\ Cardinality(T) = Cardinality(S) + Bit(x \in T) - Bit(x \in S)
<1>1. PICK R : R = S \ {x}
  BY Zenon
<1>2. IsFiniteSet(R) /\ Cardinality(R) = IF x \in S THEN Cardinality(S) - 1 ELSE Cardinality(S)
  BY Zenon, <1>1, FS_RemoveElement
<1>3. x \notin R /\ T = IF x \in T THEN R \cup {x} ELSE R
  BY Zenon, <1>1
<1>4. IsFiniteSet(T) /\ Cardinality(T) = IF x \in T THEN Cardinality(R) + 1 ELSE Cardinality(R)
  BY <1>2, <1>3, FS_AddElement
<1>5. Cardinality(S) \in Nat /\ Cardinality(T) \in Nat /\ Cardinality(R) \in Nat
  BY Zenon, <1>2, <1>4, FS_CardinalityType
<1> QED
  BY <1>2, <1>4, <1>5 DEF Bit

-----------------------------------------------------------------------------
(* The effect of an action on the two tables of records *)

HandlerOK == handler \in [Handlers -> HandlerFields]
JobOK == job \in [Insts -> JobFields]

HandlerTo(h, f) ==
  /\ HandlerOK'
  /\ handler'[h] = f
  /\ \A k \in Handlers : k # h => handler'[k] = handler[k]

JobTo(i, f) ==
  /\ JobOK'
  /\ job'[i] = f
  /\ \A k \in Insts : k # i => job'[k] = job[k]

\* Every program counter the actions assign is one.
LEMMA Pcs ==
  /\ "insert" \in HandlerPc /\ "lookup" \in HandlerPc /\ "connect" \in HandlerPc
  /\ "take" \in HandlerPc /\ "wait" \in HandlerPc /\ "retake" \in HandlerPc
  /\ "remove" \in HandlerPc /\ "decrement" \in HandlerPc /\ "cleanup" \in HandlerPc
  /\ "disconnect" \in HandlerPc /\ "claim" \in HandlerPc /\ "bypass" \in HandlerPc
  BY Zenon DEF HandlerPc

Locals(p, m, d, i, w) == [pc |-> p, mode |-> m, id |-> d, inst |-> i, wake |-> w]
After(h, p) == Locals(p, handler[h].mode, handler[h].id, handler[h].inst, handler[h].wake)

\* Goto changes the program counter and nothing else.
LEMMA GotoEffect ==
  ASSUME HandlerOK, NEW h \in Handlers, NEW p \in HandlerPc, Goto(h, p)
  PROVE  HandlerTo(h, After(h, p))
  BY ZenonT(100) DEF Goto, HandlerOK, HandlerFields, HandlerTo, After, Locals

\* Submit and StartPoll assign three fields.
LEMMA RequestEffect ==
  ASSUME HandlerOK, NEW h \in Handlers, NEW p \in HandlerPc,
         NEW m \in {"submit", "poll", "repoll"}, NEW d \in Ids,
         handler' = [handler EXCEPT ![h].pc = p, ![h].mode = m, ![h].id = d]
  PROVE  HandlerTo(h, Locals(p, m, d, handler[h].inst, handler[h].wake))
  BY ZenonT(100) DEF HandlerOK, HandlerFields, HandlerTo, Locals

\* Claim assigns the program counter and the mode.
LEMMA ModeEffect ==
  ASSUME HandlerOK, NEW h \in Handlers, NEW p \in HandlerPc,
         NEW m \in {"submit", "poll", "repoll"},
         handler' = [handler EXCEPT ![h].pc = p, ![h].mode = m]
  PROVE  HandlerTo(h, Locals(p, m, handler[h].id, handler[h].inst, handler[h].wake))
  BY ZenonT(100) DEF HandlerOK, HandlerFields, HandlerTo, Locals

\* Lookup assigns the program counter and the instance.
LEMMA FindEffect ==
  ASSUME HandlerOK, NEW h \in Handlers, NEW p \in HandlerPc, NEW i \in Insts,
         handler' = [handler EXCEPT ![h].pc = p, ![h].inst = i]
  PROVE  HandlerTo(h, Locals(p, handler[h].mode, handler[h].id, i, handler[h].wake))
  BY ZenonT(100) DEF HandlerOK, HandlerFields, HandlerTo, Locals

\* Connect and Wake arm the wait.
LEMMA ArmEffect ==
  ASSUME HandlerOK, NEW h \in Handlers, NEW p \in HandlerPc,
         handler' = [handler EXCEPT ![h].pc = p, ![h].wake = "armed"]
  PROVE  HandlerTo(h, Locals(p, handler[h].mode, handler[h].id, handler[h].inst, "armed"))
  BY ZenonT(100) DEF HandlerOK, HandlerFields, HandlerTo, Locals

\* Return makes the handler idle.
LEMMA ReturnEffect ==
  ASSUME HandlerOK, NEW h \in Handlers, Return(h)
  PROVE  HandlerTo(h, Idle)
<1>1. Idle \in HandlerFields
  BY Zenon, TableAssumption DEF Idle, HandlerFields, HandlerPc, AnyId
<1> QED
  BY Zenon, <1>1 DEF Return, HandlerOK, HandlerTo

\* A notification changes no more than the wake field of handlers.
LEMMA WokenEffect ==
  ASSUME HandlerOK, NEW i \in Insts, handler' = Woken(i)
  PROVE  /\ HandlerOK'
         /\ \A h \in Handlers :
              /\ handler'[h].pc = handler[h].pc /\ handler'[h].mode = handler[h].mode
              /\ handler'[h].inst = handler[h].inst
              /\ handler'[h].wake = IF handler[h].inst = i /\ handler[h].wake = "armed"
                                    THEN "woken" ELSE handler[h].wake
  BY ZenonT(100) DEF Woken, HandlerOK, HandlerFields

\* One handler's move changes each count of handlers by one at most.
LEMMA HandlerCounts ==
  ASSUME NEW h \in Handlers, NEW f, HandlerTo(h, f)
  PROVE  /\ \A p \in HandlerPc :
              /\ Cardinality(At(p)) \in Nat /\ Cardinality(At(p)') \in Nat
              /\ Cardinality(At(p)') =
                   Cardinality(At(p)) + Bit(f.pc = p) - Bit(handler[h].pc = p)
         /\ Cardinality(EnforcedReserved) \in Nat /\ Cardinality(EnforcedReserved') \in Nat
         /\ Cardinality(EnforcedReserved') =
              Cardinality(EnforcedReserved) + Bit(f.pc = "insert" /\ f.mode = "submit")
                - Bit(handler[h].pc = "insert" /\ handler[h].mode = "submit")
         /\ \A i \in Insts :
              /\ Cardinality(PollersAt(i)) \in Nat /\ Cardinality(PollersAt(i)') \in Nat
              /\ Cardinality(PollersAt(i)') =
                   Cardinality(PollersAt(i)) + Bit(f.pc \in Connected /\ f.inst = i)
                     - Bit(handler[h].pc \in Connected /\ handler[h].inst = i)
<1> USE TableAssumption DEF HandlerTo
<1>1. ASSUME NEW p \in HandlerPc
      PROVE  /\ Cardinality(At(p)) \in Nat /\ Cardinality(At(p)') \in Nat
             /\ Cardinality(At(p)') =
                  Cardinality(At(p)) + Bit(f.pc = p) - Bit(handler[h].pc = p)
  <2>1. IsFiniteSet(At(p))
    BY Zenon, CardSubset DEF At
  <2>2. At(p) \ {h} = At(p)' \ {h}
    BY Zenon DEF At
  <2>3. (h \in At(p) <=> handler[h].pc = p) /\ (h \in At(p)' <=> f.pc = p)
    BY Zenon DEF At
  <2> HIDE DEF HandlerTo
  <2>4. /\ Cardinality(At(p)) \in Nat /\ Cardinality(At(p)') \in Nat
        /\ Cardinality(At(p)') = Cardinality(At(p)) + Bit(h \in At(p)') - Bit(h \in At(p))
    BY Zenon, <2>1, <2>2, CardMove
  <2> QED
    BY Zenon, <2>3, <2>4 DEF Bit
<1>2. /\ Cardinality(EnforcedReserved) \in Nat /\ Cardinality(EnforcedReserved') \in Nat
      /\ Cardinality(EnforcedReserved') =
           Cardinality(EnforcedReserved) + Bit(f.pc = "insert" /\ f.mode = "submit")
             - Bit(handler[h].pc = "insert" /\ handler[h].mode = "submit")
  <2>1. IsFiniteSet(EnforcedReserved)
    BY Zenon, CardSubset DEF EnforcedReserved, At
  <2>2. EnforcedReserved \ {h} = EnforcedReserved' \ {h}
    BY Zenon DEF EnforcedReserved, At
  <2>3. /\ h \in EnforcedReserved <=> handler[h].pc = "insert" /\ handler[h].mode = "submit"
        /\ h \in EnforcedReserved' <=> f.pc = "insert" /\ f.mode = "submit"
    BY Zenon DEF EnforcedReserved, At
  <2> HIDE DEF HandlerTo
  <2>4. /\ Cardinality(EnforcedReserved) \in Nat /\ Cardinality(EnforcedReserved') \in Nat
        /\ Cardinality(EnforcedReserved') = Cardinality(EnforcedReserved)
             + Bit(h \in EnforcedReserved') - Bit(h \in EnforcedReserved)
    BY Zenon, <2>1, <2>2, CardMove
  <2> QED
    BY Zenon, <2>3, <2>4 DEF Bit
<1>3. ASSUME NEW i \in Insts
      PROVE  /\ Cardinality(PollersAt(i)) \in Nat /\ Cardinality(PollersAt(i)') \in Nat
             /\ Cardinality(PollersAt(i)') =
                  Cardinality(PollersAt(i)) + Bit(f.pc \in Connected /\ f.inst = i)
                    - Bit(handler[h].pc \in Connected /\ handler[h].inst = i)
  <2>1. IsFiniteSet(PollersAt(i))
    BY Zenon, CardSubset DEF PollersAt
  <2>2. PollersAt(i) \ {h} = PollersAt(i)' \ {h}
    BY Zenon DEF PollersAt
  <2>3. /\ h \in PollersAt(i) <=> handler[h].pc \in Connected /\ handler[h].inst = i
        /\ h \in PollersAt(i)' <=> f.pc \in Connected /\ f.inst = i
    BY Zenon DEF PollersAt
  <2> HIDE DEF HandlerTo
  <2>4. /\ Cardinality(PollersAt(i)) \in Nat /\ Cardinality(PollersAt(i)') \in Nat
        /\ Cardinality(PollersAt(i)') =
             Cardinality(PollersAt(i)) + Bit(h \in PollersAt(i)') - Bit(h \in PollersAt(i))
    BY Zenon, <2>1, <2>2, CardMove
  <2> QED
    BY Zenon, <2>3, <2>4 DEF Bit
<1> HIDE DEF HandlerTo
<1> QED
  BY Zenon, <1>1, <1>2, <1>3

-----------------------------------------------------------------------------
(* Steps that move one handler and touch no job *)

\* A handler moves to locals f; f is sound, holds a guard iff the handler did,
\* is a new reservation only below max_jobs, and job_count is kept in step.
MovesTo(h, f) ==
  /\ HandlerTo(h, f)
  /\ UNCHANGED <<jobs, job, runner, sweeper, delivered>>
  /\ store' \in SUBSET Ids /\ cleanup' \in Seq(Ids)
  /\ f.pc = "insert" /\ f.mode = "submit" => job_count < MaxJobs
  /\ f.pc \in Connected <=> handler[h].pc \in Connected
  /\ f.pc \in Connected => f.inst = handler[h].inst
  /\ Sound(f) /\ Waking(f)

CountMoves(h, f) ==
  job_count' = job_count + Bit(f.pc = "insert") + Bit(f.pc = "decrement")
                 - Bit(handler[h].pc = "insert") - Bit(handler[h].pc = "decrement")

\* Such a move preserves the invariant.
LEMMA HandlerFrame ==
  ASSUME IInv, NEW h \in Handlers, NEW f, MovesTo(h, f), CountMoves(h, f)
  PROVE  IInv'
<1>0. HandlerTo(h, f) /\ UNCHANGED <<jobs, job, runner, sweeper, delivered>>
  BY Zenon DEF MovesTo
<1>1. job_count \in Nat /\ job_count' \in Nat /\ CountExact'
  <2>1. /\ Cardinality(At("insert")) \in Nat /\ Cardinality(At("decrement")) \in Nat
        /\ Cardinality(At("insert")') \in Nat /\ Cardinality(At("decrement")') \in Nat
        /\ Cardinality(At("insert")') = Cardinality(At("insert"))
             + Bit(f.pc = "insert") - Bit(handler[h].pc = "insert")
        /\ Cardinality(At("decrement")') = Cardinality(At("decrement"))
             + Bit(f.pc = "decrement") - Bit(handler[h].pc = "decrement")
    BY <1>0, HandlerCounts, Pcs
  <2>2. Cardinality(InTable) \in Nat /\ InTable' = InTable
    BY Zenon, <1>0, CardSubset, TableAssumption DEF InTable
  <2>3. SweeperOwes \in {0, 1} /\ SweeperOwes' = SweeperOwes
    BY Zenon, <1>0 DEF SweeperOwes
  <2>4. job_count = Cardinality(InTable) + Cardinality(At("insert"))
                      + Cardinality(At("decrement")) + SweeperOwes
    BY Zenon DEF IInv, CountExact
  <2>5. job_count' = Cardinality(InTable) + Cardinality(At("insert")')
                       + Cardinality(At("decrement")') + SweeperOwes
    BY <2>1, <2>2, <2>3, <2>4 DEF Bit, CountMoves
  <2> QED
    BY SMTT(60), <2>1, <2>2, <2>3, <2>4, <2>5 DEF CountExact
<1>2. TypeOK'
  BY Zenon, <1>0, <1>1 DEF IInv, TypeOK, HandlerTo, HandlerOK, MovesTo
<1>3. EnforcedWithinMax'
  <2>1. /\ Cardinality(EnforcedReserved) \in Nat /\ Cardinality(EnforcedReserved') \in Nat
        /\ Cardinality(EnforcedReserved') = Cardinality(EnforcedReserved)
             + Bit(f.pc = "insert" /\ f.mode = "submit")
             - Bit(handler[h].pc = "insert" /\ handler[h].mode = "submit")
    BY <1>0, HandlerCounts
  <2>2. EnforcedInTable' = EnforcedInTable
    BY Zenon, <1>0 DEF EnforcedInTable, InTable
  <2>3. /\ Cardinality(EnforcedInTable) \in Nat /\ Cardinality(InTable) \in Nat
        /\ Cardinality(EnforcedInTable) <= Cardinality(InTable)
    BY Zenon, CardSubset, TableAssumption DEF EnforcedInTable, InTable
  <2>4. /\ Cardinality(At("insert")) \in Nat /\ Cardinality(At("decrement")) \in Nat
        /\ Cardinality(EnforcedReserved) <= Cardinality(At("insert"))
    BY Zenon, CardSubset, TableAssumption DEF EnforcedReserved, At
  <2>5. CASE f.pc = "insert" /\ f.mode = "submit"
    <3>1. Cardinality(InTable) + Cardinality(At("insert")) <= job_count
      BY <2>3, <2>4 DEF IInv, CountExact, SweeperOwes
    <3>2. job_count < MaxJobs /\ MaxJobs \in Nat
      BY Zenon, <2>5, TableAssumption DEF MovesTo
    <3>3. Cardinality(EnforcedInTable) + Cardinality(EnforcedReserved) < MaxJobs
      BY SMTT(60), <1>1, <2>1, <2>3, <2>4, <3>1, <3>2
    <3> QED
      BY <2>1, <2>2, <2>3, <3>2, <3>3 DEF EnforcedWithinMax, Bit
  <2>6. CASE ~(f.pc = "insert" /\ f.mode = "submit")
    <3>1. Cardinality(EnforcedInTable) + Cardinality(EnforcedReserved) <= MaxJobs /\ MaxJobs \in Nat
      BY Zenon, TableAssumption DEF IInv, EnforcedWithinMax
    <3> QED
      BY <2>1, <2>2, <2>3, <2>6, <3>1 DEF EnforcedWithinMax, Bit
  <2> QED
    BY Zenon, <2>5, <2>6
<1>4. PollersExact'
  <2> SUFFICES ASSUME NEW i \in Insts PROVE job'[i].pollers = Cardinality(PollersAt(i)')
    BY Zenon DEF PollersExact
  <2>1. job'[i].pollers = Cardinality(PollersAt(i))
    BY Zenon, <1>0 DEF IInv, PollersExact
  <2>2. /\ Cardinality(PollersAt(i)) \in Nat
        /\ Cardinality(PollersAt(i)') =
             Cardinality(PollersAt(i)) + Bit(f.pc \in Connected /\ f.inst = i)
               - Bit(handler[h].pc \in Connected /\ handler[h].inst = i)
    BY ZenonT(100), <1>0, HandlerCounts
  <2>3. f.pc \in Connected /\ f.inst = i <=> handler[h].pc \in Connected /\ handler[h].inst = i
    BY Zenon DEF MovesTo
  <2> QED
    BY <2>1, <2>2, <2>3 DEF Bit
<1>5. TableBorn' /\ SlotEmptyBefore' /\ ResultConserved'
  BY Zenon, <1>0 DEF IInv, TableBorn, SlotEmptyBefore, ResultConserved
<1>6. HandlerSound'
  BY ZenonT(60), <1>0 DEF IInv, HandlerSound, Sound, HandlerTo, MovesTo
<1>7. NoLostWakeup'
  BY <1>0, Zenon DEF IInv, NoLostWakeup, Waking, HandlerTo, MovesTo
<1> QED
  BY Zenon, <1>1, <1>2, <1>3, <1>4, <1>5, <1>6, <1>7 DEF IInv

-----------------------------------------------------------------------------
(* The actions of a handler that touch no job *)

\* Goto within one side of the ConnectedGuard, to a place that needs nothing new.
LEMMA GotoMoves ==
  ASSUME IInv, NEW h \in Handlers, NEW p \in HandlerPc, Goto(h, p),
         UNCHANGED <<jobs, job, runner, sweeper, delivered>>,
         store' \in SUBSET Ids, cleanup' \in Seq(Ids),
         p \notin {"take", "wait", "bypass", "connect"},
         p = "insert" => handler[h].mode # "submit",
         p \in Connected <=> handler[h].pc \in Connected
  PROVE  MovesTo(h, After(h, p))
<1>1. HandlerTo(h, After(h, p))
  BY GotoEffect, Zenon DEF IInv, TypeOK, HandlerOK
<1>2. Sound(After(h, p)) /\ Waking(After(h, p))
  BY Zenon DEF IInv, HandlerSound, Sound, Waking, After, Locals, Holding
<1> QED
  BY Zenon, <1>1, <1>2 DEF MovesTo, After, Locals

\* Return from a place without a ConnectedGuard.
LEMMA ReturnMoves ==
  ASSUME IInv, NEW h \in Handlers, Return(h),
         UNCHANGED <<jobs, job, runner, sweeper, store, cleanup, delivered>>,
         handler[h].pc \notin Connected
  PROVE  MovesTo(h, Idle)
<1>1. HandlerTo(h, Idle)
  BY Zenon, ReturnEffect DEF IInv, TypeOK, HandlerOK
<1>2. Sound(Idle) /\ Waking(Idle) /\ Idle.pc = "idle" /\ "idle" \notin Connected
  BY Zenon DEF Sound, Waking, Idle, Holding, Connected
<1>3. store' \in SUBSET Ids /\ cleanup' \in Seq(Ids)
  BY Zenon DEF IInv, TypeOK
<1> QED
  BY Zenon, <1>1, <1>2, <1>3 DEF MovesTo

\* Submit reserves one unit of job_count.
LEMMA SubmitStep == ASSUME IInv, NEW h \in Handlers, NEW id \in Ids, Submit(h, id) PROVE IInv'
<1> DEFINE f == Locals("insert", "submit", id, handler[h].inst, handler[h].wake)
<1>1. HandlerTo(h, f)
  BY RequestEffect, Pcs, Zenon DEF IInv, TypeOK, Submit, HandlerOK
<1>2. MovesTo(h, f)
  BY Zenon, <1>1 DEF MovesTo, Submit, Locals, IInv, TypeOK, Sound, Waking, Holding, Connected
<1>3. CountMoves(h, f)
  BY DEF CountMoves, Submit, Bit, Locals, IInv, TypeOK
<1> QED
  BY <1>2, <1>3, HandlerFrame, Zenon

\* StartPoll leaves job_count alone.
LEMMA StartPollStep == ASSUME IInv, NEW h \in Handlers, NEW id \in Ids, StartPoll(h, id) PROVE IInv'
<1> DEFINE f == Locals("lookup", "poll", id, handler[h].inst, handler[h].wake)
<1>1. HandlerTo(h, f)
  BY RequestEffect, Pcs, Zenon DEF IInv, TypeOK, StartPoll, HandlerOK
<1>2. MovesTo(h, f)
  BY Zenon, <1>1 DEF MovesTo, StartPoll, Locals, IInv, TypeOK, Sound, Waking, Holding, Connected
<1>3. CountMoves(h, f)
  BY DEF CountMoves, StartPoll, Bit, Locals, IInv, TypeOK
<1> QED
  BY <1>2, <1>3, HandlerFrame, Zenon

\* BypassLimit reserves a unit for a recovered job, which is no submission.
LEMMA BypassLimitStep == ASSUME IInv, NEW h \in Handlers, BypassLimit(h) PROVE IInv'
<1>1. handler[h].mode = "repoll"
  BY Zenon DEF BypassLimit, IInv, HandlerSound, Sound
<1>2. MovesTo(h, After(h, "insert"))
  BY <1>1, GotoMoves, Pcs, Zenon DEF BypassLimit, IInv, TypeOK, Connected
<1>3. CountMoves(h, After(h, "insert"))
  BY DEF CountMoves, BypassLimit, Bit, After, Locals, IInv, TypeOK
<1> QED
  BY Zenon, <1>2, <1>3, HandlerFrame

\* RejectDuplicate gives the unit back.
LEMMA RejectDuplicateStep == ASSUME IInv, NEW h \in Handlers, RejectDuplicate(h) PROVE IInv'
<1>1. CASE Return(h)
  <2>1. MovesTo(h, Idle)
    BY Zenon, <1>1, ReturnMoves DEF RejectDuplicate, Connected
  <2>2. CountMoves(h, Idle)
    BY DEF CountMoves, RejectDuplicate, Bit, Idle, IInv, TypeOK
  <2> QED
    BY Zenon, <2>1, <2>2, HandlerFrame
<1>2. CASE Goto(h, "lookup")
  <2>1. MovesTo(h, After(h, "lookup"))
    BY <1>2, GotoMoves, Pcs, Zenon DEF RejectDuplicate, IInv, TypeOK, Connected
  <2>2. CountMoves(h, After(h, "lookup"))
    BY DEF CountMoves, RejectDuplicate, Bit, After, Locals, IInv, TypeOK
  <2> QED
    BY Zenon, <2>1, <2>2, HandlerFrame
<1> QED
  BY Zenon, <1>1, <1>2 DEF RejectDuplicate

\* Lookup finds a job whose task was spawned, or leaves.
LEMMA LookupStep == ASSUME IInv, NEW h \in Handlers, Lookup(h) PROVE IInv'
<1>1. CASE Return(h)
  <2>1. MovesTo(h, Idle)
    BY Zenon, <1>1, ReturnMoves DEF Lookup, Connected
  <2>2. CountMoves(h, Idle)
    BY DEF CountMoves, Lookup, Bit, Idle, IInv, TypeOK
  <2> QED
    BY Zenon, <2>1, <2>2, HandlerFrame
<1>2. CASE Goto(h, "claim")
  <2>1. MovesTo(h, After(h, "claim"))
    BY <1>2, GotoMoves, Pcs, Zenon DEF Lookup, IInv, TypeOK, Connected
  <2>2. CountMoves(h, After(h, "claim"))
    BY DEF CountMoves, Lookup, Bit, After, Locals, IInv, TypeOK
  <2> QED
    BY Zenon, <2>1, <2>2, HandlerFrame
<1>3. CASE /\ jobs[handler[h].id] # NoInst
           /\ handler' = [handler EXCEPT ![h].pc = "connect", ![h].inst = jobs[handler[h].id]]
  <2> DEFINE j == jobs[handler[h].id]
             f == Locals("connect", handler[h].mode, handler[h].id, j, handler[h].wake)
  <2>1. HandlerOK /\ handler[h].id \in Ids
    BY Zenon DEF IInv, TypeOK, HandlerOK, HandlerFields
  <2>2. j \in Insts /\ runner[j] # "unborn"
    BY Zenon, <1>3, <2>1 DEF IInv, TypeOK, TableBorn
  <2>3. HandlerTo(h, f)
    BY <1>3, <2>1, <2>2, FindEffect, Pcs, Zenon
  <2>4. MovesTo(h, f)
    BY Zenon, <2>2, <2>3 DEF MovesTo, Lookup, Locals, IInv, TypeOK, Sound, Waking, Holding, Connected
  <2>5. CountMoves(h, f)
    BY DEF CountMoves, Lookup, Bit, Locals, IInv, TypeOK
  <2> QED
    BY Zenon, <2>4, <2>5, HandlerFrame
<1> QED
  BY Zenon, <1>1, <1>2, <1>3 DEF Lookup

\* Wake re-arms in poll_submit, and in poll_local goes to the last inspection.
LEMMA WakeStep == ASSUME IInv, NEW h \in Handlers, Wake(h) PROVE IInv'
<1>1. CASE handler' = [handler EXCEPT ![h].pc = "take", ![h].wake = "armed"]
  <2> DEFINE f == Locals("take", handler[h].mode, handler[h].id, handler[h].inst, "armed")
  <2>1. HandlerTo(h, f)
    BY <1>1, ArmEffect, Pcs, Zenon DEF IInv, TypeOK, HandlerOK
  <2>2. Sound(f) /\ Waking(f)
    BY Zenon DEF IInv, HandlerSound, Sound, Waking, Wake, Locals, Holding, Connected
  <2>3. MovesTo(h, f)
    BY Zenon, <2>1, <2>2 DEF MovesTo, Wake, Locals, IInv, TypeOK, Connected
  <2>4. CountMoves(h, f)
    BY DEF CountMoves, Wake, Bit, Locals, IInv, TypeOK
  <2> QED
    BY Zenon, <2>3, <2>4, HandlerFrame
<1>2. CASE Goto(h, "retake")
  <2>1. MovesTo(h, After(h, "retake"))
    BY <1>2, GotoMoves, Pcs, Zenon DEF Wake, IInv, TypeOK, Connected
  <2>2. CountMoves(h, After(h, "retake"))
    BY DEF CountMoves, Wake, Bit, After, Locals, IInv, TypeOK
  <2> QED
    BY Zenon, <2>1, <2>2, HandlerFrame
<1> QED
  BY Zenon, <1>1, <1>2 DEF Wake, Goto

\* TimeOut leaves the wait.
LEMMA TimeOutStep == ASSUME IInv, NEW h \in Handlers, TimeOut(h) PROVE IInv'
<1>1. MovesTo(h, After(h, "disconnect"))
  BY GotoMoves, Pcs, Zenon DEF TimeOut, IInv, TypeOK, Connected
<1>2. CountMoves(h, After(h, "disconnect"))
  BY DEF CountMoves, TimeOut, Bit, After, Locals, IInv, TypeOK
<1> QED
  BY Zenon, <1>1, <1>2, HandlerFrame

\* Decrement takes the unit that its removal left; the counter is not zero then.
LEMMA DecrementStep == ASSUME IInv, NEW h \in Handlers, Decrement(h) PROVE IInv'
<1>1. MovesTo(h, After(h, "cleanup"))
  BY GotoMoves, Pcs, Zenon DEF Decrement, IInv, TypeOK, Connected
<1>2. job_count \in Nat /\ job_count > 0
  <2>1. HandlerTo(h, After(h, "cleanup"))
    BY Zenon, <1>1 DEF MovesTo
  <2>2. /\ Cardinality(At("insert")) \in Nat /\ Cardinality(At("decrement")) \in Nat
        /\ Cardinality(At("decrement")') \in Nat
        /\ Cardinality(At("decrement")') = Cardinality(At("decrement"))
             + Bit(After(h, "cleanup").pc = "decrement") - Bit(handler[h].pc = "decrement")
    BY <2>1, HandlerCounts, Pcs
  <2>3. Cardinality(At("decrement")) > 0
    BY <2>2 DEF Bit, Decrement, After, Locals
  <2>4. Cardinality(InTable) \in Nat /\ SweeperOwes \in {0, 1}
    BY CardSubset, TableAssumption, Zenon DEF InTable, SweeperOwes
  <2> QED
    BY <2>2, <2>3, <2>4 DEF IInv, CountExact
<1>3. CountMoves(h, After(h, "cleanup"))
  BY SMTT(60), <1>2 DEF CountMoves, Decrement, Bit, After, Locals
<1> QED
  BY Zenon, <1>1, <1>3, HandlerFrame

\* ScheduleCleanup sends the id of its job.
LEMMA ScheduleCleanupStep == ASSUME IInv, NEW h \in Handlers, ScheduleCleanup(h) PROVE IInv'
<1>1. store' \in SUBSET Ids /\ cleanup' \in Seq(Ids)
  <2>1. handler[h].id \in Ids /\ cleanup \in Seq(Ids) /\ store \in SUBSET Ids
    BY Zenon DEF IInv, TypeOK, HandlerFields
  <2> QED
    BY <2>1 DEF ScheduleCleanup
<1>2. MovesTo(h, After(h, "disconnect"))
  BY Zenon, <1>1, GotoMoves, Pcs DEF ScheduleCleanup, Connected
<1>3. CountMoves(h, After(h, "disconnect"))
  BY DEF CountMoves, ScheduleCleanup, Bit, After, Locals, IInv, TypeOK
<1> QED
  BY Zenon, <1>2, <1>3, HandlerFrame

\* Claim goes on to the recovery of a job in mode "repoll", or returns.
LEMMA ClaimStep == ASSUME IInv, NEW h \in Handlers, Claim(h) PROVE IInv'
<1>1. CASE handler' = [handler EXCEPT ![h].pc = "bypass", ![h].mode = "repoll"]
  <2> DEFINE f == Locals("bypass", "repoll", handler[h].id, handler[h].inst, handler[h].wake)
  <2>1. HandlerTo(h, f)
    BY <1>1, ModeEffect, Pcs, Zenon DEF IInv, TypeOK, HandlerOK
  <2>2. MovesTo(h, f)
    BY Zenon, <2>1 DEF MovesTo, Claim, Locals, IInv, TypeOK, Sound, Waking, Holding, Connected
  <2>3. CountMoves(h, f)
    BY DEF CountMoves, Claim, Bit, Locals, IInv, TypeOK
  <2> QED
    BY Zenon, <2>2, <2>3, HandlerFrame
<1>2. CASE Return(h)
  <2>1. MovesTo(h, Idle)
    BY Zenon, <1>2, ReturnMoves DEF Claim, Connected
  <2>2. CountMoves(h, Idle)
    BY DEF CountMoves, Claim, Bit, Idle, IInv, TypeOK
  <2> QED
    BY Zenon, <2>1, <2>2, HandlerFrame
<1> QED
  BY Zenon, <1>1, <1>2 DEF Claim

-----------------------------------------------------------------------------
(* Steps that move one handler and touch its job *)

\* The handler of instance i moves to f while the job's fields become g.
LEMMA HandlerJobFrame ==
  ASSUME IInv, NEW h \in Handlers, NEW f, NEW i \in Insts, NEW g,
         HandlerTo(h, f), JobTo(i, g), Sound(f),
         UNCHANGED <<jobs, job_count, runner, sweeper, store, cleanup>>,
         delivered' \in [Insts -> Nat],
         handler[h].inst = i, f.pc \in Connected => f.inst = i,
         f.pc \notin {"insert", "decrement"}, handler[h].pc \notin {"insert", "decrement"},
         g.enforced = job[i].enforced,
         g.pollers = job[i].pollers + Bit(f.pc \in Connected) - Bit(handler[h].pc \in Connected)
  PROVE  TypeOK' /\ CountExact' /\ EnforcedWithinMax' /\ PollersExact' /\ TableBorn' /\ HandlerSound'
<1>1. TypeOK'
  BY Zenon DEF IInv, TypeOK, HandlerTo, HandlerOK, JobTo, JobOK
<1>2. CountExact'
  <2>1. At("insert")' = At("insert") /\ At("decrement")' = At("decrement")
    BY Zenon DEF At, HandlerTo
  <2>2. InTable' = InTable /\ SweeperOwes' = SweeperOwes
    BY Zenon DEF InTable, SweeperOwes
  <2> QED
    BY <2>1, <2>2, Zenon DEF IInv, CountExact
<1>3. EnforcedWithinMax'
  <2>1. EnforcedReserved' = EnforcedReserved
    BY Zenon DEF EnforcedReserved, At, HandlerTo
  <2>2. EnforcedInTable' = EnforcedInTable
    BY Zenon DEF EnforcedInTable, InTable, JobTo, IInv, TypeOK
  <2> QED
    BY Zenon, <2>1, <2>2 DEF IInv, EnforcedWithinMax
<1>4. PollersExact'
  <2> SUFFICES ASSUME NEW k \in Insts PROVE job'[k].pollers = Cardinality(PollersAt(k)')
    BY Zenon DEF PollersExact
  <2>1. job[k].pollers = Cardinality(PollersAt(k))
    BY Zenon DEF IInv, PollersExact
  <2>2. /\ Cardinality(PollersAt(k)) \in Nat
        /\ Cardinality(PollersAt(k)') =
             Cardinality(PollersAt(k)) + Bit(f.pc \in Connected /\ f.inst = k)
               - Bit(handler[h].pc \in Connected /\ handler[h].inst = k)
    BY HandlerCounts
  <2>3. CASE k = i
    BY Zenon, <2>1, <2>2, <2>3 DEF Bit, JobTo
  <2>4. CASE k # i
    BY <2>1, <2>2, <2>4 DEF Bit, JobTo
  <2> QED
    BY Zenon, <2>3, <2>4
<1>5. TableBorn'
  BY Zenon DEF IInv, TableBorn
<1>6. HandlerSound'
  BY ZenonT(100) DEF IInv, HandlerSound, Sound, HandlerTo
<1> QED
  BY <1>1, <1>2, <1>3, <1>4, <1>5, <1>6, Zenon

Fields(d, e, r, q, s, n, t) ==
  [id |-> d, enforced |-> e, result |-> r, persisted |-> q, status |-> s, pollers |-> n, grace |-> t]

\* A handler that holds a job holds one whose task was spawned.
LEMMA HeldInst ==
  ASSUME IInv, NEW h \in Handlers, handler[h].pc \in Holding
  PROVE  handler[h].inst \in Insts /\ runner[handler[h].inst] # "unborn" /\ HandlerOK /\ JobOK
  BY Zenon DEF IInv, HandlerSound, Sound, TypeOK, HandlerOK, JobOK

\* The new guard of Connect is counted in active_pollers.
LEMMA PollersUpEffect ==
  ASSUME JobOK, NEW i \in Insts, job' = [job EXCEPT ![i].pollers = @ + 1]
  PROVE  JobTo(i, Fields(job[i].id, job[i].enforced, job[i].result, job[i].persisted,
                         job[i].status, job[i].pollers + 1, job[i].grace))
  BY DEF JobOK, JobFields, JobTo, Fields

\* Inspect empties the result slot.
LEMMA TakenEffect ==
  ASSUME JobOK, NEW i \in Insts, job' = [job EXCEPT ![i].result = "none"]
  PROVE  JobTo(i, Fields(job[i].id, job[i].enforced, "none", job[i].persisted,
                         job[i].status, job[i].pollers, job[i].grace))
  BY DEF JobOK, JobFields, JobTo, Fields

\* The dropped guard of Disconnect renews the deadline and leaves the count.
LEMMA PollersDownEffect ==
  ASSUME JobOK, NEW i \in Insts, job[i].pollers > 0,
         job' = [job EXCEPT ![i].grace = TRUE, ![i].pollers = @ - 1]
  PROVE  JobTo(i, Fields(job[i].id, job[i].enforced, job[i].result, job[i].persisted,
                         job[i].status, job[i].pollers - 1, TRUE))
<1>1. job[i].pollers - 1 \in Nat
  BY DEF JobOK, JobFields
<1> QED
  BY <1>1 DEF JobOK, JobFields, JobTo, Fields

\* Connect arms the wait and counts the poller.
LEMMA ConnectStep == ASSUME IInv, NEW h \in Handlers, Connect(h) PROVE IInv'
<1> DEFINE i == handler[h].inst
           f == Locals("take", handler[h].mode, handler[h].id, i, "armed")
           g == Fields(job[i].id, job[i].enforced, job[i].result, job[i].persisted,
                       job[i].status, job[i].pollers + 1, job[i].grace)
<1>1. i \in Insts /\ runner[i] # "unborn" /\ HandlerOK /\ JobOK
  BY Zenon, HeldInst DEF Connect, Holding
<1>2. HandlerTo(h, f)
  BY <1>1, ArmEffect, Pcs, Zenon DEF Connect
<1>3. JobTo(i, g)
  BY <1>1, PollersUpEffect, Zenon DEF Connect
<1>4. Sound(f)
  BY <1>1, Zenon DEF Sound, Locals
<1>5. TypeOK' /\ CountExact' /\ EnforcedWithinMax' /\ PollersExact' /\ TableBorn' /\ HandlerSound'
  <2>1. /\ UNCHANGED <<jobs, job_count, runner, sweeper, store, cleanup>>
        /\ delivered' \in [Insts -> Nat]
        /\ handler[h].pc = "connect"
    BY Zenon DEF Connect, IInv, TypeOK
  <2>2. f.pc = "take" /\ f.inst = i /\ g.enforced = job[i].enforced /\ g.pollers = job[i].pollers + 1
    BY Zenon DEF Locals, Fields
  <2>3. job[i].pollers \in Nat
    BY <1>1, Zenon DEF JobOK, JobFields
  <2>4. g.pollers = job[i].pollers + Bit(f.pc \in Connected) - Bit(handler[h].pc \in Connected)
    <3>1. Bit(f.pc \in Connected) = 1 /\ g.pollers = job[i].pollers + 1
      BY Zenon, <2>2 DEF Bit, Connected
    <3>2. Bit(handler[h].pc \in Connected) = 0
      BY <2>1, ZenonT(100) DEF Bit, Connected
    <3> HIDE DEF f, g
    <3> QED
      BY <2>3, <3>1, <3>2
  <2> HIDE DEF f, g
  <2> QED
    BY ZenonT(60), <1>1, <1>2, <1>3, <1>4, <2>1, <2>2, <2>4, HandlerJobFrame
<1>6. SlotEmptyBefore' /\ ResultConserved'
  BY <1>3 DEF IInv, SlotEmptyBefore, ResultConserved, JobTo, Fields, Connect
<1>7. NoLostWakeup'
  <2>1. \A k \in Insts : job'[k].result = job[k].result
    BY <1>3 DEF JobTo, Fields
  <2>2. \A k \in Handlers : handler'[k].pc = "wait" => k # h /\ handler'[k] = handler[k] /\ handler[k].inst \in Insts
    BY <1>2 DEF HandlerTo, Locals, IInv, HandlerSound, Sound, Holding, Connected
  <2> QED
    BY <2>1, <2>2, ZenonT(100) DEF IInv, NoLostWakeup, Connect
<1> QED
  BY Zenon, <1>5, <1>6, <1>7 DEF IInv

\* Inspect takes a published result once, and waits only on an empty slot.
LEMMA InspectStep == ASSUME IInv, NEW h \in Handlers, Inspect(h) PROVE IInv'
<1> DEFINE i == handler[h].inst
<1>1. i \in Insts /\ runner[i] # "unborn" /\ HandlerOK /\ JobOK
  BY Zenon, HeldInst DEF Inspect, Holding, Connected
<1>2. handler[h].pc \in {"take", "retake"}
  BY Zenon DEF Inspect
<1>3. CASE Takes(h)
  <2> DEFINE f == After(h, "remove")
             g == Fields(job[i].id, job[i].enforced, "none", job[i].persisted,
                         job[i].status, job[i].pollers, job[i].grace)
  <2>0. /\ Goto(h, "remove")
        /\ job' = [job EXCEPT ![i].result = "none"]
        /\ delivered' = [delivered EXCEPT ![i] = @ + 1]
        /\ UNCHANGED <<jobs, job_count, runner, sweeper, store, cleanup>>
    BY Zenon, <1>3 DEF Inspect
  <2>1. HandlerTo(h, f)
    BY Zenon, <1>1, <2>0, GotoEffect, Pcs
  <2>2. JobTo(i, g)
    BY <1>1, <2>0, TakenEffect, Zenon
  <2>3. Sound(f)
    BY <1>1, Zenon DEF Sound, After, Locals
  <2>4. TypeOK' /\ CountExact' /\ EnforcedWithinMax' /\ PollersExact' /\ TableBorn' /\ HandlerSound'
    <3>1. delivered' \in [Insts -> Nat]
      BY <1>1, <2>0 DEF IInv, TypeOK
    <3>2. f.pc = "remove" /\ f.inst = i /\ g.enforced = job[i].enforced /\ g.pollers = job[i].pollers
      BY Zenon DEF After, Locals, Fields
    <3>3. job[i].pollers \in Nat
      BY Zenon, <1>1 DEF JobOK, JobFields
    <3> HIDE DEF f, g
    <3>4. g.pollers = job[i].pollers + Bit(f.pc \in Connected) - Bit(handler[h].pc \in Connected)
      BY <1>2, <3>2, <3>3 DEF Bit, Connected
    <3> QED
      BY <1>1, <1>2, <2>0, <2>1, <2>2, <2>3, <3>1, <3>2, <3>4, HandlerJobFrame, Zenon
  <2>5. job[i].result # "none" /\ runner[i] \in Published /\ delivered[i] = 0
    BY <1>1, <1>3, ZenonT(100) DEF Takes, IInv, SlotEmptyBefore, ResultConserved, Published
  <2>6. SlotEmptyBefore' /\ ResultConserved'
    BY SMTT(60), <1>1, <2>0, <2>2, <2>5
       DEF IInv, TypeOK, SlotEmptyBefore, ResultConserved, JobTo, Fields, Published
  <2>7. NoLostWakeup'
    <3>1. \A k \in Insts : job'[k].result # "none" => job[k].result # "none"
      BY <2>2 DEF JobTo, Fields
    <3>2. \A k \in Handlers : handler'[k].pc = "wait" =>
            k # h /\ handler'[k] = handler[k] /\ handler[k].inst \in Insts
      BY <2>1 DEF HandlerTo, After, Locals, IInv, HandlerSound, Sound, Holding, Connected
    <3> QED
      BY <2>0, <3>1, <3>2, ZenonT(100) DEF IInv, NoLostWakeup
  <2> QED
    BY Zenon, <2>4, <2>6, <2>7 DEF IInv
<1>4. CASE ~Takes(h)
  <2>0. UNCHANGED <<jobs, job, job_count, runner, sweeper, store, cleanup, delivered>>
    BY <1>4, Zenon DEF Inspect
  <2>1. CASE Goto(h, "disconnect")
    <3>1. MovesTo(h, After(h, "disconnect"))
      BY <1>2, <2>0, <2>1, GotoMoves, Pcs, ZenonT(100) DEF IInv, TypeOK, Connected
    <3>2. CountMoves(h, After(h, "disconnect"))
      BY <1>2, <2>0 DEF CountMoves, Bit, After, Locals, IInv, TypeOK
    <3> QED
      BY Zenon, <3>1, <3>2, HandlerFrame
  <2>2. CASE Goto(h, "wait") /\ handler[h].pc = "take" /\ ~(handler[h].mode = "submit" /\ Leaves(i))
    <3>1. HandlerTo(h, After(h, "wait"))
      BY <1>1, <2>2, GotoEffect, Pcs, Zenon
    <3>2. job[i].result \in {"none", "ok", "fail"}
      BY Zenon, <1>1 DEF JobOK, JobFields
    <3>3. job[i].result = "none"
      BY <1>4, <2>2, <3>2, Zenon DEF Takes, Leaves
    <3>4. Sound(After(h, "wait")) /\ Waking(After(h, "wait"))
      BY <1>1, <2>2, <3>3, Zenon DEF IInv, HandlerSound, Sound, Waking, After, Locals, Holding, Connected
    <3>5. MovesTo(h, After(h, "wait"))
      BY <1>2, <2>0, <3>1, <3>4, ZenonT(100) DEF MovesTo, After, Locals, IInv, TypeOK, Connected
    <3>6. CountMoves(h, After(h, "wait"))
      BY <1>2, <2>0 DEF CountMoves, Bit, After, Locals, IInv, TypeOK
    <3> QED
      BY Zenon, <3>5, <3>6, HandlerFrame
  <2> QED
    BY Zenon, <1>2, <1>4, <2>1, <2>2 DEF Inspect
<1> QED
  BY Zenon, <1>3, <1>4

\* Disconnect drops a guard that was counted.
LEMMA DisconnectStep == ASSUME IInv, NEW h \in Handlers, Disconnect(h) PROVE IInv'
<1>0. PICK i \in Insts : i = handler[h].inst
  BY Zenon, HeldInst DEF Disconnect, Holding, Connected
<1> DEFINE g == Fields(job[i].id, job[i].enforced, job[i].result, job[i].persisted,
                       job[i].status, job[i].pollers - 1, TRUE)
<1>1. runner[i] # "unborn" /\ HandlerOK /\ JobOK
  BY Zenon, <1>0, HeldInst DEF Disconnect, Holding, Connected
<1>2. HandlerTo(h, Idle)
  BY <1>1, ReturnEffect, Zenon DEF Disconnect
<1>3. job[i].pollers > 0 /\ job[i].pollers \in Nat
  <2>1. /\ Cardinality(PollersAt(i)) \in Nat /\ Cardinality(PollersAt(i)') \in Nat
        /\ Cardinality(PollersAt(i)') =
             Cardinality(PollersAt(i)) + Bit(Idle.pc \in Connected /\ Idle.inst = i)
               - Bit(handler[h].pc \in Connected /\ handler[h].inst = i)
    BY SMTT(60), <1>1, <1>2, HandlerCounts
  <2>2. Cardinality(PollersAt(i)) > 0
    BY <1>0, <2>1 DEF Bit, Idle, Connected, Disconnect
  <2> QED
    BY <1>1, <2>1, <2>2, ZenonT(100) DEF IInv, PollersExact
<1>4. JobTo(i, g)
  BY <1>0, <1>1, <1>3, PollersDownEffect, Zenon DEF Disconnect
<1>5. TypeOK' /\ CountExact' /\ EnforcedWithinMax' /\ PollersExact' /\ TableBorn' /\ HandlerSound'
  <2>1. /\ UNCHANGED <<jobs, job_count, runner, sweeper, store, cleanup>>
        /\ delivered' \in [Insts -> Nat]
        /\ handler[h].pc = "disconnect"
    BY Zenon DEF Disconnect, IInv, TypeOK
  <2>2. /\ Idle.pc = "idle" /\ Sound(Idle)
        /\ g.enforced = job[i].enforced /\ g.pollers = job[i].pollers - 1
    BY Zenon DEF Idle, Fields, Sound, Holding, Connected
  <2>3. Idle.pc \notin Connected /\ handler[h].pc \in Connected
    BY Zenon, <2>1, <2>2 DEF Connected
  <2> HIDE DEF g
  <2>4. g.pollers = job[i].pollers + Bit(Idle.pc \in Connected) - Bit(handler[h].pc \in Connected)
    BY <1>3, <2>2, <2>3 DEF Bit
  <2> QED
    BY ZenonT(100), <1>0, <1>1, <1>2, <1>4, <2>1, <2>2, <2>3, <2>4, HandlerJobFrame
<1>6. SlotEmptyBefore' /\ ResultConserved'
  <2>1. \A k \in Insts : job'[k].result = job[k].result
    BY SMTT(60), <1>4 DEF JobTo, Fields
  <2> QED
    BY <2>1, Zenon DEF IInv, SlotEmptyBefore, ResultConserved, Disconnect
<1>7. NoLostWakeup'
  <2>1. \A k \in Insts : job'[k].result = job[k].result
    BY <1>4 DEF JobTo, Fields
  <2>2. \A k \in Handlers : handler'[k].pc = "wait" =>
          k # h /\ handler'[k] = handler[k] /\ handler[k].inst \in Insts
    BY <1>2 DEF HandlerTo, Idle, IInv, HandlerSound, Sound, Holding, Connected
  <2> QED
    BY SMTT(60), <2>1, <2>2 DEF IInv, NoLostWakeup, Disconnect
<1> QED
  BY Zenon, <1>5, <1>6, <1>7 DEF IInv

-----------------------------------------------------------------------------
(* Steps of the job tasks and of the maintenance threads *)

\* A step that leaves the table, the counts and the control of handlers alone.
Quiet ==
  /\ UNCHANGED <<jobs, job_count, delivered>>
  /\ sweeper' \in SweeperFields /\ SweeperOwes' = SweeperOwes
  /\ store' \in SUBSET Ids /\ cleanup' \in Seq(Ids)
  /\ runner' \in [Insts -> RunnerPc]
  /\ \A i \in Insts : runner'[i] = "unborn" <=> runner[i] = "unborn"
  /\ JobOK'
  /\ \A i \in Insts : job'[i].enforced = job[i].enforced /\ job'[i].pollers = job[i].pollers
  /\ HandlerOK'
  /\ \A h \in Handlers :
       /\ handler'[h].pc = handler[h].pc /\ handler'[h].mode = handler[h].mode
       /\ handler'[h].inst = handler[h].inst
       /\ handler'[h].wake = "unarmed" <=> handler[h].wake = "unarmed"

\* A quiet step preserves what the invariant says of the table and the handlers.
LEMMA QuietFrame ==
  ASSUME IInv, Quiet
  PROVE  TypeOK' /\ CountExact' /\ EnforcedWithinMax' /\ PollersExact' /\ TableBorn' /\ HandlerSound'
<1>1. TypeOK'
  BY Zenon DEF Quiet, IInv, TypeOK, HandlerOK, JobOK
<1>2. /\ At("insert")' = At("insert") /\ At("decrement")' = At("decrement")
      /\ EnforcedReserved' = EnforcedReserved /\ InTable' = InTable
  BY DEF Quiet, At, EnforcedReserved, InTable
<1>3. CountExact'
  BY Zenon, <1>2 DEF Quiet, IInv, CountExact
<1>4. EnforcedWithinMax'
  <2>1. EnforcedInTable' = EnforcedInTable
    BY ZenonT(100) DEF Quiet, EnforcedInTable, InTable, IInv, TypeOK
  <2> QED
    BY <1>2, <2>1, Zenon DEF IInv, EnforcedWithinMax
<1>5. PollersExact'
  <2> SUFFICES ASSUME NEW i \in Insts PROVE job'[i].pollers = Cardinality(PollersAt(i)')
    BY Zenon DEF PollersExact
  <2>1. PollersAt(i)' = PollersAt(i)
    BY ZenonT(100) DEF Quiet, PollersAt
  <2> QED
    BY Zenon, <2>1 DEF Quiet, IInv, PollersExact
<1>6. TableBorn'
  BY Zenon DEF Quiet, IInv, TableBorn, TypeOK
<1>7. HandlerSound'
  <2> SUFFICES ASSUME NEW h \in Handlers PROVE Sound(handler[h])'
    BY Zenon DEF HandlerSound
  <2>1. Sound(handler[h])
    BY Zenon DEF IInv, HandlerSound
  <2> QED
    BY Zenon, <2>1 DEF Quiet, Sound
<1> QED
  BY <1>1, <1>3, <1>4, <1>5, <1>6, <1>7, Zenon

\* A quiet step that touches no result, no wait and no task preserves the rest.
LEMMA QuietStep ==
  ASSUME IInv, Quiet, UNCHANGED runner,
         \A i \in Insts : job'[i].result = job[i].result,
         \A h \in Handlers : handler[h].wake = "woken" => handler'[h].wake = "woken"
  PROVE  IInv'
<1>1. SlotEmptyBefore' /\ ResultConserved'
  BY DEF Quiet, IInv, SlotEmptyBefore, ResultConserved
<1>2. NoLostWakeup'
  <2> SUFFICES ASSUME NEW h \in Handlers, handler'[h].pc = "wait",
                      job'[handler'[h].inst].result # "none"
               PROVE  handler'[h].wake = "woken" \/ runner'[handler'[h].inst] = "notify"
    BY Zenon DEF NoLostWakeup
  <2>1. handler[h].pc = "wait" /\ handler'[h].inst = handler[h].inst
    BY Zenon DEF Quiet
  <2>2. handler[h].inst \in Insts
    BY Zenon, <2>1, HeldInst DEF Holding, Connected
  <2> QED
    BY Zenon, <2>1, <2>2 DEF IInv, NoLostWakeup
<1> QED
  BY <1>1, <1>2, QuietFrame, Zenon DEF IInv

\* What TypeOK gives a step that changes few of the variables.
LEMMA Shapes ==
  ASSUME IInv
  PROVE  /\ HandlerOK /\ JobOK /\ sweeper \in SweeperFields
         /\ store \in SUBSET Ids /\ cleanup \in Seq(Ids) /\ runner \in [Insts -> RunnerPc]
  BY Zenon DEF IInv, TypeOK, HandlerOK, JobOK

\* A worker's claim of the job changes its status only.
LEMMA MarkProcessingStep == ASSUME IInv, NEW i \in Insts, MarkProcessing(i) PROVE IInv'
<1>1. JobTo(i, Fields(job[i].id, job[i].enforced, job[i].result, job[i].persisted,
                      "claimed", job[i].pollers, job[i].grace))
  BY Shapes DEF MarkProcessing, JobOK, JobFields, JobTo, Fields
<1>2. Quiet /\ \A k \in Insts : job'[k].result = job[k].result
  BY <1>1, Shapes DEF MarkProcessing, Quiet, JobTo, Fields, HandlerOK, SweeperOwes
<1> QED
  BY Zenon, <1>2, QuietStep DEF MarkProcessing

\* The status notification wakes armed waits and disarms none.
LEMMA NotifyProcessingStep == ASSUME IInv, NEW i \in Insts, NotifyProcessing(i) PROVE IInv'
<1>1. JobTo(i, Fields(job[i].id, job[i].enforced, job[i].result, job[i].persisted,
                      "processing", job[i].pollers, job[i].grace))
  BY SMTT(60), Shapes DEF NotifyProcessing, JobOK, JobFields, JobTo, Fields
<1>2. /\ HandlerOK'
      /\ \A h \in Handlers :
           /\ handler'[h].pc = handler[h].pc /\ handler'[h].mode = handler[h].mode
           /\ handler'[h].inst = handler[h].inst
           /\ handler'[h].wake = IF handler[h].inst = i /\ handler[h].wake = "armed"
                                 THEN "woken" ELSE handler[h].wake
  BY WokenEffect, Shapes, Zenon DEF NotifyProcessing
<1>3. \A k \in Insts : /\ job'[k].result = job[k].result /\ job'[k].enforced = job[k].enforced
                       /\ job'[k].pollers = job[k].pollers
  BY <1>1 DEF JobTo, Fields
<1>4. JobOK'
  BY Zenon, <1>1 DEF JobTo
<1>5. Quiet
  BY <1>2, <1>3, <1>4, Shapes, Zenon DEF NotifyProcessing, Quiet, SweeperOwes
<1> QED
  BY Zenon, <1>2, <1>3, <1>5, QuietStep DEF NotifyProcessing

\* A task before its publication keeps its slot empty; others are not concerned.
LEMMA TaskMoves ==
  ASSUME IInv, Quiet, NEW i \in Insts, NEW p \in RunnerPc,
         runner' = [runner EXCEPT ![i] = p], runner[i] \notin Published, p \notin Published,
         UNCHANGED handler, \A k \in Insts : job'[k].result = job[k].result
  PROVE  IInv'
<1>0. runner \in [Insts -> RunnerPc] /\ UNCHANGED delivered
  BY Zenon, Shapes DEF Quiet
<1>1. \A k \in Insts : runner'[k] \in Published <=> runner[k] \in Published
  BY Zenon, <1>0
<1>2. \A k \in Insts : runner[k] = "notify" => runner'[k] = "notify"
  BY Zenon, <1>0 DEF Published
<1>3. SlotEmptyBefore' /\ ResultConserved'
  BY <1>0, <1>1 DEF IInv, SlotEmptyBefore, ResultConserved, Published
<1>4. NoLostWakeup'
  <2>1. \A h \in Handlers : handler[h].pc = "wait" => handler[h].inst \in Insts
    BY Zenon, HeldInst DEF Holding, Connected
  <2> QED
    BY Zenon, <1>2, <2>1 DEF IInv, NoLostWakeup
<1> QED
  BY <1>3, <1>4, QuietFrame, Zenon DEF IInv

\* The persistence timer moves a task that has not published.
LEMMA PersistTimerStep == ASSUME IInv, NEW i \in Insts, PersistTimer(i) PROVE IInv'
<1>1. PICK p \in {"late", "upsert"} : runner' = [runner EXCEPT ![i] = p]
  BY Zenon DEF PersistTimer
<1>2. p \in RunnerPc /\ p # "unborn" /\ p \notin Published /\ runner[i] \notin Published
  BY Zenon, <1>1 DEF PersistTimer, RunnerPc, Published
<1>3. Quiet
  BY ZenonT(100), <1>1, <1>2, Shapes DEF PersistTimer, Quiet, JobOK, HandlerOK, SweeperOwes
<1> QED
  BY <1>1, <1>2, <1>3, TaskMoves, Zenon DEF PersistTimer

\* The durable write sets the persisted flag at most.
LEMMA UpsertStep == ASSUME IInv, NEW i \in Insts, Upsert(i) PROVE IInv'
<1>1. PICK q \in BOOLEAN :
        JobTo(i, Fields(job[i].id, job[i].enforced, job[i].result, q,
                        job[i].status, job[i].pollers, job[i].grace))
  <2>1. CASE job' = [job EXCEPT ![i].persisted = TRUE]
    BY <2>1, Shapes, ZenonT(100) DEF JobOK, JobFields, JobTo, Fields
  <2>2. CASE UNCHANGED job
    BY Zenon, <2>2, Shapes DEF JobOK, JobFields, JobTo, Fields
  <2> QED
    BY Zenon, <2>1, <2>2 DEF Upsert
<1>2. JobOK' /\ \A k \in Insts : /\ job'[k].result = job[k].result
                                 /\ job'[k].enforced = job[k].enforced
                                 /\ job'[k].pollers = job[k].pollers
  BY <1>1 DEF JobTo, Fields
<1>3. store' \in SUBSET Ids
  <2>1. job[i].id \in Ids
    BY Zenon, Shapes DEF JobOK, JobFields
  <2> QED
    BY Zenon, <2>1, Shapes DEF Upsert
<1>4. /\ runner' = [runner EXCEPT ![i] = "late"] /\ "late" \in RunnerPc
      /\ "late" \notin Published /\ runner[i] \notin Published /\ runner[i] # "unborn"
  BY Zenon DEF Upsert, RunnerPc, Published
<1>5. Quiet
  BY Zenon, <1>2, <1>3, <1>4, Shapes DEF Upsert, Quiet, HandlerOK, SweeperOwes
<1> QED
  BY <1>2, <1>4, <1>5, TaskMoves, Zenon DEF Upsert

\* The task fills an empty slot, and owes the notification from then on.
LEMMA PublishStep == ASSUME IInv, NEW i \in Insts, NEW r \in {"ok", "fail"}, Publish(i, r) PROVE IInv'
<1>1. JobTo(i, Fields(job[i].id, job[i].enforced, r, job[i].persisted,
                      job[i].status, job[i].pollers, job[i].grace))
  BY Shapes DEF Publish, JobOK, JobFields, JobTo, Fields
<1>2. /\ JobOK' /\ job'[i].result # "none"
      /\ \A k \in Insts : /\ k # i => job'[k].result = job[k].result
                          /\ job'[k].enforced = job[k].enforced
                          /\ job'[k].pollers = job[k].pollers
  BY <1>1 DEF JobTo, Fields
<1>3. /\ runner' = [runner EXCEPT ![i] = "notify"] /\ "notify" \in RunnerPc
      /\ runner[i] # "unborn" /\ runner[i] \notin Published
  BY Zenon DEF Publish, RunnerPc, Published
<1>4. Quiet
  BY Zenon, <1>2, <1>3, Shapes DEF Publish, Quiet, HandlerOK, SweeperOwes
<1>5. delivered[i] = 0
  BY Zenon, <1>3 DEF IInv, SlotEmptyBefore
<1>6. SlotEmptyBefore' /\ ResultConserved'
  BY SMTT(60), <1>2, <1>3, <1>5, Shapes DEF Publish, IInv, SlotEmptyBefore, ResultConserved, Published
<1>7. NoLostWakeup'
  <2>1. \A h \in Handlers : handler[h].pc = "wait" => handler[h].inst \in Insts
    BY Zenon, HeldInst DEF Holding, Connected
  <2> QED
    BY SMTT(60), <1>2, <1>3, <2>1, Shapes DEF Publish, IInv, NoLostWakeup
<1> QED
  BY Zenon, <1>4, <1>6, <1>7, QuietFrame DEF IInv

\* The notification after the publication wakes every wait on the job.
LEMMA NotifyResultStep == ASSUME IInv, NEW i \in Insts, NotifyResult(i) PROVE IInv'
<1>1. /\ HandlerOK'
      /\ \A h \in Handlers :
           /\ handler'[h].pc = handler[h].pc /\ handler'[h].mode = handler[h].mode
           /\ handler'[h].inst = handler[h].inst
           /\ handler'[h].wake = IF handler[h].inst = i /\ handler[h].wake = "armed"
                                 THEN "woken" ELSE handler[h].wake
  BY Zenon, WokenEffect, Shapes DEF NotifyResult
<1>2. /\ runner' = [runner EXCEPT ![i] = "done"] /\ "done" \in RunnerPc /\ runner[i] = "notify"
  BY Zenon DEF NotifyResult, RunnerPc
<1>3. Quiet
  BY <1>1, <1>2, Shapes, Zenon DEF NotifyResult, Quiet, JobOK, SweeperOwes
<1>4. SlotEmptyBefore' /\ ResultConserved'
  BY <1>2, Shapes, Zenon DEF NotifyResult, IInv, SlotEmptyBefore, ResultConserved, Published
<1>5. NoLostWakeup'
  <2> SUFFICES ASSUME NEW h \in Handlers, handler[h].pc = "wait",
                      job[handler[h].inst].result # "none"
               PROVE  handler'[h].wake = "woken" \/ runner'[handler[h].inst] = "notify"
    BY <1>1, Zenon DEF NoLostWakeup, NotifyResult
  <2>1. handler[h].inst \in Insts /\ handler[h].wake # "unarmed"
    BY Zenon, HeldInst DEF Holding, Connected, IInv, HandlerSound, Sound
  <2>2. handler[h].wake \in {"armed", "woken"}
    <3>1. handler[h].wake \in {"unarmed", "armed", "woken"}
      BY Zenon, Shapes DEF HandlerOK, HandlerFields
    <3> QED
      BY Zenon, <2>1, <3>1
  <2>3. CASE handler[h].inst = i
    BY <1>1, <2>2, <2>3, Zenon
  <2>4. CASE handler[h].inst # i
    BY ZenonT(100), <1>1, <1>2, <2>1, <2>4, Shapes DEF IInv, NoLostWakeup
  <2> QED
    BY <2>3, <2>4, Zenon
<1> QED
  BY <1>3, <1>4, <1>5, QuietFrame, Zenon DEF IInv

\* Time changes the deadline only.
LEMMA GraceExpiresStep == ASSUME IInv, NEW i \in Insts, GraceExpires(i) PROVE IInv'
<1>1. JobTo(i, Fields(job[i].id, job[i].enforced, job[i].result, job[i].persisted,
                      job[i].status, job[i].pollers, FALSE))
  <2>1. JobOK /\ job' = [job EXCEPT ![i].grace = FALSE]
    BY Zenon, Shapes DEF GraceExpires
  <2> QED
    BY <2>1, ZenonT(100) DEF JobOK, JobFields, JobTo, Fields
<1>2. Quiet /\ \A k \in Insts : job'[k].result = job[k].result
  BY <1>1, Shapes DEF GraceExpires, Quiet, JobTo, Fields, HandlerOK, SweeperOwes
<1> QED
  BY Zenon, <1>2, QuietStep DEF GraceExpires

\* The sweeper's scan, its delete_job and the cleanup worker's.
LEMMA MaintenanceStep == ASSUME IInv, SweepScan \/ SweepDelete \/ CleanupDelete PROVE IInv'
<1>1. ASSUME NEW id PROVE AfterId(id) \in SweeperFields /\ AfterId(id).pc # "decrement"
  BY Zenon, Shapes DEF AfterId, SweeperFields
<1>2. \A id : DeleteRecord(id) => store' \in SUBSET Ids
  BY Zenon, Shapes DEF DeleteRecord
<1>3. CASE SweepScan
  <2>1. sweeper' \in SweeperFields /\ sweeper'.pc = "remove" /\ sweeper.pc = "sleep"
    BY <1>3, Shapes, Zenon DEF SweepScan, SweeperFields
  <2>2. Quiet
    BY <1>3, <2>1, Shapes, Zenon DEF SweepScan, Quiet, HandlerOK, JobOK, SweeperOwes
  <2> QED
    BY Zenon, <1>3, <2>2, QuietStep DEF SweepScan
<1>4. CASE SweepDelete
  <2>1. Quiet
    BY <1>1, <1>2, <1>4, Shapes, Zenon DEF SweepDelete, Quiet, HandlerOK, JobOK, SweeperOwes
  <2> QED
    BY <1>4, <2>1, QuietStep, Zenon DEF SweepDelete
<1>5. CASE CleanupDelete
  <2>1. cleanup' \in Seq(Ids) /\ store' \in SUBSET Ids
    BY SMTT(60), <1>2, <1>5, Shapes DEF CleanupDelete
  <2>2. Quiet
    BY <1>5, <2>1, Shapes, Zenon DEF CleanupDelete, Quiet, HandlerOK, JobOK, SweeperOwes
  <2> QED
    BY Zenon, <1>5, <2>2, QuietStep DEF CleanupDelete
<1> QED
  BY Zenon, <1>3, <1>4, <1>5

-----------------------------------------------------------------------------
(* Steps that change the table *)

TableTo(id, x) ==
  /\ jobs' \in [Ids -> Insts \cup {NoInst}]
  /\ jobs'[id] = x
  /\ \A k \in Ids : k # id => jobs'[k] = jobs[k]

\* One entry's change moves the counts of entries by one at most.
LEMMA TableCounts ==
  ASSUME NEW id \in Ids, NEW x, TableTo(id, x),
         \A k \in Ids : k # id /\ jobs[k] # NoInst => job'[jobs[k]].enforced = job[jobs[k]].enforced
  PROVE  /\ Cardinality(InTable) \in Nat /\ Cardinality(InTable') \in Nat
         /\ Cardinality(InTable') = Cardinality(InTable) + Bit(x # NoInst) - Bit(jobs[id] # NoInst)
         /\ Cardinality(EnforcedInTable) \in Nat /\ Cardinality(EnforcedInTable') \in Nat
         /\ Cardinality(EnforcedInTable') = Cardinality(EnforcedInTable)
              + Bit(x # NoInst /\ job'[x].enforced) - Bit(jobs[id] # NoInst /\ job[jobs[id]].enforced)
<1>1. /\ Cardinality(InTable) \in Nat /\ Cardinality(InTable') \in Nat
      /\ Cardinality(InTable') = Cardinality(InTable) + Bit(x # NoInst) - Bit(jobs[id] # NoInst)
  <2>1. IsFiniteSet(InTable)
    BY CardSubset, TableAssumption, Zenon DEF InTable
  <2>2. InTable \ {id} = InTable' \ {id}
    BY Zenon DEF InTable, TableTo
  <2>3. (id \in InTable <=> jobs[id] # NoInst) /\ (id \in InTable' <=> x # NoInst)
    BY Zenon DEF InTable, TableTo
  <2>4. /\ Cardinality(InTable) \in Nat /\ Cardinality(InTable') \in Nat
        /\ Cardinality(InTable') = Cardinality(InTable) + Bit(id \in InTable') - Bit(id \in InTable)
    BY <2>1, <2>2, CardMove, Zenon
  <2> QED
    BY Zenon, <2>3, <2>4 DEF Bit
<1>2. /\ Cardinality(EnforcedInTable) \in Nat /\ Cardinality(EnforcedInTable') \in Nat
      /\ Cardinality(EnforcedInTable') = Cardinality(EnforcedInTable)
           + Bit(x # NoInst /\ job'[x].enforced) - Bit(jobs[id] # NoInst /\ job[jobs[id]].enforced)
  <2>1. IsFiniteSet(EnforcedInTable)
    BY Zenon, CardSubset, TableAssumption DEF EnforcedInTable, InTable
  <2>2. EnforcedInTable \ {id} = EnforcedInTable' \ {id}
    BY Zenon DEF EnforcedInTable, InTable, TableTo
  <2>3. /\ id \in EnforcedInTable <=> jobs[id] # NoInst /\ job[jobs[id]].enforced
        /\ id \in EnforcedInTable' <=> x # NoInst /\ job'[x].enforced
    BY Zenon DEF EnforcedInTable, InTable, TableTo
  <2>4. /\ Cardinality(EnforcedInTable) \in Nat /\ Cardinality(EnforcedInTable') \in Nat
        /\ Cardinality(EnforcedInTable') = Cardinality(EnforcedInTable)
             + Bit(id \in EnforcedInTable') - Bit(id \in EnforcedInTable)
    BY Zenon, <2>1, <2>2, CardMove
  <2> QED
    BY <2>3, <2>4, Zenon DEF Bit
<1> QED
  BY <1>1, <1>2, Zenon

\* Where the table, or what is owed to job_count, is all that the sweeper changes.
LEMMA SweepFrame ==
  ASSUME IInv, UNCHANGED <<job, runner, handler, store, cleanup, delivered>>,
         jobs' \in [Ids -> Insts \cup {NoInst}],
         \A id \in Ids : jobs'[id] \in {jobs[id], NoInst},
         sweeper' \in SweeperFields, job_count' \in Nat,
         job_count' = Cardinality(InTable') + Cardinality(At("insert"))
                        + Cardinality(At("decrement")) + SweeperOwes'
  PROVE  IInv'
<1>1. TypeOK'
  BY Zenon DEF IInv, TypeOK
<1>2. CountExact'
  BY Zenon DEF CountExact, At
<1>3. EnforcedWithinMax'
  <2>1. EnforcedReserved' = EnforcedReserved /\ EnforcedInTable' \subseteq EnforcedInTable
    BY Zenon DEF EnforcedReserved, At, EnforcedInTable, InTable
  <2>2. IsFiniteSet(EnforcedInTable) /\ Cardinality(EnforcedReserved) \in Nat
    BY CardSubset, TableAssumption, Zenon DEF EnforcedInTable, InTable, EnforcedReserved, At
  <2>3. /\ Cardinality(EnforcedInTable') \in Nat /\ Cardinality(EnforcedInTable) \in Nat
        /\ Cardinality(EnforcedInTable') <= Cardinality(EnforcedInTable)
    BY ZenonT(100), <2>1, <2>2, CardSubset, FS_CardinalityType
  <2>4. Cardinality(EnforcedInTable) + Cardinality(EnforcedReserved) <= MaxJobs /\ MaxJobs \in Nat
    BY TableAssumption, Zenon DEF IInv, EnforcedWithinMax
  <2> QED
    BY SMTT(60), <2>1, <2>2, <2>3, <2>4 DEF EnforcedWithinMax
<1>4. PollersExact' /\ HandlerSound' /\ SlotEmptyBefore' /\ ResultConserved' /\ NoLostWakeup'
  BY Zenon DEF IInv, PollersExact, PollersAt, HandlerSound, Sound, SlotEmptyBefore, ResultConserved, NoLostWakeup
<1>5. TableBorn'
  BY Zenon DEF IInv, TableBorn
<1> QED
  BY <1>1, <1>2, <1>3, <1>4, <1>5, ZenonT(100) DEF IInv

\* What job_count counts, in numbers.
LEMMA Counted ==
  ASSUME IInv
  PROVE  /\ Cardinality(InTable) \in Nat /\ Cardinality(At("insert")) \in Nat
         /\ Cardinality(At("decrement")) \in Nat /\ SweeperOwes \in {0, 1} /\ job_count \in Nat
         /\ job_count = Cardinality(InTable) + Cardinality(At("insert"))
                          + Cardinality(At("decrement")) + SweeperOwes
  BY CardSubset, TableAssumption, ZenonT(100) DEF IInv, TypeOK, CountExact, InTable, At, SweeperOwes

\* remove_if moves one entry from the table to what the sweeper owes.
LEMMA SweepRemoveStep == ASSUME IInv, NEW id \in Ids, SweepRemove(id) PROVE IInv'
<1>0. jobs \in [Ids -> Insts \cup {NoInst}] /\ sweeper \in SweeperFields
  BY Zenon DEF IInv, TypeOK
<1>1. CASE Sweepable(id)
  <2>1. TableTo(id, NoInst) /\ jobs[id] # NoInst
    BY Zenon, <1>0, <1>1 DEF SweepRemove, TableTo, Sweepable
  <2>2. sweeper' \in SweeperFields /\ SweeperOwes = 0 /\ SweeperOwes' = 1
    BY <1>0, <1>1, Zenon DEF SweepRemove, SweeperFields, SweeperOwes
  <2>3. /\ Cardinality(InTable') \in Nat
        /\ Cardinality(InTable') = Cardinality(InTable) + Bit(NoInst # NoInst) - Bit(jobs[id] # NoInst)
    BY <2>1, TableCounts, Zenon DEF SweepRemove
  <2>4. job_count = Cardinality(InTable') + Cardinality(At("insert"))
                      + Cardinality(At("decrement")) + 1
    BY SMTT(60), <2>1, <2>2, <2>3, Counted DEF Bit
  <2> QED
    BY ZenonT(100), <2>1, <2>2, <2>4, Counted, SweepFrame DEF SweepRemove, TableTo
<1>2. CASE ~Sweepable(id)
  <2>1. sweeper' \in SweeperFields /\ SweeperOwes = 0 /\ SweeperOwes' = 0
    BY SMTT(60), <1>0, <1>2 DEF SweepRemove, AfterId, SweeperFields, SweeperOwes
  <2>2. UNCHANGED jobs /\ InTable' = InTable
    BY Zenon, <1>2 DEF SweepRemove, InTable
  <2> QED
    BY ZenonT(100), <1>0, <2>1, <2>2, Counted, SweepFrame DEF SweepRemove
<1> QED
  BY Zenon, <1>1, <1>2

\* SweepDecrement takes the unit its removal left; the counter is not zero then.
LEMMA SweepDecrementStep == ASSUME IInv, SweepDecrement PROVE IInv'
<1>0. jobs \in [Ids -> Insts \cup {NoInst}] /\ sweeper \in SweeperFields
  BY Zenon DEF IInv, TypeOK
<1>1. sweeper' \in SweeperFields /\ SweeperOwes = 1 /\ SweeperOwes' = 0
  BY Zenon, <1>0 DEF SweepDecrement, AfterId, SweeperFields, SweeperOwes
<1>2. UNCHANGED jobs /\ InTable' = InTable
  BY Zenon DEF SweepDecrement, InTable
<1>3. /\ job_count' \in Nat
      /\ job_count' = Cardinality(InTable') + Cardinality(At("insert"))
                        + Cardinality(At("decrement")) + SweeperOwes'
  BY SMTT(60), <1>1, <1>2, Counted DEF SweepDecrement
<1> QED
  BY ZenonT(100), <1>0, <1>1, <1>2, <1>3, SweepFrame DEF SweepDecrement

\* remove_job moves one entry, if there is one, to what the handler owes.
LEMMA RemoveJobStep == ASSUME IInv, NEW h \in Handlers, RemoveJob(h) PROVE IInv'
<1>1. PICK id \in Ids : id = handler[h].id
  BY Zenon, Shapes DEF HandlerOK, HandlerFields
<1>2. PICK p \in {"decrement", "cleanup"} :
        /\ Goto(h, p)
        /\ p = "decrement" <=> jobs[id] # NoInst
  BY <1>1, Zenon DEF RemoveJob
<1> DEFINE f == After(h, p)
<1>3. HandlerTo(h, f) /\ f.pc = p /\ f.inst = handler[h].inst /\ handler[h].pc = "remove"
  BY ZenonT(100), <1>2, Shapes, Pcs, GotoEffect DEF RemoveJob, After, Locals
<1>4. TableTo(id, NoInst)
  BY <1>1, Zenon DEF RemoveJob, TableTo, IInv, TypeOK
<1>5. UNCHANGED <<job_count, job, runner, sweeper, store, cleanup, delivered>>
  BY Zenon DEF RemoveJob
<1> HIDE DEF f
<1>6. TypeOK'
  BY <1>3, <1>4, <1>5, ZenonT(100) DEF IInv, TypeOK, HandlerTo, HandlerOK, TableTo
<1>7. /\ Cardinality(InTable') \in Nat
      /\ Cardinality(InTable') = Cardinality(InTable) + Bit(NoInst # NoInst) - Bit(jobs[id] # NoInst)
      /\ Cardinality(EnforcedInTable') \in Nat /\ Cardinality(EnforcedInTable) \in Nat
      /\ Cardinality(EnforcedInTable') = Cardinality(EnforcedInTable)
           + Bit(NoInst # NoInst /\ job'[NoInst].enforced)
           - Bit(jobs[id] # NoInst /\ job[jobs[id]].enforced)
  BY <1>4, <1>5, TableCounts, Zenon
<1>8. CountExact'
  <2>1. /\ Cardinality(At("insert")') \in Nat /\ Cardinality(At("decrement")') \in Nat
        /\ Cardinality(At("insert")') = Cardinality(At("insert"))
             + Bit(f.pc = "insert") - Bit(handler[h].pc = "insert")
        /\ Cardinality(At("decrement")') = Cardinality(At("decrement"))
             + Bit(f.pc = "decrement") - Bit(handler[h].pc = "decrement")
    BY SMTT(60), <1>3, HandlerCounts, Pcs
  <2>2. Cardinality(At("insert")') = Cardinality(At("insert"))
    BY SMTT(60), <1>2, <1>3, <2>1, Counted DEF Bit
  <2>3. Cardinality(At("decrement")') + Cardinality(InTable')
          = Cardinality(At("decrement")) + Cardinality(InTable)
    BY SMTT(60), <1>2, <1>3, <1>7, <2>1, Counted DEF Bit
  <2>4. SweeperOwes' = SweeperOwes
    BY <1>5, Zenon DEF SweeperOwes
  <2>5. job_count = Cardinality(InTable') + Cardinality(At("insert")')
                      + Cardinality(At("decrement")') + SweeperOwes
    <3>1. Cardinality(InTable') \in Nat /\ Cardinality(At("decrement")') \in Nat
      BY <1>7, <2>1, Zenon
    <3> QED
      BY SMTT(60), <2>2, <2>3, <3>1, Counted
  <2> QED
    BY <1>5, <2>4, <2>5, ZenonT(100) DEF CountExact
<1>9. EnforcedWithinMax'
  <2>1. /\ Cardinality(EnforcedReserved) \in Nat
        /\ Cardinality(EnforcedReserved') = Cardinality(EnforcedReserved)
             + Bit(f.pc = "insert" /\ f.mode = "submit")
             - Bit(handler[h].pc = "insert" /\ handler[h].mode = "submit")
    BY <1>3, HandlerCounts, Zenon
  <2>2. Cardinality(EnforcedReserved') = Cardinality(EnforcedReserved)
    BY SMTT(60), <1>2, <1>3, <2>1 DEF Bit
  <2>3. Cardinality(EnforcedInTable') <= Cardinality(EnforcedInTable)
    BY <1>7 DEF Bit
  <2>4. Cardinality(EnforcedInTable) + Cardinality(EnforcedReserved) <= MaxJobs /\ MaxJobs \in Nat
    BY TableAssumption, Zenon DEF IInv, EnforcedWithinMax
  <2> QED
    BY SMTT(60), <1>7, <2>1, <2>2, <2>3, <2>4 DEF EnforcedWithinMax
<1>10. PollersExact'
  <2> SUFFICES ASSUME NEW k \in Insts PROVE job'[k].pollers = Cardinality(PollersAt(k)')
    BY Zenon DEF PollersExact
  <2>1. job'[k].pollers = Cardinality(PollersAt(k))
    BY <1>5, ZenonT(100) DEF IInv, PollersExact
  <2>2. /\ Cardinality(PollersAt(k)) \in Nat
        /\ Cardinality(PollersAt(k)') =
             Cardinality(PollersAt(k)) + Bit(f.pc \in Connected /\ f.inst = k)
               - Bit(handler[h].pc \in Connected /\ handler[h].inst = k)
    BY <1>3, HandlerCounts
  <2>3. f.pc \in Connected /\ handler[h].pc \in Connected
    BY <1>2, <1>3, Zenon DEF Connected
  <2> QED
    BY SMTT(60), <1>3, <2>1, <2>2, <2>3 DEF Bit
<1>11. TableBorn'
  BY <1>4, <1>5, Zenon DEF IInv, TableBorn, TableTo
<1>12. HandlerSound'
  <2>1. Sound(f)
    <3>1. handler[h].inst \in Insts /\ runner[handler[h].inst] # "unborn"
      BY <1>3, HeldInst, Zenon DEF Holding, Connected
    <3> QED
      BY <1>2, <1>3, <3>1, Zenon DEF Sound
  <2> QED
    BY <1>3, <1>5, <2>1, ZenonT(100) DEF IInv, HandlerSound, Sound, HandlerTo
<1>13. SlotEmptyBefore' /\ ResultConserved'
  BY <1>5, Zenon DEF IInv, SlotEmptyBefore, ResultConserved
<1>14. NoLostWakeup'
  BY <1>2, <1>3, <1>5, ZenonT(100) DEF IInv, NoLostWakeup, HandlerTo
<1> QED
  BY ZenonT(100), <1>6, <1>8, <1>9, <1>10, <1>11, <1>12, <1>13, <1>14 DEF IInv

\* Accept turns a reservation into an entry, under an instance nobody holds.
LEMMA AcceptStep == ASSUME IInv, NEW h \in Handlers, NEW i \in Insts, Accept(h, i) PROVE IInv'
<1>1. PICK id \in Ids : id = handler[h].id
  BY Shapes, Zenon DEF HandlerOK, HandlerFields
<1> DEFINE f == After(h, "lookup")
           e == handler[h].mode = "submit"
           g == Fields(id, e, "none", handler[h].mode = "repoll", "queued", 0, TRUE)
<1>2. /\ HandlerTo(h, f) /\ f.pc = "lookup" /\ handler[h].pc = "insert"
  BY Shapes, Pcs, GotoEffect, Zenon DEF Accept, After, Locals
<1>3. TableTo(id, i) /\ jobs[id] = NoInst /\ i # NoInst
  BY Zenon, <1>1, TableAssumption DEF Accept, TableTo, IInv, TypeOK
<1>4. JobTo(i, g)
  <2>1. JobOK /\ g \in JobFields
    BY Shapes, Zenon DEF Fields, JobFields
  <2>2. job' = [job EXCEPT ![i] = g]
    BY <1>1, Zenon DEF Accept, Fields
  <2> HIDE DEF g
  <2> QED
    BY <2>1, <2>2, Zenon DEF JobOK, JobTo
<1>5. /\ runner[i] = "unborn" /\ runner' = [runner EXCEPT ![i] = "run"]
      /\ UNCHANGED <<job_count, sweeper, store, cleanup, delivered>>
  BY Zenon DEF Accept
<1>6. g.enforced = e /\ g.result = "none" /\ g.pollers = 0
  BY Zenon DEF Fields
<1> HIDE DEF f, g
<1>7. \A k \in Ids : jobs[k] # NoInst => jobs[k] \in Insts /\ jobs[k] # i
  BY Zenon, <1>5 DEF IInv, TypeOK, TableBorn
<1>8. \A k \in Handlers : handler[k].pc \in Holding => handler[k].inst \in Insts /\ handler[k].inst # i
  BY <1>5, HeldInst, Zenon
<1>9. TypeOK'
  <2>1. runner' \in [Insts -> RunnerPc]
    BY <1>5, Shapes, ZenonT(100) DEF RunnerPc
  <2> QED
    BY <1>2, <1>3, <1>4, <1>5, <2>1, ZenonT(100) DEF IInv, TypeOK, HandlerTo, HandlerOK, TableTo, JobTo, JobOK
<1>10. /\ Cardinality(InTable') \in Nat
       /\ Cardinality(InTable') = Cardinality(InTable) + Bit(i # NoInst) - Bit(jobs[id] # NoInst)
       /\ Cardinality(EnforcedInTable') \in Nat /\ Cardinality(EnforcedInTable) \in Nat
       /\ Cardinality(EnforcedInTable') = Cardinality(EnforcedInTable)
            + Bit(i # NoInst /\ job'[i].enforced) - Bit(jobs[id] # NoInst /\ job[jobs[id]].enforced)
  <2>1. \A k \in Ids : k # id /\ jobs[k] # NoInst => job'[jobs[k]].enforced = job[jobs[k]].enforced
    BY <1>4, <1>7, Zenon DEF JobTo
  <2> QED
    BY SMTT(60), <1>3, <2>1, TableCounts
<1>11. CountExact'
  <2>1. /\ Cardinality(At("insert")') \in Nat /\ Cardinality(At("decrement")') \in Nat
        /\ Cardinality(At("insert")') = Cardinality(At("insert"))
             + Bit(f.pc = "insert") - Bit(handler[h].pc = "insert")
        /\ Cardinality(At("decrement")') = Cardinality(At("decrement"))
             + Bit(f.pc = "decrement") - Bit(handler[h].pc = "decrement")
    BY SMTT(60), <1>2, HandlerCounts, Pcs
  <2>2. Cardinality(InTable') = Cardinality(InTable) + 1
    BY SMTT(60), <1>3, <1>10, Counted DEF Bit
  <2>3. /\ Cardinality(At("insert")') = Cardinality(At("insert")) - 1
        /\ Cardinality(At("decrement")') = Cardinality(At("decrement"))
    BY SMTT(60), <1>2, <2>1, Counted DEF Bit
  <2>4. SweeperOwes' = SweeperOwes
    BY <1>5, Zenon DEF SweeperOwes
  <2>5. job_count = Cardinality(InTable') + Cardinality(At("insert")')
                      + Cardinality(At("decrement")') + SweeperOwes
    BY SMTT(60), <2>2, <2>3, Counted
  <2> QED
    BY <1>5, <2>4, <2>5, ZenonT(100) DEF CountExact
<1>12. EnforcedWithinMax'
  <2>1. /\ Cardinality(EnforcedReserved) \in Nat /\ Cardinality(EnforcedReserved') \in Nat
        /\ Cardinality(EnforcedReserved') = Cardinality(EnforcedReserved)
             + Bit(f.pc = "insert" /\ f.mode = "submit")
             - Bit(handler[h].pc = "insert" /\ handler[h].mode = "submit")
    BY <1>2, HandlerCounts, ZenonT(100)
  <2>2. Cardinality(EnforcedReserved') = Cardinality(EnforcedReserved) - Bit(e)
    BY <1>2, <2>1 DEF Bit
  <2>3. job'[i].enforced = e
    BY <1>4, <1>6, ZenonT(100) DEF JobTo
  <2>4. Cardinality(EnforcedInTable') = Cardinality(EnforcedInTable) + Bit(e)
    <3>1. Bit(i # NoInst /\ job'[i].enforced) = Bit(e)
      BY <1>3, <2>3, Zenon DEF Bit
    <3>2. Bit(jobs[id] # NoInst /\ job[jobs[id]].enforced) = 0
      BY Zenon, <1>3 DEF Bit
    <3>3. Bit(e) \in {0, 1}
      BY Zenon DEF Bit
    <3> QED
      BY SMTT(60), <1>10, <3>1, <3>2, <3>3
  <2>5. Cardinality(EnforcedInTable) + Cardinality(EnforcedReserved) <= MaxJobs
    BY Zenon DEF IInv, EnforcedWithinMax
  <2>6. Bit(e) \in {0, 1}
    BY Zenon DEF Bit
  <2> QED
    BY SMTT(60), <1>10, <2>1, <2>2, <2>4, <2>5, <2>6 DEF EnforcedWithinMax
<1>13. PollersExact'
  <2> SUFFICES ASSUME NEW k \in Insts PROVE job'[k].pollers = Cardinality(PollersAt(k)')
    BY Zenon DEF PollersExact
  <2>1. PollersAt(k)' = PollersAt(k)
    BY <1>2, Zenon DEF PollersAt, HandlerTo, Connected
  <2>2. CASE k # i
    BY <1>4, <2>1, <2>2, Zenon DEF IInv, PollersExact, JobTo
  <2>3. CASE k = i
    <3>1. PollersAt(k) = {}
      BY Zenon, <1>8, <2>3 DEF PollersAt, Holding
    <3> QED
      BY <1>4, <1>6, <2>1, <2>3, <3>1, FS_EmptySet, ZenonT(100) DEF JobTo
  <2> QED
    BY Zenon, <2>2, <2>3
<1>14. \A k \in Insts : k # i => runner'[k] = runner[k]
  BY Zenon, <1>5, Shapes
<1>15. runner'[i] = "run"
  BY <1>5, Shapes, Zenon
<1>16. TableBorn'
  BY <1>3, <1>7, <1>14, <1>15, ZenonT(100) DEF IInv, TableBorn, TableTo
<1>17. HandlerSound'
  BY SMTT(60), <1>2, <1>8, <1>14 DEF IInv, HandlerSound, Sound, HandlerTo, Holding, Connected
<1>18. SlotEmptyBefore' /\ ResultConserved'
  BY <1>4, <1>5, <1>6, <1>14, <1>15, ZenonT(100) DEF IInv, SlotEmptyBefore, ResultConserved, JobTo, Published
<1>19. NoLostWakeup'
  <2>1. \A k \in Handlers : handler'[k].pc = "wait" =>
          handler'[k] = handler[k] /\ handler[k].inst \in Insts /\ handler[k].inst # i
    BY Zenon, <1>2, <1>8 DEF HandlerTo, Holding, Connected
  <2> QED
    BY <1>4, <1>14, <2>1 DEF IInv, NoLostWakeup, JobTo
<1> QED
  BY ZenonT(100), <1>9, <1>11, <1>12, <1>13, <1>16, <1>17, <1>18, <1>19 DEF IInv

-----------------------------------------------------------------------------
(* The theorems *)

\* Nothing is in the table, nobody waits and nothing is counted at the start.
LEMMA InitInv == ASSUME Init PROVE IInv
<1>1. AnyId \in Ids /\ Idle \in HandlerFields
  BY TableAssumption, ZenonT(100) DEF AnyId, Idle, HandlerFields, HandlerPc
<1>2. TypeOK
  BY <1>1 DEF Init, TypeOK, JobFields, RunnerPc, SweeperFields
<1>3. \A h \in Handlers : handler[h].pc = "idle"
  BY Zenon DEF Init, Idle
<1>4. InTable = {} /\ EnforcedInTable = {} /\ At("insert") = {} /\ At("decrement") = {}
      /\ EnforcedReserved = {} /\ \A i \in Insts : PollersAt(i) = {}
  BY Zenon, <1>3 DEF Init, InTable, EnforcedInTable, At, EnforcedReserved, PollersAt, Connected
<1>5. CountExact /\ EnforcedWithinMax
  <2>1. SweeperOwes = 0 /\ job_count = 0 /\ Cardinality({}) = 0 /\ MaxJobs \in Nat
    BY Zenon, FS_EmptySet, TableAssumption DEF Init, SweeperOwes
  <2> QED
    BY SMTT(60), <1>4, <2>1 DEF CountExact, EnforcedWithinMax
<1>6. PollersExact
  BY <1>4, FS_EmptySet, Zenon DEF Init, PollersExact
<1>7. TableBorn /\ SlotEmptyBefore /\ ResultConserved
  BY Zenon DEF Init, TableBorn, SlotEmptyBefore, ResultConserved, Published
<1>8. HandlerSound /\ NoLostWakeup
  BY Zenon, <1>3 DEF HandlerSound, Sound, NoLostWakeup, Holding, Connected
<1> QED
  BY <1>2, <1>5, <1>6, <1>7, <1>8, ZenonT(100) DEF IInv

\* Every step preserves the invariant.
LEMMA NextInv == ASSUME IInv, [Next]_vars PROVE IInv'
<1>1. ASSUME NEW h \in Handlers, HandlerStep(h) PROVE IInv'
  BY ZenonT(100), <1>1, AcceptStep, RejectDuplicateStep, BypassLimitStep, LookupStep, ConnectStep, InspectStep,
     WakeStep, TimeOutStep, RemoveJobStep, DecrementStep, ScheduleCleanupStep, DisconnectStep,
     ClaimStep DEF HandlerStep
<1>2. ASSUME NEW h \in Handlers, NEW id \in Ids, Request(h, id) PROVE IInv'
  BY <1>2, SubmitStep, StartPollStep, Zenon DEF Request
<1>3. ASSUME NEW i \in Insts, RunnerStep(i) \/ MarkProcessing(i) \/ GraceExpires(i) PROVE IInv'
  BY ZenonT(100), <1>3, PersistTimerStep, UpsertStep, NotifyResultStep, NotifyProcessingStep, PublishStep,
     MarkProcessingStep, GraceExpiresStep DEF RunnerStep
<1>4. ASSUME SweeperStep \/ CleanupDelete PROVE IInv'
  BY ZenonT(100), <1>4, MaintenanceStep, SweepRemoveStep, SweepDecrementStep DEF SweeperStep
<1>5. ASSUME UNCHANGED vars PROVE IInv'
  BY <1>5, ZenonT(100) DEF vars, IInv, TypeOK, CountExact, EnforcedWithinMax, PollersExact, PollersAt, TableBorn,
     HandlerSound, Sound, SlotEmptyBefore, ResultConserved, NoLostWakeup, InTable, At, SweeperOwes,
     EnforcedInTable, EnforcedReserved
<1> QED
  BY <1>1, <1>2, <1>3, <1>4, <1>5, Zenon DEF Next

\* The conjunction of named parts above is an invariant of the job table.
THEOREM Invariance == Spec => []IInv
<1>1. Init => IInv
  BY Zenon, InitInv
<1>2. IInv /\ [Next]_vars => IInv'
  BY Zenon, NextInv
<1> QED
  BY <1>1, <1>2, PTL DEF Spec

\* Every variable keeps its shape; active_pollers never falls below zero.
THEOREM TypeCorrect == Spec => []TypeOK
<1>1. IInv => TypeOK
  BY Zenon DEF IInv
<1> QED
  BY <1>1, Invariance, PTL

\* job_count is at every moment the number of table entries, reservations and
\* owed decrements, whatever submissions, polls and sweeps interleave.
THEOREM CountCorrect == Spec => []CountExact
<1>1. IInv => CountExact
  BY ZenonT(100) DEF IInv
<1> QED
  BY <1>1, Invariance, PTL

\* No more than max_jobs jobs that passed the gate of submit are ever held.
THEOREM CapCorrect == Spec => []EnforcedWithinMax
<1>1. IInv => EnforcedWithinMax
  BY ZenonT(100) DEF IInv
<1> QED
  BY <1>1, Invariance, PTL

\* A published result is in its slot or was handed to exactly one poll.
THEOREM ResultCorrect == Spec => []ResultConserved
<1>1. IInv => ResultConserved
  BY ZenonT(100) DEF IInv
<1> QED
  BY <1>1, Invariance, PTL

\* No poll sleeps through the publication of the result it waits for.
THEOREM WakeupCorrect == Spec => []NoLostWakeup
<1>1. IInv => NoLostWakeup
  BY Zenon DEF IInv
<1> QED
  BY <1>1, Invariance, PTL

-----------------------------------------------------------------------------
(* The life of a job: while its task runs it is in the table, and its durable  *)
(* record does not outlive it unnoticed.  Both rest on ids being issued once,  *)
(* as new_job_id does, so the theorems assume that callers do not choose ids   *)
(* (~CallerIds). *)

Born(i) == runner[i] # "unborn"

\* The table maps an id to a job of that id.
TableIds == \A id \in Ids : jobs[id] # NoInst => job[jobs[id]].id = id

\* What holds of the locals of one handler: the job it holds has its id, it
\* removes only after it took a published result, and it recovers only ids of
\* which there was a job before.
Own(f) ==
  /\ f.pc \in Holding => job[f.inst].id = f.id
  /\ f.pc = "remove" => runner[f.inst] \in Published
  /\ f.pc = "insert" => f.mode \in {"submit", "repoll"}
  /\ f.mode = "repoll" => \E i \in Insts : Born(i) /\ job[i].id = f.id

HandlersOwn == \A h \in Handlers : Own(handler[h])

Reserves(f, id) == f.pc = "insert" /\ f.mode = "submit" /\ f.id = id

\* An id for which submit has reserved room has no job yet and one submitter.
ReservedFresh ==
  \A h \in Handlers, id \in Ids :
    Reserves(handler[h], id) =>
      /\ \A i \in Insts : Born(i) => job[i].id # id
      /\ \A k \in Handlers : Reserves(handler[k], id) => k = h

\* While the task of a submitted job runs there is no other job of its id.
FirstAlone ==
  \A i, k \in Insts :
    runner[i] \in Running /\ job[i].enforced /\ Born(k) /\ job[k].id = job[i].id => k = i

RecordBorn == \A id \in store : \E i \in Insts : Born(i) /\ job[i].id = id

\* The persisted flag is set on every job of an id with a record, and on every
\* recovered job; a task writes a record only while its flag is clear.
Flagged(i) ==
  /\ Born(i) /\ job[i].id \in store \ Flaky => job[i].persisted
  /\ Born(i) /\ ~job[i].enforced => job[i].persisted
  /\ runner[i] = "upsert" => ~job[i].persisted

AllFlagged == \A i \in Insts : Flagged(i)

SweeperHolds ==
  sweeper.pc \in {"decrement", "delete"} => sweeper.inst \in Insts /\ Born(sweeper.inst)

Removing == {"remove", "decrement", "cleanup"}

LInv ==
  /\ TableIds
  /\ HandlersOwn
  /\ ReservedFresh
  /\ FirstAlone
  /\ RunningStaysInTable
  /\ RecordBorn
  /\ AllFlagged
  /\ SweeperHolds
  /\ RecordAccounted

-----------------------------------------------------------------------------
(* Frames *)

\* The fields of jobs that the invariant speaks of stay as they are.
JobsKept ==
  \A i \in Insts : /\ job'[i].id = job[i].id /\ job'[i].enforced = job[i].enforced
                   /\ job'[i].persisted = job[i].persisted

\* What the locals of handler h become in a step of that handler.
Carries(h, f) ==
  /\ Own(f) /\ (f.pc \in Holding => f.inst \in Insts)
  /\ \A id \in Ids : Reserves(f, id) => Reserves(handler[h], id) \/ Fresh(id)
  /\ handler[h].pc \in Removing => f.pc \in Removing /\ f.id = handler[h].id

\* What the types give: instances in the table, in a handler's hands, and ids.
LEMMA Typed ==
  ASSUME IInv
  PROVE  /\ \A id \in Ids : jobs[id] # NoInst => jobs[id] \in Insts /\ Born(jobs[id])
         /\ \A h \in Handlers : handler[h].pc \in Holding => handler[h].inst \in Insts /\ Born(handler[h].inst)
         /\ \A h \in Handlers : handler[h].id \in Ids
         /\ \A i \in Insts : job[i].id \in Ids
         /\ jobs \in [Ids -> Insts \cup {NoInst}] /\ runner \in [Insts -> RunnerPc]
         /\ store \subseteq Ids /\ cleanup \in Seq(Ids)
<1>1. \A id \in Ids : jobs[id] # NoInst => jobs[id] \in Insts /\ Born(jobs[id])
  BY Zenon DEF IInv, TypeOK, TableBorn, Born
<1>2. \A h \in Handlers : handler[h].pc \in Holding => handler[h].inst \in Insts /\ Born(handler[h].inst)
  BY Zenon, HeldInst DEF Born
<1>3. \A h \in Handlers : handler[h].id \in Ids
  BY Zenon, Shapes DEF HandlerOK, HandlerFields
<1>4. \A i \in Insts : job[i].id \in Ids
  BY Zenon, Shapes DEF JobOK, JobFields
<1> QED
  BY ZenonT(100), <1>1, <1>2, <1>3, <1>4 DEF IInv, TypeOK

\* A step of one handler that leaves the table, the tasks and the store alone.
LEMMA HandlerLife ==
  ASSUME IInv, LInv, NEW h \in Handlers, NEW f, HandlerTo(h, f), Carries(h, f), JobsKept,
         UNCHANGED <<jobs, runner, sweeper, store, cleanup>>
  PROVE  LInv'
<1>1. \A k \in Handlers : k # h => handler'[k] = handler[k]
  BY Zenon DEF HandlerTo
<1>2. handler'[h] = f
  BY ZenonT(100) DEF HandlerTo
<1>3. TableIds' /\ FirstAlone' /\ RunningStaysInTable' /\ RecordBorn' /\ AllFlagged' /\ SweeperHolds'
  BY SMTT(60), Typed DEF LInv, TableIds, FirstAlone, RunningStaysInTable, RecordBorn, AllFlagged, Flagged,
     SweeperHolds, Born, JobsKept
<1>4. HandlersOwn'
  <2> SUFFICES ASSUME NEW k \in Handlers PROVE Own(handler[k])'
    BY Zenon DEF HandlersOwn
  <2>1. Own(handler'[k])
    BY Zenon, <1>1, <1>2 DEF LInv, HandlersOwn, Carries
  <2>2. handler'[k].pc \in Holding => handler'[k].inst \in Insts
    BY Zenon, <1>1, <1>2, Typed DEF Carries
  <2> QED
    BY Zenon, <2>1, <2>2 DEF Own, JobsKept, Born, Holding, Connected
<1>5. ReservedFresh'
  <2> SUFFICES ASSUME NEW k \in Handlers, NEW id \in Ids, Reserves(handler'[k], id)
               PROVE  /\ \A i \in Insts : Born(i)' => job'[i].id # id
                      /\ \A l \in Handlers : Reserves(handler'[l], id) => l = k
    BY Zenon DEF ReservedFresh, Reserves
  <2>1. \A l \in Handlers : Reserves(handler'[l], id) => Reserves(handler[l], id) \/ (l = h /\ Fresh(id))
    BY Zenon, <1>1, <1>2 DEF Carries
  <2>2. Fresh(id) => /\ \A i \in Insts : Born(i) => job[i].id # id
                     /\ \A l \in Handlers : ~Reserves(handler[l], id)
    BY Zenon DEF Fresh, Born, Reserves
  <2>3. \A i \in Insts : Born(i) => job[i].id # id
    BY Zenon, <2>1, <2>2 DEF LInv, ReservedFresh
  <2>4. \A l \in Handlers : Reserves(handler'[l], id) => l = k
    BY Zenon, <2>1, <2>2 DEF LInv, ReservedFresh
  <2> QED
    BY Zenon, <2>3, <2>4 DEF JobsKept, Born
<1>6. RecordAccounted'
  <2> SUFFICES ASSUME NEW id \in store \ Flaky
               PROVE  \/ jobs[id] # NoInst
                      \/ \E n \in 1..Len(cleanup) : cleanup[n] = id
                      \/ \E k \in Handlers : handler'[k].id = id /\ handler'[k].pc \in Removing
                      \/ (sweeper.pc \in {"decrement", "delete"} /\ job[sweeper.inst].id = id)
    BY ZenonT(100) DEF RecordAccounted, Removing, JobsKept, LInv, SweeperHolds
  <2>1. \A k \in Handlers : handler[k].id = id /\ handler[k].pc \in Removing
          => handler'[k].id = id /\ handler'[k].pc \in Removing
    BY Zenon, <1>1, <1>2 DEF Carries
  <2> QED
    BY Zenon, <2>1 DEF LInv, RecordAccounted, Removing
<1> QED
  BY Zenon, <1>3, <1>4, <1>5, <1>6 DEF LInv

\* A step of a task or of time that moves no handler and writes nothing.
LEMMA TaskLife ==
  ASSUME IInv, LInv, JobsKept, UNCHANGED <<jobs, sweeper, store, cleanup>>,
         \A h \in Handlers :
           /\ handler'[h].pc = handler[h].pc /\ handler'[h].mode = handler[h].mode
           /\ handler'[h].id = handler[h].id /\ handler'[h].inst = handler[h].inst,
         \A i \in Insts :
           /\ runner'[i] = "unborn" <=> runner[i] = "unborn"
           /\ runner'[i] \in Running => runner[i] \in Running
           /\ runner[i] \in Published => runner'[i] \in Published
           /\ runner'[i] = "upsert" => ~job[i].persisted
  PROVE  LInv'
<1>1. TableIds' /\ FirstAlone' /\ RunningStaysInTable' /\ RecordBorn' /\ SweeperHolds'
  BY SMTT(60), Typed DEF LInv, TableIds, FirstAlone, RunningStaysInTable, RecordBorn, SweeperHolds, Born, JobsKept
<1>2. AllFlagged'
  BY ZenonT(100) DEF LInv, AllFlagged, Flagged, Born, JobsKept
<1>3. HandlersOwn'
  <2> SUFFICES ASSUME NEW k \in Handlers PROVE Own(handler[k])'
    BY Zenon DEF HandlersOwn
  <2>1. Own(handler[k]) /\ (handler[k].pc \in Holding => handler[k].inst \in Insts) /\ "remove" \in Holding
    BY ZenonT(100), Typed DEF LInv, HandlersOwn, Holding, Connected
  <2> QED
    BY <2>1 DEF Own, JobsKept, Born
<1>4. ReservedFresh'
  BY SMTT(60) DEF LInv, ReservedFresh, Reserves, JobsKept, Born
<1>5. RecordAccounted'
  BY DEF LInv, RecordAccounted, SweeperHolds, JobsKept
<1> QED
  BY Zenon, <1>1, <1>2, <1>3, <1>4, <1>5 DEF LInv

-----------------------------------------------------------------------------
(* The steps of a handler that leave the table alone *)

\* Goto keeps the mode, the id and the job.
LEMMA GotoLife ==
  ASSUME IInv, LInv, NEW h \in Handlers, NEW p \in HandlerPc, Goto(h, p), JobsKept,
         p \in Holding => handler[h].pc \in Holding,
         p = "remove" => runner[handler[h].inst] \in Published,
         p = "insert" => handler[h].mode = "repoll",
         handler[h].pc \in Removing => p \in Removing,
         UNCHANGED <<jobs, runner, sweeper, store, cleanup>>
  PROVE  LInv'
<1> DEFINE f == After(h, p)
<1>1. HandlerTo(h, f)
  BY GotoEffect, Shapes, Zenon
<1>2. /\ f.pc = p /\ f.mode = handler[h].mode /\ f.id = handler[h].id /\ f.inst = handler[h].inst
  BY Zenon DEF After, Locals
<1> HIDE DEF f
<1>3. Own(f)
  BY Zenon, <1>2 DEF LInv, HandlersOwn, Own
<1>4. Carries(h, f)
  BY ZenonT(100), <1>2, <1>3, Typed DEF Carries, Reserves
<1> QED
  BY Zenon, <1>1, <1>4, HandlerLife

\* Return leaves nothing to account for.
LEMMA ReturnLife ==
  ASSUME IInv, LInv, NEW h \in Handlers, Return(h), JobsKept, handler[h].pc \notin Removing,
         UNCHANGED <<jobs, runner, sweeper, store, cleanup>>
  PROVE  LInv'
<1>1. HandlerTo(h, Idle)
  BY Zenon, ReturnEffect, Shapes
<1>2. Carries(h, Idle)
  BY Zenon DEF Carries, Own, Reserves, Idle, Holding, Connected
<1> QED
  BY ZenonT(100), <1>1, <1>2, HandlerLife

\* Submit reserves room for an id that was never used.
LEMMA SubmitLife ==
  ASSUME IInv, LInv, ~CallerIds, NEW h \in Handlers, NEW id \in Ids, Submit(h, id)
  PROVE  LInv'
<1> DEFINE f == Locals("insert", "submit", id, handler[h].inst, handler[h].wake)
<1>1. HandlerTo(h, f)
  BY RequestEffect, Pcs, Shapes, ZenonT(100) DEF Submit
<1>2. f.pc = "insert" /\ f.mode = "submit" /\ f.id = id
  BY Zenon DEF Locals
<1> HIDE DEF f
<1>3. Carries(h, f)
  BY Zenon, <1>2 DEF Carries, Own, Reserves, Submit, Removing, Holding, Connected
<1>4. JobsKept
  BY Zenon DEF JobsKept, Submit
<1> QED
  BY ZenonT(100), <1>1, <1>3, <1>4, HandlerLife DEF Submit

\* A poll starts with an id and no job.
LEMMA StartPollLife ==
  ASSUME IInv, LInv, NEW h \in Handlers, NEW id \in Ids, StartPoll(h, id)
  PROVE  LInv'
<1> DEFINE f == Locals("lookup", "poll", id, handler[h].inst, handler[h].wake)
<1>1. HandlerTo(h, f)
  BY RequestEffect, Pcs, Shapes, ZenonT(100) DEF StartPoll
<1>2. f.pc = "lookup" /\ f.mode = "poll" /\ f.id = id
  BY Zenon DEF Locals
<1> HIDE DEF f
<1>3. Carries(h, f)
  BY Zenon, <1>2 DEF Carries, Own, Reserves, StartPoll, Removing, Holding, Connected
<1>4. JobsKept
  BY Zenon DEF JobsKept, StartPoll
<1> QED
  BY ZenonT(100), <1>1, <1>3, <1>4, HandlerLife DEF StartPoll

\* A recovery goes on to the insertion.
LEMMA BypassLimitLife ==
  ASSUME IInv, LInv, NEW h \in Handlers, BypassLimit(h)
  PROVE  LInv'
<1>1. JobsKept /\ handler[h].mode = "repoll"
  BY Zenon DEF JobsKept, BypassLimit, IInv, HandlerSound, Sound
<1> QED
  BY ZenonT(100), <1>1, GotoLife, Pcs DEF BypassLimit, Removing, Holding, Connected

\* A duplicate is turned away without a trace.
LEMMA RejectDuplicateLife ==
  ASSUME IInv, LInv, NEW h \in Handlers, RejectDuplicate(h)
  PROVE  LInv'
<1>1. JobsKept /\ handler[h].pc \notin Removing
  BY Zenon DEF JobsKept, RejectDuplicate, Removing
<1>2. CASE Return(h)
  BY Zenon, <1>1, <1>2, ReturnLife DEF RejectDuplicate
<1>3. CASE Goto(h, "lookup")
  BY ZenonT(100), <1>1, <1>3, GotoLife, Pcs DEF RejectDuplicate, Holding, Connected
<1> QED
  BY ZenonT(100), <1>2, <1>3 DEF RejectDuplicate

\* The entry a lookup finds has the id that was looked up.
LEMMA LookupLife ==
  ASSUME IInv, LInv, NEW h \in Handlers, Lookup(h)
  PROVE  LInv'
<1>1. PICK i : i = jobs[handler[h].id]
  BY Zenon
<1>2. JobsKept /\ handler[h].pc = "lookup" /\ handler[h].pc \notin Removing
  BY Zenon DEF JobsKept, Lookup, Removing
<1>3. CASE i # NoInst /\ handler' = [handler EXCEPT ![h].pc = "connect", ![h].inst = i]
  <2> DEFINE f == Locals("connect", handler[h].mode, handler[h].id, i, handler[h].wake)
  <2>1. i \in Insts /\ job[i].id = handler[h].id
    BY Zenon, <1>1, <1>3, Typed DEF LInv, TableIds
  <2>2. HandlerTo(h, f)
    BY <1>3, <2>1, FindEffect, Pcs, Shapes, ZenonT(100)
  <2>3. f.pc = "connect" /\ f.mode = handler[h].mode /\ f.id = handler[h].id /\ f.inst = i
    BY Zenon DEF Locals
  <2> HIDE DEF f
  <2>4. Own(f)
    BY Zenon, <2>1, <2>3 DEF LInv, HandlersOwn, Own
  <2>5. Carries(h, f)
    BY ZenonT(100), <1>2, <2>1, <2>3, <2>4 DEF Carries, Reserves
  <2> QED
    BY ZenonT(100), <1>2, <2>2, <2>5, HandlerLife DEF Lookup
<1>4. CASE Goto(h, "claim")
  BY ZenonT(100), <1>2, <1>4, GotoLife, Pcs DEF Lookup, Holding, Connected
<1>5. CASE Return(h)
  BY ZenonT(100), <1>2, <1>5, ReturnLife DEF Lookup
<1> QED
  BY ZenonT(100), <1>1, <1>3, <1>4, <1>5 DEF Lookup

\* The fields the invariant speaks of are not those pollers change.
LEMMA PollerKeeps ==
  ASSUME NEW i \in Insts, NEW r, NEW s, NEW n, NEW t,
         JobTo(i, Fields(job[i].id, job[i].enforced, r, job[i].persisted, s, n, t))
  PROVE  JobsKept
  BY DEF JobTo, Fields, JobsKept

\* Connect keeps the job.
LEMMA ConnectLife ==
  ASSUME IInv, LInv, NEW h \in Handlers, Connect(h)
  PROVE  LInv'
<1> DEFINE f == Locals("take", handler[h].mode, handler[h].id, handler[h].inst, "armed")
<1>1. handler[h].inst \in Insts /\ handler[h].pc = "connect" /\ "connect" \in Holding
  BY Zenon, Typed DEF Connect, Holding
<1>2. HandlerTo(h, f)
  BY ArmEffect, Pcs, Shapes, Zenon DEF Connect
<1>3. JobsKept
  BY ZenonT(100), <1>1, PollersUpEffect, PollerKeeps, Shapes DEF Connect
<1>4. /\ f.pc = "take" /\ f.mode = handler[h].mode /\ f.id = handler[h].id
      /\ f.inst = handler[h].inst
  BY Zenon DEF Locals
<1> HIDE DEF f
<1>5. Own(f)
  BY Zenon, <1>1, <1>4 DEF LInv, HandlersOwn, Own
<1>6. Carries(h, f)
  BY ZenonT(100), <1>1, <1>4, <1>5 DEF Carries, Reserves, Removing
<1> QED
  BY ZenonT(100), <1>2, <1>3, <1>6, HandlerLife DEF Connect

\* A result is taken only after it was published.
LEMMA InspectLife ==
  ASSUME IInv, LInv, NEW h \in Handlers, Inspect(h)
  PROVE  LInv'
<1>1. PICK i \in Insts : i = handler[h].inst
  BY Zenon, Typed DEF Inspect, Holding, Connected
<1>2. handler[h].pc \in {"take", "retake"} /\ UNCHANGED <<jobs, runner, sweeper, store, cleanup>>
  BY Zenon DEF Inspect
<1>3. CASE Takes(h)
  <2>1. job' = [job EXCEPT ![i].result = "none"] /\ Goto(h, "remove")
    BY Zenon, <1>1, <1>3 DEF Inspect
  <2>2. JobsKept
    BY ZenonT(100), <2>1, TakenEffect, PollerKeeps, Shapes
  <2>3. runner[i] \in Published
    BY Zenon, <1>1, <1>3 DEF Takes, IInv, SlotEmptyBefore
  <2> QED
    BY ZenonT(100), <1>1, <1>2, <2>1, <2>2, <2>3, GotoLife, Pcs DEF Holding, Connected, Removing
<1>4. CASE ~Takes(h)
  <2>1. JobsKept /\ (Goto(h, "disconnect") \/ Goto(h, "wait"))
    BY Zenon, <1>4 DEF Inspect, JobsKept
  <2> QED
    BY ZenonT(100), <1>2, <2>1, GotoLife, Pcs DEF Holding, Connected, Removing
<1> QED
  BY Zenon, <1>3, <1>4

\* A woken handler keeps its job.
LEMMA WakeLife ==
  ASSUME IInv, LInv, NEW h \in Handlers, Wake(h)
  PROVE  LInv'
<1> DEFINE f == Locals("take", handler[h].mode, handler[h].id, handler[h].inst, "armed")
<1>1. JobsKept /\ handler[h].pc = "wait" /\ UNCHANGED <<jobs, runner, sweeper, store, cleanup>>
  BY Zenon DEF JobsKept, Wake
<1>2. CASE handler' = [handler EXCEPT ![h].pc = "take", ![h].wake = "armed"]
  <2>1. HandlerTo(h, f)
    BY <1>2, ArmEffect, Pcs, Shapes, ZenonT(100)
  <2>2. /\ f.pc = "take" /\ f.mode = handler[h].mode /\ f.id = handler[h].id
        /\ f.inst = handler[h].inst
    BY Zenon DEF Locals
  <2> HIDE DEF f
  <2>3. Own(f)
    BY Zenon, <1>1, <2>2 DEF LInv, HandlersOwn, Own, Holding, Connected
  <2>4. Carries(h, f)
    BY ZenonT(100), <1>1, <2>2, <2>3, Typed DEF Carries, Reserves, Removing, Holding, Connected
  <2> QED
    BY ZenonT(100), <1>1, <2>1, <2>4, HandlerLife
<1>3. CASE Goto(h, "retake")
  BY ZenonT(100), <1>1, <1>3, GotoLife, Pcs DEF Holding, Connected, Removing
<1> QED
  BY Zenon, <1>2, <1>3 DEF Wake, Goto

\* The end of a wait and the decrement after a removal.
LEMMA TimeOutLife ==
  ASSUME IInv, LInv, NEW h \in Handlers, TimeOut(h) \/ Decrement(h)
  PROVE  LInv'
<1>1. JobsKept /\ UNCHANGED <<jobs, runner, sweeper, store, cleanup>>
  BY Zenon DEF JobsKept, TimeOut, Decrement
<1>2. CASE TimeOut(h)
  BY ZenonT(100), <1>1, <1>2, GotoLife, Pcs DEF TimeOut, Holding, Connected, Removing
<1>3. CASE Decrement(h)
  BY ZenonT(100), <1>1, <1>3, GotoLife, Pcs DEF Decrement, Holding, Connected, Removing
<1> QED
  BY Zenon, <1>2, <1>3

\* The dropped guard changes the poller count and the deadline.
LEMMA DisconnectLife ==
  ASSUME IInv, LInv, NEW h \in Handlers, Disconnect(h)
  PROVE  LInv'
<1>1. PICK i \in Insts : i = handler[h].inst
  BY Zenon, Typed DEF Disconnect, Holding, Connected
<1>2. job' = [job EXCEPT ![i].grace = TRUE, ![i].pollers = @ - 1]
  BY Zenon, <1>1 DEF Disconnect
<1>3. JobsKept
  BY ZenonT(100), <1>2, Shapes DEF JobsKept, JobOK, JobFields
<1> QED
  BY ZenonT(100), <1>3, ReturnLife DEF Disconnect, Removing

\* A claim finds the record of an id of which there was a job.
LEMMA ClaimLife ==
  ASSUME IInv, LInv, NEW h \in Handlers, Claim(h)
  PROVE  LInv'
<1>1. JobsKept /\ handler[h].pc = "claim" /\ UNCHANGED <<jobs, runner, sweeper, store, cleanup>>
  BY Zenon DEF JobsKept, Claim
<1>2. CASE handler[h].id \in store /\ handler' = [handler EXCEPT ![h].pc = "bypass", ![h].mode = "repoll"]
  <2> DEFINE f == Locals("bypass", "repoll", handler[h].id, handler[h].inst, handler[h].wake)
  <2>1. HandlerTo(h, f)
    BY <1>2, ModeEffect, Pcs, Shapes, ZenonT(100)
  <2>2. f.pc = "bypass" /\ f.mode = "repoll" /\ f.id = handler[h].id
    BY Zenon DEF Locals
  <2> HIDE DEF f
  <2>3. Carries(h, f)
    BY ZenonT(100), <1>1, <1>2, <2>2 DEF Carries, Own, Reserves, Removing, Holding, Connected, LInv, RecordBorn
  <2> QED
    BY ZenonT(100), <1>1, <2>1, <2>3, HandlerLife
<1>3. CASE Return(h)
  BY Zenon, <1>1, <1>3, ReturnLife DEF Removing
<1> QED
  BY Zenon, <1>2, <1>3 DEF Claim

-----------------------------------------------------------------------------
(* The steps that change the table or the cleanup channel *)

\* remove_job evicts no submitted job that runs, since the result it follows was
\* that of another job of the same id; and it remembers the id.
LEMMA RemoveJobLife ==
  ASSUME IInv, LInv, NEW h \in Handlers, RemoveJob(h)
  PROVE  LInv'
<1>1. PICK id \in Ids : id = handler[h].id
  BY Zenon, Typed
<1>2. PICK p \in {"decrement", "cleanup"} : Goto(h, p)
  BY Zenon DEF RemoveJob
<1>3. HandlerTo(h, After(h, p))
  BY ZenonT(100), <1>2, GotoEffect, Shapes, Pcs
<1>4. /\ handler'[h].pc = p /\ handler'[h].mode = handler[h].mode /\ handler'[h].id = id
      /\ handler'[h].inst = handler[h].inst
      /\ \A k \in Handlers : k # h => handler'[k] = handler[k]
  BY SMTT(60), <1>1, <1>3 DEF HandlerTo, After, Locals
<1>5. /\ jobs'[id] = NoInst /\ \A d \in Ids : d # id => jobs'[d] = jobs[d]
      /\ handler[h].pc = "remove"
      /\ UNCHANGED <<job, runner, sweeper, store, cleanup>>
  BY Zenon, <1>1, Typed DEF RemoveJob
<1>6. TableIds' /\ FirstAlone' /\ RecordBorn' /\ AllFlagged' /\ SweeperHolds'
  BY ZenonT(100), <1>5 DEF LInv, TableIds, FirstAlone, RecordBorn, AllFlagged, Flagged, SweeperHolds, Born
<1>7. RunningStaysInTable'
  <2> SUFFICES ASSUME NEW i \in Insts, runner[i] \in Running, job[i].enforced, job[i].id = id
               PROVE  FALSE
    BY ZenonT(100), <1>5, Typed DEF LInv, RunningStaysInTable
  <2>1. /\ handler[h].inst \in Insts /\ Born(handler[h].inst) /\ job[handler[h].inst].id = id
        /\ runner[handler[h].inst] \in Published
    BY ZenonT(100), <1>1, <1>5, Typed DEF LInv, HandlersOwn, Own, Holding, Connected
  <2>2. handler[h].inst = i
    BY ZenonT(100), <2>1 DEF LInv, FirstAlone
  <2> QED
    BY Zenon, <2>1, <2>2 DEF Running, Published
<1>8. HandlersOwn'
  <2> SUFFICES ASSUME NEW k \in Handlers PROVE Own(handler[k])'
    BY Zenon DEF HandlersOwn
  <2>1. Own(handler[k])
    BY ZenonT(100) DEF LInv, HandlersOwn
  <2> QED
    BY SMTT(60), <1>1, <1>4, <1>5, <2>1 DEF Own, Born, Holding, Connected
<1>9. ReservedFresh'
  BY SMTT(60), <1>4, <1>5 DEF LInv, ReservedFresh, Reserves, Born
<1>10. RecordAccounted'
  <2> SUFFICES ASSUME NEW d \in store \ Flaky
               PROVE  \/ jobs'[d] # NoInst
                      \/ \E n \in 1..Len(cleanup) : cleanup[n] = d
                      \/ \E k \in Handlers : handler'[k].id = d /\ handler'[k].pc \in Removing
                      \/ (sweeper.pc \in {"decrement", "delete"} /\ job[sweeper.inst].id = d)
    BY ZenonT(100), <1>5 DEF RecordAccounted, Removing
  <2>1. handler'[h].id = id /\ handler'[h].pc \in Removing
    BY Zenon, <1>4 DEF Removing
  <2>2. CASE d = id
    BY Zenon, <2>1, <2>2
  <2>3. CASE d # id
    <3>1. d \in Ids /\ jobs'[d] = jobs[d]
      BY ZenonT(100), <1>5, <2>3, Typed
    <3>2. \A k \in Handlers : handler[k].id = d => handler'[k] = handler[k]
      BY ZenonT(100), <1>1, <1>4, <2>3
    <3> QED
      BY ZenonT(100), <3>1, <3>2 DEF LInv, RecordAccounted, Removing
  <2> QED
    BY Zenon, <2>2, <2>3
<1> QED
  BY ZenonT(100), <1>6, <1>7, <1>8, <1>9, <1>10 DEF LInv

\* An id that leaves the handler's hands while it has a record goes into the
\* channel of the cleanup worker, because the persisted flag is set.
LEMMA ScheduleCleanupLife ==
  ASSUME IInv, LInv, NEW h \in Handlers, ScheduleCleanup(h)
  PROVE  LInv'
<1>1. PICK id \in Ids : id = handler[h].id
  BY Zenon, Typed
<1>2. HandlerTo(h, After(h, "disconnect"))
  BY ZenonT(100), GotoEffect, Shapes, Pcs DEF ScheduleCleanup
<1>3. /\ handler'[h].pc = "disconnect" /\ handler'[h].mode = handler[h].mode /\ handler'[h].id = id
      /\ handler'[h].inst = handler[h].inst
      /\ \A k \in Handlers : k # h => handler'[k] = handler[k]
  BY SMTT(60), <1>1, <1>2 DEF HandlerTo, After, Locals
<1>4. handler[h].pc = "cleanup" /\ UNCHANGED <<jobs, job, runner, sweeper, store>>
  BY Zenon DEF ScheduleCleanup
<1>5. TableIds' /\ FirstAlone' /\ RunningStaysInTable' /\ RecordBorn' /\ AllFlagged' /\ SweeperHolds'
  BY Zenon, <1>4 DEF LInv, TableIds, FirstAlone, RunningStaysInTable, RecordBorn, AllFlagged, Flagged,
     SweeperHolds, Born
<1>6. HandlersOwn'
  <2> SUFFICES ASSUME NEW k \in Handlers PROVE Own(handler[k])'
    BY Zenon DEF HandlersOwn
  <2>1. Own(handler[k])
    BY Zenon DEF LInv, HandlersOwn
  <2> QED
    BY ZenonT(100), <1>1, <1>3, <1>4, <2>1 DEF Own, Born, Holding, Connected
<1>7. ReservedFresh'
  BY SMTT(60), <1>3, <1>4 DEF LInv, ReservedFresh, Reserves, Born
<1>8. /\ \A n \in 1..Len(cleanup) : n \in 1..Len(cleanup') /\ cleanup'[n] = cleanup[n]
      /\ id \in store \ Flaky => \E n \in 1..Len(cleanup') : cleanup'[n] = id
  <2>1. /\ cleanup \in Seq(Ids)
        /\ cleanup' = IF job[handler[h].inst].persisted THEN Append(cleanup, id) ELSE cleanup
    BY Zenon, <1>1, Typed DEF ScheduleCleanup
  <2>2. id \in store \ Flaky => job[handler[h].inst].persisted
    <3>1. handler[h].inst \in Insts /\ Born(handler[h].inst) /\ job[handler[h].inst].id = id
      BY ZenonT(100), <1>1, <1>4, Typed DEF LInv, HandlersOwn, Own, Holding, Connected
    <3> QED
      BY Zenon, <3>1 DEF LInv, AllFlagged, Flagged
  <2>3. CASE job[handler[h].inst].persisted
    <3>1. cleanup' = Append(cleanup, id)
      BY ZenonT(100), <2>1, <2>3
    <3>2. /\ Len(cleanup') = Len(cleanup) + 1 /\ Len(cleanup) \in Nat
          /\ cleanup'[Len(cleanup) + 1] = id
          /\ \A n \in 1..Len(cleanup) : cleanup'[n] = cleanup[n]
      BY SMTT(60), <2>1, <3>1
    <3>3. Len(cleanup) + 1 \in 1..Len(cleanup')
      BY SMTT(60), <3>2
    <3> QED
      BY SMTT(60), <3>2, <3>3
  <2> QED
    BY ZenonT(100), <2>1, <2>2, <2>3
<1>9. RecordAccounted'
  BY SMTT(60), <1>1, <1>3, <1>4, <1>8 DEF LInv, RecordAccounted
<1> QED
  BY ZenonT(100), <1>5, <1>6, <1>7, <1>9 DEF LInv

\* Accept makes the first job of a reserved id, or a recovered one where no job
\* of the id is in the table; no submitted job of that id runs in either case.
LEMMA AcceptLife ==
  ASSUME IInv, LInv, NEW h \in Handlers, NEW i \in Insts, Accept(h, i)
  PROVE  LInv'
<1>1. PICK id \in Ids : id = handler[h].id
  BY Zenon, Typed
<1>2. HandlerTo(h, After(h, "lookup"))
  BY ZenonT(100), GotoEffect, Shapes, Pcs DEF Accept
<1>3. /\ handler'[h].pc = "lookup" /\ handler'[h].mode = handler[h].mode /\ handler'[h].id = id
      /\ \A k \in Handlers : k # h => handler'[k] = handler[k]
  BY SMTT(60), <1>1, <1>2 DEF HandlerTo, After, Locals
<1>4. /\ handler[h].pc = "insert" /\ jobs[id] = NoInst /\ runner[i] = "unborn"
      /\ UNCHANGED <<sweeper, store, cleanup>>
  BY Zenon, <1>1 DEF Accept
<1>5. jobs'[id] = i /\ i # NoInst /\ \A d \in Ids : d # id => jobs'[d] = jobs[d]
  BY ZenonT(100), <1>1, Typed, TableAssumption DEF Accept
<1>6. runner'[i] = "run" /\ \A k \in Insts : k # i => runner'[k] = runner[k]
  BY Zenon, Typed DEF Accept
<1>7. /\ job'[i].id = id /\ job'[i].enforced = (handler[h].mode = "submit")
      /\ job'[i].persisted = (handler[h].mode = "repoll")
      /\ \A k \in Insts : k # i => job'[k] = job[k]
  BY Zenon, <1>1, Shapes DEF Accept, JobOK
<1>8. handler[h].mode \in {"submit", "repoll"}
  BY Zenon, <1>4 DEF LInv, HandlersOwn, Own
<1>9. \A k \in Insts : Born(k) => k # i /\ Born(k)' /\ job'[k] = job[k] /\ runner'[k] = runner[k]
  BY ZenonT(100), <1>4, <1>6, <1>7 DEF Born
<1>10. \A k \in Insts : Born(k)' => k = i \/ Born(k)
  BY Zenon, <1>6 DEF Born
<1>11. Born(i)'
  BY Zenon, <1>6 DEF Born
<1>12. handler[h].mode = "submit" => \A k \in Insts : Born(k) => job[k].id # id
  BY ZenonT(100), <1>1, <1>4 DEF LInv, ReservedFresh, Reserves
<1>13. TableIds'
  BY SMTT(60), <1>5, <1>7, <1>9, Typed DEF LInv, TableIds
<1>14. HandlersOwn'
  <2> SUFFICES ASSUME NEW k \in Handlers PROVE Own(handler[k])'
    BY Zenon DEF HandlersOwn
  <2>1. Own(handler[k]) /\ (handler[k].pc \in Holding => handler[k].inst \in Insts /\ Born(handler[k].inst))
    BY Zenon, Typed DEF LInv, HandlersOwn
  <2>2. CASE k = h
    BY ZenonT(100), <1>3, <1>7, <1>11, <2>2 DEF Own, Holding, Connected
  <2>3. CASE k # h
    <3>1. handler'[k] = handler[k]
      BY ZenonT(100), <1>3, <2>3
    <3>2. (\E l \in Insts : Born(l) /\ job[l].id = handler[k].id)
            => \E l \in Insts : Born(l)' /\ job'[l].id = handler[k].id
      BY Zenon, <1>9
    <3>3. "remove" \in Holding
      BY Zenon DEF Holding, Connected
    <3> QED
      BY ZenonT(100), <1>9, <2>1, <3>1, <3>2, <3>3 DEF Own
  <2> QED
    BY Zenon, <2>2, <2>3
<1>15. ReservedFresh'
  <2> SUFFICES ASSUME NEW k \in Handlers, NEW d \in Ids, Reserves(handler'[k], d)
               PROVE  /\ \A l \in Insts : Born(l)' => job'[l].id # d
                      /\ \A l \in Handlers : Reserves(handler'[l], d) => l = k
    BY Zenon DEF ReservedFresh, Reserves
  <2>1. \A l \in Handlers : Reserves(handler'[l], d) => l # h /\ Reserves(handler[l], d)
    BY Zenon, <1>3 DEF Reserves
  <2>2. /\ \A l \in Insts : Born(l) => job[l].id # d
        /\ \A l \in Handlers : Reserves(handler[l], d) => l = k
    BY Zenon, <2>1 DEF LInv, ReservedFresh
  <2>3. d # id
    <3>1. CASE handler[h].mode = "submit"
      BY ZenonT(100), <1>1, <1>4, <2>1, <2>2, <3>1 DEF Reserves
    <3>2. CASE handler[h].mode = "repoll"
      <4>1. \E l \in Insts : Born(l) /\ job[l].id = id
        BY ZenonT(100), <1>1, <3>2 DEF LInv, HandlersOwn, Own
      <4> QED
        BY ZenonT(100), <2>2, <4>1
    <3> QED
      BY ZenonT(100), <1>8, <3>1, <3>2
  <2> QED
    BY ZenonT(100), <1>7, <1>9, <1>10, <2>1, <2>2, <2>3
<1>16. \A k \in Insts : runner[k] \in Running /\ job[k].enforced => Born(k) /\ job[k].id # id
  <2> SUFFICES ASSUME NEW k \in Insts, runner[k] \in Running, job[k].enforced, job[k].id = id
               PROVE  FALSE
    BY Zenon DEF Born, Running
  <2>1. jobs[id] = k
    BY Zenon DEF LInv, RunningStaysInTable
  <2> QED
    BY ZenonT(100), <1>4, <2>1, TableAssumption
<1>17. FirstAlone'
  <2> SUFFICES ASSUME NEW k \in Insts, NEW l \in Insts, runner'[k] \in Running, job'[k].enforced,
                      Born(l)', job'[l].id = job'[k].id
               PROVE  l = k
    BY Zenon DEF FirstAlone, Born
  <2>1. CASE k = i
    BY ZenonT(100), <1>7, <1>9, <1>10, <1>12, <2>1
  <2>2. CASE k # i
    <3>1. runner[k] \in Running /\ job[k].enforced /\ job'[k].id = job[k].id
      BY ZenonT(100), <1>6, <1>7, <2>2
    <3>2. l # i
      BY ZenonT(100), <1>7, <1>16, <3>1
    <3> QED
      BY ZenonT(100), <1>9, <1>10, <3>1, <3>2 DEF LInv, FirstAlone
  <2> QED
    BY ZenonT(100), <2>1, <2>2
<1>18. RunningStaysInTable'
  BY SMTT(60), <1>5, <1>6, <1>7, <1>16, Typed DEF LInv, RunningStaysInTable
<1>19. RecordBorn'
  BY ZenonT(100), <1>4, <1>9 DEF LInv, RecordBorn
<1>20. AllFlagged'
  <2> SUFFICES ASSUME NEW k \in Insts PROVE Flagged(k)'
    BY Zenon DEF AllFlagged
  <2>1. CASE k = i
    <3>1. handler[h].mode = "submit" => id \notin store
      BY Zenon, <1>12 DEF LInv, RecordBorn
    <3> QED
      BY ZenonT(100), <1>4, <1>6, <1>7, <1>8, <2>1, <3>1 DEF Flagged
  <2>2. CASE k # i
    <3>1. Flagged(k)
      BY Zenon DEF LInv, AllFlagged
    <3> QED
      BY ZenonT(100), <1>4, <1>6, <1>7, <2>2, <3>1 DEF Flagged, Born
  <2> QED
    BY Zenon, <2>1, <2>2
<1>21. SweeperHolds'
  BY Zenon, <1>4, <1>9 DEF LInv, SweeperHolds
<1>22. RecordAccounted'
  <2> SUFFICES ASSUME NEW d \in store \ Flaky
               PROVE  \/ jobs'[d] # NoInst
                      \/ \E n \in 1..Len(cleanup) : cleanup[n] = d
                      \/ \E k \in Handlers : handler'[k].id = d /\ handler'[k].pc \in Removing
                      \/ (sweeper.pc \in {"decrement", "delete"} /\ job'[sweeper.inst].id = d)
    BY ZenonT(60), <1>4 DEF RecordAccounted, Removing
  <2>1. jobs[d] # NoInst => jobs'[d] # NoInst
    BY ZenonT(100), <1>5, Typed
  <2>2. \A k \in Handlers : handler[k].pc \in Removing => handler'[k] = handler[k]
    BY Zenon, <1>3, <1>4 DEF Removing
  <2>3. sweeper.pc \in {"decrement", "delete"} => job'[sweeper.inst] = job[sweeper.inst]
    BY Zenon, <1>9 DEF LInv, SweeperHolds
  <2> QED
    BY ZenonT(100), <2>1, <2>2, <2>3 DEF LInv, RecordAccounted, Removing
<1> QED
  BY ZenonT(100), <1>13, <1>14, <1>15, <1>17, <1>18, <1>19, <1>20, <1>21, <1>22 DEF LInv

-----------------------------------------------------------------------------
(* The steps of tasks and of time *)

\* A notification leaves a handler where it is.
LEMMA WokenKeeps ==
  ASSUME HandlerOK, NEW i \in Insts, handler' = Woken(i)
  PROVE  \A h \in Handlers :
           /\ handler'[h].pc = handler[h].pc /\ handler'[h].mode = handler[h].mode
           /\ handler'[h].id = handler[h].id /\ handler'[h].inst = handler[h].inst
  BY Zenon DEF Woken, HandlerOK, HandlerFields

\* The status, the result and the deadline of a job are not the invariant's concern.
LEMMA TaskKeeps ==
  ASSUME JobOK, NEW i \in Insts, NEW x,
         \/ job' = [job EXCEPT ![i].status = x]
         \/ job' = [job EXCEPT ![i].result = x]
         \/ job' = [job EXCEPT ![i].grace = x]
  PROVE  JobsKept
  BY DEF JobsKept, JobOK, JobFields

\* Every step of a task but the durable write, and the passing of the deadline.
LEMMA RunnerLife ==
  ASSUME IInv, LInv, NEW i \in Insts,
         \/ MarkProcessing(i) \/ NotifyProcessing(i) \/ PersistTimer(i) \/ NotifyResult(i)
         \/ GraceExpires(i) \/ \E r \in {"ok", "fail"} : Publish(i, r)
  PROVE  LInv'
<1>1. \A k \in Insts : runner[k] = "upsert" => ~job[k].persisted
  BY Zenon DEF LInv, AllFlagged, Flagged
<1>2. JobOK /\ HandlerOK /\ runner \in [Insts -> RunnerPc]
  BY Zenon, Shapes
<1>3. CASE MarkProcessing(i) \/ GraceExpires(i)
  <2>1. JobsKept /\ UNCHANGED <<jobs, runner, handler, sweeper, store, cleanup>>
    BY ZenonT(100), <1>2, <1>3, TaskKeeps DEF MarkProcessing, GraceExpires
  <2> QED
    BY ZenonT(100), <1>1, <2>1, TaskLife
<1>4. CASE NotifyProcessing(i)
  <2>1. JobsKept /\ UNCHANGED <<jobs, runner, sweeper, store, cleanup>> /\ handler' = Woken(i)
    BY ZenonT(100), <1>2, <1>4, TaskKeeps DEF NotifyProcessing
  <2> QED
    BY ZenonT(100), <1>1, <1>2, <2>1, TaskLife, WokenKeeps
<1>5. CASE PersistTimer(i)
  <2>1. JobsKept /\ UNCHANGED <<jobs, handler, sweeper, store, cleanup>>
    BY Zenon, <1>5 DEF PersistTimer, JobsKept
  <2>2. \A k \in Insts :
          /\ runner'[k] = "unborn" <=> runner[k] = "unborn"
          /\ runner'[k] \in Running => runner[k] \in Running
          /\ runner[k] \in Published => runner'[k] \in Published
          /\ runner'[k] = "upsert" => ~job[k].persisted
    BY ZenonT(100), <1>1, <1>2, <1>5 DEF PersistTimer, Running, Published
  <2> QED
    BY ZenonT(100), <2>1, <2>2, TaskLife
<1>6. CASE NotifyResult(i)
  <2>1. JobsKept /\ UNCHANGED <<jobs, sweeper, store, cleanup>> /\ handler' = Woken(i)
    BY Zenon, <1>6 DEF NotifyResult, JobsKept
  <2>2. \A k \in Insts :
          /\ runner'[k] = "unborn" <=> runner[k] = "unborn"
          /\ runner'[k] \in Running => runner[k] \in Running
          /\ runner[k] \in Published => runner'[k] \in Published
          /\ runner'[k] = "upsert" => ~job[k].persisted
    BY ZenonT(100), <1>1, <1>2, <1>6 DEF NotifyResult, Running, Published
  <2> QED
    BY ZenonT(100), <1>2, <2>1, <2>2, TaskLife, WokenKeeps
<1>7. CASE \E r \in {"ok", "fail"} : Publish(i, r)
  <2>1. JobsKept /\ UNCHANGED <<jobs, handler, sweeper, store, cleanup>>
    BY ZenonT(100), <1>2, <1>7, TaskKeeps DEF Publish
  <2>2. \A k \in Insts :
          /\ runner'[k] = "unborn" <=> runner[k] = "unborn"
          /\ runner'[k] \in Running => runner[k] \in Running
          /\ runner[k] \in Published => runner'[k] \in Published
          /\ runner'[k] = "upsert" => ~job[k].persisted
    BY ZenonT(100), <1>1, <1>2, <1>7 DEF Publish, Running, Published
  <2> QED
    BY Zenon, <2>1, <2>2, TaskLife
<1> QED
  BY ZenonT(100), <1>3, <1>4, <1>5, <1>6, <1>7

\* The durable write: the job that writes is a submitted one, so it is in the
\* table and alone with its id, and a write that succeeds sets its flag.
LEMMA UpsertLife ==
  ASSUME IInv, LInv, NEW i \in Insts, Upsert(i)
  PROVE  LInv'
<1>1. PICK id \in Ids : id = job[i].id
  BY Zenon, Typed
<1>2. /\ runner[i] = "upsert" /\ runner'[i] = "late"
      /\ \A k \in Insts : k # i => runner'[k] = runner[k]
      /\ UNCHANGED <<jobs, handler, sweeper, cleanup>>
  BY Zenon, Typed DEF Upsert
<1>3. runner[i] \in Running /\ Born(i) /\ job[i].enforced /\ jobs[id] = i /\ i # NoInst
  <2>1. runner[i] \in Running /\ Born(i)
    BY Zenon, <1>2 DEF Running, Born
  <2>2. job[i].enforced
    BY Zenon, <1>2, <2>1 DEF LInv, AllFlagged, Flagged
  <2> QED
    BY ZenonT(100), <1>1, <2>1, <2>2, TableAssumption DEF LInv, RunningStaysInTable
<1>4. \A k \in Insts : Born(k) /\ job[k].id = id => k = i
  BY ZenonT(100), <1>1, <1>3 DEF LInv, FirstAlone
<1>5. \A k \in Insts : /\ job'[k].id = job[k].id /\ job'[k].enforced = job[k].enforced
                       /\ k # i => job'[k].persisted = job[k].persisted
  BY SMTT(60), Shapes DEF Upsert, JobOK, JobFields
<1>6. /\ store' \subseteq store \cup {id}
      /\ id \notin Flaky => job'[i].persisted
  BY ZenonT(100), <1>1, Shapes DEF Upsert, JobOK, JobFields
<1>7. job'[i].persisted \/ id \in Flaky
  BY Zenon, <1>6
<1>8. \A k \in Insts : (Born(k) => Born(k)') /\ (Born(k)' => Born(k))
  BY Zenon, <1>2, <1>3 DEF Born
<1>9. \A k \in Insts : runner'[k] \in Running <=> runner[k] \in Running
  BY ZenonT(100), <1>2, <1>3 DEF Running
<1>10. TableIds' /\ FirstAlone' /\ RunningStaysInTable' /\ SweeperHolds'
  BY SMTT(60), <1>2, <1>5, <1>8, <1>9, Typed DEF LInv, TableIds, FirstAlone, RunningStaysInTable, SweeperHolds
<1>11. HandlersOwn'
  <2> SUFFICES ASSUME NEW k \in Handlers PROVE Own(handler[k])'
    BY Zenon DEF HandlersOwn
  <2>1. Own(handler[k]) /\ (handler[k].pc \in Holding => handler[k].inst \in Insts) /\ "remove" \in Holding
    BY Zenon, Typed DEF LInv, HandlersOwn, Holding, Connected
  <2>2. \A l \in Insts : runner[l] \in Published => runner'[l] \in Published
    BY ZenonT(100), <1>2 DEF Published
  <2> QED
    BY ZenonT(100), <1>2, <1>5, <1>8, <2>1, <2>2 DEF Own
<1>12. ReservedFresh'
  BY SMTT(60), <1>2, <1>5, <1>8 DEF LInv, ReservedFresh
<1>13. RecordBorn'
  BY SMTT(60), <1>1, <1>3, <1>5, <1>6, <1>8 DEF LInv, RecordBorn
<1>14. AllFlagged'
  <2> SUFFICES ASSUME NEW k \in Insts PROVE Flagged(k)'
    BY Zenon DEF AllFlagged
  <2>1. Flagged(k)
    BY Zenon DEF LInv, AllFlagged
  <2>2. CASE k = i
    BY ZenonT(100), <1>1, <1>2, <1>3, <1>5, <1>7, <2>2 DEF Flagged
  <2>3. CASE k # i
    <3>1. Born(k) => job[k].id # id
      BY Zenon, <1>4, <2>3
    <3> QED
      BY ZenonT(100), <1>2, <1>5, <1>6, <1>8, <2>1, <2>3, <3>1 DEF Flagged
  <2> QED
    BY Zenon, <2>2, <2>3
<1>15. RecordAccounted'
  <2> SUFFICES ASSUME NEW d \in store' \ Flaky
               PROVE  \/ jobs[d] # NoInst
                      \/ \E n \in 1..Len(cleanup) : cleanup[n] = d
                      \/ \E k \in Handlers : handler[k].id = d /\ handler[k].pc \in Removing
                      \/ (sweeper.pc \in {"decrement", "delete"} /\ job'[sweeper.inst].id = d)
    BY Zenon, <1>2 DEF RecordAccounted, Removing
  <2>1. CASE d = id
    BY Zenon, <1>3, <2>1
  <2>2. CASE d # id
    BY ZenonT(100), <1>5, <1>6, <2>2 DEF LInv, RecordAccounted, Removing, SweeperHolds
  <2> QED
    BY Zenon, <2>1, <2>2
<1> QED
  BY ZenonT(100), <1>10, <1>11, <1>12, <1>13, <1>14, <1>15 DEF LInv

-----------------------------------------------------------------------------
(* The maintenance threads *)

\* A step that changes no job, no task and no handler.
LEMMA MaintenanceLife ==
  ASSUME IInv, LInv, UNCHANGED <<job, runner, handler>>, store' \subseteq store,
         TableIds', RunningStaysInTable', SweeperHolds', RecordAccounted'
  PROVE  LInv'
<1>1. HandlersOwn' /\ ReservedFresh' /\ FirstAlone'
  BY Zenon DEF LInv, HandlersOwn, Own, ReservedFresh, FirstAlone, Born
<1>2. RecordBorn' /\ AllFlagged'
  BY Zenon DEF LInv, RecordBorn, AllFlagged, Flagged, Born
<1> QED
  BY Zenon, <1>1, <1>2 DEF LInv

\* The scan removes nothing.
LEMMA SweepScanLife ==
  ASSUME IInv, LInv, SweepScan
  PROVE  LInv'
<1>1. /\ UNCHANGED <<jobs, job, runner, handler, store, cleanup>>
      /\ sweeper.pc = "sleep" /\ sweeper'.pc = "remove"
  BY Zenon, Shapes DEF SweepScan, SweeperFields
<1>2. TableIds' /\ RunningStaysInTable' /\ SweeperHolds'
  BY Zenon, <1>1 DEF LInv, TableIds, RunningStaysInTable, SweeperHolds
<1>3. RecordAccounted'
  BY ZenonT(100), <1>1 DEF LInv, RecordAccounted
<1> QED
  BY ZenonT(100), <1>1, <1>2, <1>3, MaintenanceLife

\* After an id the sweeper holds no job.
LEMMA AfterIdPc ==
  ASSUME NEW id
  PROVE  AfterId(id).pc \notin {"decrement", "delete"}
  BY Zenon DEF AfterId

\* The sweeper removes finished jobs only, and remembers the one it removed.
LEMMA SweepRemoveLife ==
  ASSUME IInv, LInv, NEW id \in Ids, SweepRemove(id)
  PROVE  LInv'
<1>1. UNCHANGED <<job, runner, handler, store, cleanup>> /\ sweeper.pc = "remove"
  BY Zenon DEF SweepRemove
<1>2. CASE Sweepable(id)
  <2>1. PICK i \in Insts : i = jobs[id] /\ job[i].result # "none" /\ Born(i) /\ job[i].id = id
    BY Zenon, <1>2, Typed DEF Sweepable, LInv, TableIds
  <2>2. /\ jobs'[id] = NoInst /\ \A d \in Ids : d # id => jobs'[d] = jobs[d]
        /\ sweeper'.pc = "decrement" /\ sweeper'.inst = i
    BY ZenonT(100), <1>2, <2>1, Typed, Shapes DEF SweepRemove, SweeperFields
  <2>3. runner[i] \notin Running
    BY Zenon, <2>1 DEF IInv, SlotEmptyBefore, Running, Published
  <2>4. TableIds' /\ SweeperHolds'
    BY ZenonT(100), <1>1, <2>1, <2>2 DEF LInv, TableIds, SweeperHolds, Born
  <2>5. RunningStaysInTable'
    BY ZenonT(100), <1>1, <2>1, <2>2, <2>3, Typed DEF LInv, RunningStaysInTable
  <2>6. RecordAccounted'
    <3> SUFFICES ASSUME NEW d \in store \ Flaky
                 PROVE  \/ jobs'[d] # NoInst
                        \/ \E n \in 1..Len(cleanup) : cleanup[n] = d
                        \/ \E k \in Handlers : handler[k].id = d /\ handler[k].pc \in Removing
                        \/ (sweeper'.pc \in {"decrement", "delete"} /\ job[sweeper'.inst].id = d)
      BY Zenon, <1>1 DEF RecordAccounted, Removing
    <3>1. CASE d = id
      BY ZenonT(100), <2>1, <2>2, <3>1
    <3>2. CASE d # id
      BY ZenonT(100), <1>1, <2>2, <3>2, Typed DEF LInv, RecordAccounted, Removing
    <3> QED
      BY Zenon, <3>1, <3>2
  <2> QED
    BY ZenonT(100), <1>1, <2>4, <2>5, <2>6, MaintenanceLife
<1>3. CASE ~Sweepable(id)
  <2>1. UNCHANGED jobs /\ sweeper'.pc \notin {"decrement", "delete"}
    BY Zenon, <1>3, AfterIdPc DEF SweepRemove
  <2>2. TableIds' /\ RunningStaysInTable' /\ SweeperHolds'
    BY Zenon, <1>1, <2>1 DEF LInv, TableIds, RunningStaysInTable, SweeperHolds
  <2>3. RecordAccounted'
    BY ZenonT(100), <1>1, <2>1 DEF LInv, RecordAccounted
  <2> QED
    BY ZenonT(100), <1>1, <2>2, <2>3, MaintenanceLife
<1> QED
  BY Zenon, <1>2, <1>3

\* A job with a record has its flag set, so the sweeper goes on to delete it.
LEMMA SweepDecrementLife ==
  ASSUME IInv, LInv, SweepDecrement
  PROVE  LInv'
<1>1. UNCHANGED <<jobs, job, runner, handler, store, cleanup>> /\ sweeper.pc = "decrement"
  BY Zenon DEF SweepDecrement
<1>2. PICK i \in Insts : i = sweeper.inst /\ Born(i)
  BY Zenon, <1>1 DEF LInv, SweeperHolds
<1>3. TableIds' /\ RunningStaysInTable'
  BY Zenon, <1>1 DEF LInv, TableIds, RunningStaysInTable
<1>4. CASE job[i].persisted
  <2>1. sweeper'.pc = "delete" /\ sweeper'.inst = i
    BY ZenonT(100), <1>2, <1>4, Shapes DEF SweepDecrement, SweeperFields
  <2>2. SweeperHolds' /\ RecordAccounted'
    BY ZenonT(100), <1>1, <1>2, <2>1 DEF LInv, SweeperHolds, RecordAccounted, Born
  <2> QED
    BY ZenonT(100), <1>1, <1>3, <2>2, MaintenanceLife
<1>5. CASE ~job[i].persisted
  <2>1. sweeper'.pc \notin {"decrement", "delete"}
    BY ZenonT(100), <1>2, <1>5, AfterIdPc DEF SweepDecrement
  <2>2. job[i].id \notin store \ Flaky
    BY Zenon, <1>2, <1>5 DEF LInv, AllFlagged, Flagged
  <2>3. SweeperHolds' /\ RecordAccounted'
    BY ZenonT(100), <1>1, <1>2, <2>1, <2>2 DEF LInv, SweeperHolds, RecordAccounted
  <2> QED
    BY Zenon, <1>1, <1>3, <2>3, MaintenanceLife
<1> QED
  BY Zenon, <1>4, <1>5

\* The sweeper lets go of an id when its record is gone, unless the store failed.
LEMMA SweepDeleteLife ==
  ASSUME IInv, LInv, SweepDelete
  PROVE  LInv'
<1>1. UNCHANGED <<jobs, job, runner, handler, cleanup>> /\ sweeper.pc = "delete"
  BY Zenon DEF SweepDelete
<1>2. PICK id : id = job[sweeper.inst].id
  BY Zenon
<1>3. store' \subseteq store /\ id \notin store' \ Flaky
  BY Zenon, <1>2 DEF SweepDelete, DeleteRecord
<1>4. sweeper'.pc \notin {"decrement", "delete"}
  BY Zenon, AfterIdPc DEF SweepDelete
<1>5. TableIds' /\ RunningStaysInTable' /\ SweeperHolds'
  BY ZenonT(100), <1>1, <1>4 DEF LInv, TableIds, RunningStaysInTable, SweeperHolds
<1>6. RecordAccounted'
  BY ZenonT(100), <1>1, <1>2, <1>3 DEF LInv, RecordAccounted
<1> QED
  BY ZenonT(100), <1>1, <1>3, <1>5, <1>6, MaintenanceLife

\* So does the cleanup worker, and the ids behind it move up.
LEMMA CleanupDeleteLife ==
  ASSUME IInv, LInv, CleanupDelete
  PROVE  LInv'
<1>1. UNCHANGED <<jobs, job, runner, handler, sweeper>>
  BY Zenon DEF CleanupDelete
<1>2. store' \subseteq store /\ Head(cleanup) \notin store' \ Flaky
  BY Zenon DEF CleanupDelete, DeleteRecord
<1>3. TableIds' /\ RunningStaysInTable' /\ SweeperHolds'
  BY Zenon, <1>1 DEF LInv, TableIds, RunningStaysInTable, SweeperHolds, Born
<1>4. \A n \in 1..Len(cleanup) :
        cleanup[n] = Head(cleanup) \/ \E m \in 1..Len(cleanup') : cleanup'[m] = cleanup[n]
  <2>1. cleanup \in Seq(Ids) /\ cleanup # <<>> /\ cleanup' = Tail(cleanup)
    BY Zenon, Typed DEF CleanupDelete
  <2> SUFFICES ASSUME NEW n \in 1..Len(cleanup), n # 1
               PROVE  \E m \in 1..Len(cleanup') : cleanup'[m] = cleanup[n]
    BY <2>1
  <2>2. n - 1 \in 1..Len(cleanup') /\ cleanup'[n - 1] = cleanup[n]
    BY SMTT(60), <2>1
  <2> QED
    BY Zenon, <2>2
<1>5. RecordAccounted'
  <2> SUFFICES ASSUME NEW d \in store' \ Flaky
               PROVE  \/ jobs[d] # NoInst
                      \/ \E n \in 1..Len(cleanup') : cleanup'[n] = d
                      \/ \E k \in Handlers : handler[k].id = d /\ handler[k].pc \in Removing
                      \/ (sweeper.pc \in {"decrement", "delete"} /\ job[sweeper.inst].id = d)
    BY Zenon, <1>1 DEF RecordAccounted, Removing
  <2>1. d \in store \ Flaky /\ d # Head(cleanup)
    BY Zenon, <1>2
  <2> QED
    BY SMTT(60), <1>4, <2>1 DEF LInv, RecordAccounted, Removing
<1> QED
  BY ZenonT(100), <1>1, <1>2, <1>3, <1>5, MaintenanceLife

-----------------------------------------------------------------------------
(* The theorems *)

\* Nothing is in the table and nothing is recorded at the start.
LEMMA InitLife == ASSUME Init PROVE LInv
<1>1. /\ \A h \in Handlers : handler[h].pc = "idle" /\ handler[h].mode = "poll"
      /\ \A i \in Insts : runner[i] = "unborn"
      /\ \A id \in Ids : jobs[id] = NoInst
      /\ store = {} /\ sweeper.pc = "sleep"
  BY Zenon DEF Init, Idle
<1> QED
  BY Zenon, <1>1 DEF LInv, TableIds, HandlersOwn, Own, ReservedFresh, Reserves, FirstAlone, Running,
     RunningStaysInTable, RecordBorn, AllFlagged, Flagged, SweeperHolds, RecordAccounted, Born,
     Holding, Connected

\* Every step preserves the invariant where ids are issued once.
LEMMA NextLife == ASSUME ~CallerIds, IInv, LInv, [Next]_vars PROVE LInv'
<1>1. ASSUME NEW h \in Handlers, HandlerStep(h) PROVE LInv'
  BY ZenonT(100), <1>1, AcceptLife, RejectDuplicateLife, BypassLimitLife, LookupLife, ConnectLife, InspectLife,
     WakeLife, TimeOutLife, RemoveJobLife, ScheduleCleanupLife, DisconnectLife, ClaimLife
     DEF HandlerStep
<1>2. ASSUME NEW h \in Handlers, NEW id \in Ids, Request(h, id) PROVE LInv'
  BY ZenonT(100), <1>2, SubmitLife, StartPollLife DEF Request
<1>3. ASSUME NEW i \in Insts, RunnerStep(i) \/ MarkProcessing(i) \/ GraceExpires(i) PROVE LInv'
  BY ZenonT(100), <1>3, RunnerLife, UpsertLife DEF RunnerStep
<1>4. ASSUME SweeperStep \/ CleanupDelete PROVE LInv'
  BY ZenonT(100), <1>4, SweepScanLife, SweepRemoveLife, SweepDecrementLife, SweepDeleteLife, CleanupDeleteLife
     DEF SweeperStep
<1>5. ASSUME UNCHANGED vars PROVE LInv'
  <2>1. JobsKept /\ UNCHANGED <<jobs, runner, handler, sweeper, store, cleanup>>
    BY Zenon, <1>5 DEF vars, JobsKept
  <2>2. \A i \in Insts : runner[i] = "upsert" => ~job[i].persisted
    BY Zenon DEF LInv, AllFlagged, Flagged
  <2> QED
    BY ZenonT(100), <2>1, <2>2, TaskLife
<1> QED
  BY ZenonT(100), <1>1, <1>2, <1>3, <1>4, <1>5 DEF Next

\* Where the broker issues the ids, the named parts above hold in every state.
THEOREM LifeInvariance == ASSUME ~CallerIds PROVE Spec => []LInv
<1>1. Init => LInv
  BY Zenon, InitLife
<1>2. IInv /\ LInv /\ [Next]_vars => LInv'
  BY Zenon, NextLife
<1> QED
  BY <1>1, <1>2, Invariance, PTL DEF Spec

\* A submitted job is found in the table under its id for as long as its task
\* runs: no sweep, no late remove_job and no recovery takes its place.
THEOREM RunningCorrect == ASSUME ~CallerIds PROVE Spec => []RunningStaysInTable
<1>1. LInv => RunningStaysInTable
  BY ZenonT(100) DEF LInv
<1> QED
  BY <1>1, LifeInvariance, PTL

\* A durable record whose store calls do not fail belongs to an id in the table
\* or to one that some thread is about to delete: no record is forgotten.
THEOREM RecordCorrect == ASSUME ~CallerIds PROVE Spec => []RecordAccounted
<1>1. LInv => RecordAccounted
  BY Zenon DEF LInv
<1> QED
  BY <1>1, LifeInvariance, PTL

=============================================================================
