----------------------------- MODULE StoreProofs -----------------------------
(***************************************************************************)
(* Proofs about the store, for any set of brokers, any backend, and any    *)
(* number of calls, failures and late writes: its types; no two brokers are*)
(* given the same slot; the backends keep StoreContract; a reserved        *)
(* per-user slot stays listed under the number its caller was given; and   *)
(* an id leads back to the broker that minted it.                          *)
(***************************************************************************)
EXTENDS Store, RequestIdProofs

WriteRecs == [by: Brokers, op: Ops, seen: Entries, nth: Nat]

CallRecs ==
  [op: Ops \cup {"none"}, pc: Pcs, seen: Entries, tries: 0..2, live: SUBSET Brokers, hit: BOOLEAN]

\* setting is one of the settings, cut down to what stays fixed.
SettingOK ==
  /\ setting.backend \in {"memory", "nats", "tikv"}
  /\ setting.key \in {"slot", "job", "user", "id"}
  /\ setting.brokers \subseteq Brokers

\* Places in a call that slot allocations do not come to.
Scans == {"purge", "leases", "probe", "watch"}

\* A call past its start has an operation of the key.
CallsOK ==
  \A b \in Brokers :
    /\ call[b].pc # "idle" => call[b].op \in OpsOf[setting.key]
    /\ call[b].pc \in Scans => call[b].op # "alloc"

\* Entry e was read by a slot allocation: if the counter still has the
\* revision of e, it still has the value of e.
Good(e) ==
  /\ next_slot(e) \in 0..U16Max
  /\ e.rev <= rev /\ (e.op = "put" => e.rev > 0)
  /\ e.rev = kv.rev => next_slot(e) = next_slot(kv)

\* The counter and what is known of it.
CounterOK ==
  /\ kv.rev <= rev /\ (kv.op = "put" => kv.rev > 0)
  /\ setting.key = "slot" => next_slot(kv) \in Nat

ReadsOK ==
  /\ \A b \in Brokers : (call[b].op = "alloc" /\ call[b].pc = "write") => Good(call[b].seen)
  /\ \A w \in late : w.op \in OpsOf[setting.key] /\ (w.op = "alloc" => Good(w.seen))

\* Every slot handed out is below the counter.
SlotsBelow ==
  \A b \in Brokers : slot[b] # NoSlot => setting.key = "slot" /\ slot[b] < next_slot(kv)

IInv == TypeOK /\ SettingOK /\ CallsOK /\ CounterOK /\ ReadsOK /\ SlotsBelow /\ SlotsUnique

-----------------------------------------------------------------------------
(* Lemmas about the operators *)

\* The operations of a key are operations, and slots are allocated from the
\* slot counter only.
LEMMA OpsOfType ==
  ASSUME SettingOK
  PROVE  /\ OpsOf[setting.key] \subseteq Ops
         /\ "alloc" \in OpsOf[setting.key] => setting.key = "slot"
BY DEF SettingOK, OpsOf, Ops

\* The last slot is a natural number; NoSlot is the next one.
LEMMA Widths == U16Max \in Nat /\ NoSlot \in Nat /\ NoSlot = U16Max + 1
BY DEF U16Max, NoSlot

\* A key that is not there is an entry, and no call is a call record.
LEMMA Empties == Missing \in Entries /\ NoCall \in CallRecs
BY DEF Missing, Entries, NoCall, CallRecs, Ops, Pcs

\* An accepted write leaves an entry.
LEMMA WrittenType ==
  ASSUME NEW w \in WriteRecs, rev \in Nat, w.op = "alloc" => next_slot(w.seen) \in Nat
  PROVE  Written(w) \in Entries
<1>1. w.by \in Brokers
  BY Zenon DEF WriteRecs
<1>. QED
  BY <1>1 DEF Written, Entries

\* The server accepts a slot allocation only while the counter still has the
\* value that was read.
LEMMA AppliesFresh ==
  ASSUME NEW w, w.op = "alloc", Good(w.seen), Applies(w)
  PROVE  next_slot(w.seen) = next_slot(kv)
BY Zenon DEF Good, Applies, Removes, next_slot, Live

\* A broker's write says who asks, for what, and what was read.
LEMMA WriteIs ==
  ASSUME NEW b
  PROVE  WriteOf(b).by = b /\ WriteOf(b).op = call[b].op /\ WriteOf(b).seen = call[b].seen
<1> DEFINE w == [by |-> b, op |-> call[b].op, seen |-> call[b].seen, nth |-> 0]
<1>1. CASE w \in late
  <2>1. WriteOf(b) = [w EXCEPT !.nth = 1 + calls + faults]
    BY Zenon, <1>1 DEF WriteOf
  <2> QED
    BY <2>1
<1>2. CASE w \notin late
  <2>1. WriteOf(b) = w
    BY Zenon, <1>2 DEF WriteOf
  <2> QED
    BY <2>1
<1> QED
  BY Zenon, <1>1, <1>2

\* It is a write record.
LEMMA WriteIsRecord ==
  ASSUME TypeOK, NEW b \in Brokers, call[b].op \in Ops
  PROVE  WriteOf(b) \in WriteRecs
<1> DEFINE w == [by |-> b, op |-> call[b].op, seen |-> call[b].seen, nth |-> 0]
<1>1. call[b].seen \in Entries /\ 1 + calls + faults \in Nat
  BY StoreAssumption DEF TypeOK
<1>2. w \in WriteRecs
  BY <1>1 DEF WriteRecs
<1>3. [w EXCEPT !.nth = 1 + calls + faults] \in WriteRecs
  BY <1>1 DEF WriteRecs
<1> QED
  BY Zenon, <1>2, <1>3 DEF WriteOf

\* A read never returns a slot.
LEMMA NoSlotFromEntry ==
  ASSUME NEW b PROVE FromEntry(b).res # "Slot"
BY Zenon DEF FromEntry, AllocFrom, ClaimFrom, ReserveFrom, NoAnswer

-----------------------------------------------------------------------------
\* The initial states satisfy the invariant.
LEMMA InitInv == Init => IInv
<1>. SUFFICES ASSUME Init PROVE IInv
  BY Zenon
<1>1. PICK s \in Settings :
        /\ setting = [backend |-> s.backend, key |-> s.key, brokers |-> s.brokers]
        /\ kv = s.kv /\ rev = s.kv.rev /\ bucket = s.bucket /\ calls = s.calls
  BY Zenon DEF Init
<1>2. SettingOK
  BY ZenonT(100), <1>1, StoreAssumption DEF SettingOK
<1>3. kv \in Entries /\ rev \in Nat /\ bucket \in {"absent", "stale", "current"} /\ calls \in Nat
  BY ZenonT(100), <1>1, StoreAssumption DEF Entries
<1>4. call \in [Brokers -> CallRecs]
  BY Zenon, Empties DEF Init
<1>5. slot \in [Brokers -> 0..NoSlot] /\ \A b \in Brokers : slot[b] = NoSlot
  BY Widths DEF Init
<1>6. CallsOK /\ ReadsOK
  BY Zenon DEF CallsOK, ReadsOK, Init, NoCall
<1>7. CounterOK
  BY SMTT(60), <1>1, <1>3, StoreAssumption DEF CounterOK, next_slot, Entries
<1>8. TypeOK
  BY <1>3, <1>4, <1>5, StoreAssumption DEF TypeOK, Init, CallRecs
<1>. QED
  BY Zenon, <1>2, <1>5, <1>6, <1>7, <1>8 DEF IInv, SlotsBelow, SlotsUnique

-----------------------------------------------------------------------------
(* The two ways a step changes the state the invariant is about *)

\* A step of one broker's call that writes nothing.
LEMMA CallStep ==
  ASSUME IInv, NEW b \in Brokers, NEW c \in CallRecs,
         UNCHANGED <<setting, kv, rev, slot>>,
         call' = [call EXCEPT ![b] = c],
         c.pc # "idle" => c.op \in OpsOf[setting.key],
         (c.op = "alloc" /\ c.pc = "write") => Good(c.seen),
         c.pc \in Scans => c.op # "alloc",
         late' = late \/ (late' = late \cup {WriteOf(b)} /\ call[b].pc \in {"write", "purge"}
                          /\ (call[b].op = "alloc" => call[b].pc = "write")),
         bucket' \in {"absent", "stale", "current"},
         conn' \subseteq Brokers, lease' \subseteq Brokers,
         calls' \in Nat, faults' \in 0..MaxFaults
  PROVE  IInv'
<1>1. call' \in [Brokers -> CallRecs]
  BY Zenon DEF IInv, TypeOK, CallRecs
<1>2. /\ late' \subseteq WriteRecs
      /\ \A w \in late' : w.op \in OpsOf[setting.key] /\ (w.op = "alloc" => Good(w.seen))
  <2>1. CASE late' = late
    BY Zenon, <2>1 DEF IInv, TypeOK, ReadsOK, WriteRecs
  <2>2. CASE late' = late \cup {WriteOf(b)} /\ call[b].pc \in {"write", "purge"}
             /\ (call[b].op = "alloc" => call[b].pc = "write")
    <3>1. call[b].op \in OpsOf[setting.key] /\ call[b].op \in Ops
      BY Zenon, <2>2, OpsOfType DEF IInv, CallsOK
    <3>2. WriteOf(b) \in WriteRecs /\ WriteOf(b).op = call[b].op /\ WriteOf(b).seen = call[b].seen
      BY Zenon, <3>1, WriteIs, WriteIsRecord DEF IInv
    <3>3. call[b].op = "alloc" => Good(call[b].seen)
      BY Zenon, <2>2 DEF IInv, ReadsOK
    <3>. QED
      BY Zenon, <2>2, <3>1, <3>2, <3>3 DEF IInv, TypeOK, ReadsOK, WriteRecs
  <2>. QED
    BY Zenon, <2>1, <2>2
<1>3. TypeOK'
  BY ZenonT(100), <1>1, <1>2 DEF IInv, TypeOK, CallRecs, WriteRecs
<1>4. CallsOK' /\ ReadsOK'
  BY <1>2 DEF IInv, TypeOK, CallsOK, ReadsOK, Good, next_slot
<1>5. SettingOK' /\ CounterOK' /\ SlotsBelow' /\ SlotsUnique'
  BY Zenon DEF IInv, SettingOK, CounterOK, SlotsBelow, SlotsUnique, next_slot
<1>. QED
  BY Zenon, <1>3, <1>4, <1>5 DEF IInv

\* An accepted write: of a slot allocation, or of another operation.
LEMMA WriteStep ==
  ASSUME IInv, NEW w \in WriteRecs, w.op \in OpsOf[setting.key], Apply(w),
         w.op = "alloc" => (Good(w.seen) /\ next_slot(w.seen) = next_slot(kv)),
         call' \in [Brokers -> CallRecs],
         \A x \in Brokers :
           \/ call'[x].pc = "idle"
           \/ /\ call'[x].pc = call[x].pc /\ call'[x].op = call[x].op
              /\ call'[x].seen = call[x].seen,
         late' \subseteq late,
         \/ slot' = slot
         \/ \E b \in Brokers : w.op = "alloc" /\ slot' = [slot EXCEPT ![b] = next_slot(w.seen)],
         UNCHANGED <<setting, bucket, conn, lease, calls, faults>>
  PROVE  IInv'
<1>a. rev \in Nat /\ (w.op = "alloc" => next_slot(w.seen) \in 0..U16Max)
  BY Zenon DEF IInv, TypeOK, Good
<1>b. Written(w) \in Entries
  <2>1. w.op = "alloc" => next_slot(w.seen) \in Nat
    BY <1>a, Widths
  <2>2. rev \in Nat
    BY Zenon, <1>a
  <2>. QED
    BY Zenon, <2>1, <2>2, WrittenType
<1>1. rev' = rev + 1 /\ rev \in Nat /\ kv' = Written(w) /\ kv' \in Entries /\ kv'.rev = rev + 1
  BY Zenon, <1>a, <1>b DEF Apply, Written
<1>2. w.op = "alloc" => /\ next_slot(kv) \in 0..U16Max
                        /\ next_slot(kv)' = next_slot(kv) + 1
  BY Zenon, <1>1 DEF Written, next_slot, Removes, Good
<1>3. slot' \in [Brokers -> 0..NoSlot]
  <2>1. CASE slot' = slot
    BY Zenon, <2>1 DEF IInv, TypeOK
  <2>2. CASE \E b \in Brokers : w.op = "alloc" /\ slot' = [slot EXCEPT ![b] = next_slot(w.seen)]
    BY SMTT(60), <1>a, <2>2, Widths DEF IInv, TypeOK
  <2>. QED
    BY Zenon, <2>1, <2>2
<1>4. TypeOK'
  BY SMTT(60), <1>1, <1>3 DEF IInv, TypeOK, CallRecs
<1>5. \A e \in Entries : Good(e) => Good(e)'
  BY <1>1 DEF Good, next_slot, Entries, IInv, TypeOK
<1>6. CallsOK'
  BY Zenon DEF IInv, CallsOK, Scans
<1>c. ReadsOK'
  BY <1>5 DEF IInv, TypeOK, ReadsOK
<1>7. SettingOK'
  BY Zenon DEF IInv, SettingOK
<1>8. CounterOK' /\ SlotsBelow' /\ SlotsUnique'
  <2>1. CASE w.op = "alloc"
    <3>1. setting.key = "slot"
      BY Zenon, <2>1, OpsOfType DEF IInv
    <3>2. CounterOK'
      BY SMTT(60), <1>1, <1>2, <2>1, <3>1, Widths DEF CounterOK
    <3>3. CASE slot' = slot
      BY SMTT(60), <1>2, <2>1, <3>1, <3>2, <3>3, Widths DEF IInv, TypeOK, SlotsBelow, SlotsUnique
    <3>4. CASE \E b \in Brokers : slot' = [slot EXCEPT ![b] = next_slot(w.seen)]
      <4>1. PICK b \in Brokers : slot' = [slot EXCEPT ![b] = next_slot(kv)]
        BY Zenon, <2>1, <3>4
      <4>2. \A c \in Brokers : slot[c] \in 0..NoSlot /\ (slot[c] # NoSlot => slot[c] < next_slot(kv))
        BY Zenon DEF IInv, TypeOK, SlotsBelow
      <4>3. \A c \in Brokers : slot'[c] = IF c = b THEN next_slot(kv) ELSE slot[c]
        BY Zenon, <4>1 DEF IInv, TypeOK
      <4>4. SlotsBelow'
        BY SMTT(60), <1>2, <2>1, <3>1, <4>2, <4>3, Widths DEF SlotsBelow
      <4>5. SlotsUnique'
        BY SMTT(60), <1>2, <2>1, <4>2, <4>3, Widths DEF IInv, SlotsUnique
      <4>. QED
        BY Zenon, <3>2, <4>4, <4>5
    <3>. QED
      BY Zenon, <2>1, <3>3, <3>4
  <2>2. CASE w.op # "alloc"
    <3>1. setting.key # "slot"
      BY <2>2 DEF OpsOf
    <3>. QED
      BY <1>1, <2>2, <3>1 DEF IInv, TypeOK, CounterOK, SlotsBelow, SlotsUnique, Entries
  <2>. QED
    BY Zenon, <2>1, <2>2
<1>. QED
  BY Zenon, <1>4, <1>6, <1>c, <1>7, <1>8 DEF IInv

-----------------------------------------------------------------------------
(* Returning and going on *)

\* The record a returning call leaves.
Ended(h) == [NoCall EXCEPT !.hit = h]

\* It is an idle call record.
LEMMA EndedType ==
  ASSUME NEW h \in BOOLEAN
  PROVE  Ended(h) \in CallRecs /\ Ended(h).pc = "idle" /\ "idle" \notin Scans
BY Zenon, Empties DEF Ended, NoCall, CallRecs, Scans

\* A step that returns an answer other than a slot, writing nothing.
LEMMA AnswerStep ==
  ASSUME IInv, NEW b \in Brokers, NEW a, Answer(b, a), a.res # "Slot",
         UNCHANGED <<setting, bucket, conn, kv, rev, lease, calls>>,
         faults' \in 0..MaxFaults,
         late' = late \/ (late' = late \cup {WriteOf(b)} /\ call[b].pc \in {"write", "purge"}
                          /\ (call[b].op = "alloc" => call[b].pc = "write"))
  PROVE  IInv'
<1>1. call[b].hit \in BOOLEAN
  BY Zenon DEF IInv, TypeOK
<1>2. /\ Ended(call[b].hit) \in CallRecs /\ Ended(call[b].hit).pc = "idle" /\ "idle" \notin Scans
      /\ call' = [call EXCEPT ![b] = Ended(call[b].hit)] /\ slot' = slot
  BY Zenon, <1>1, EndedType DEF Answer, Returns, Ended
<1>. QED
  BY Zenon, <1>2, CallStep DEF IInv, TypeOK

\* A step to another place in the call, other than to a slot's write.
LEMMA GotoStep ==
  ASSUME IInv, NEW b \in Brokers, NEW pc \in Pcs, Goto(b, pc),
         call[b].pc # "idle", pc \in Scans \cup {"write"} => call[b].op # "alloc",
         UNCHANGED <<setting, kv, rev, lease, calls>>,
         bucket' \in {"absent", "stale", "current"}, conn' \subseteq Brokers,
         faults' \in 0..MaxFaults,
         late' = late \/ (late' = late \cup {WriteOf(b)} /\ call[b].pc \in {"write", "purge"}
                          /\ (call[b].op = "alloc" => call[b].pc = "write"))
  PROVE  IInv'
<1>. DEFINE c == [call[b] EXCEPT !.pc = pc]
<1>1. c \in CallRecs /\ c.pc = pc /\ c.op = call[b].op
  BY DEF IInv, TypeOK, CallRecs
<1>2. call' = [call EXCEPT ![b] = c] /\ slot' = slot
  BY Zenon DEF Goto
<1>3. c.op \in OpsOf[setting.key]
  BY Zenon, <1>1 DEF IInv, CallsOK
<1>. HIDE DEF c
<1>. QED
  BY Zenon, <1>1, <1>2, <1>3, CallStep DEF IInv, TypeOK

\* A write of broker b, answered.
LEMMA DoneStep ==
  ASSUME IInv, NEW b \in Brokers, NEW w \in WriteRecs, NEW base \in [Brokers -> CallRecs],
         w.op \in OpsOf[setting.key], Apply(w),
         w.op = "alloc" => (Good(w.seen) /\ next_slot(w.seen) = next_slot(kv)),
         \A x \in Brokers : base[x].pc = call[x].pc /\ base[x].op = call[x].op
                              /\ base[x].seen = call[x].seen,
         Returns(b, Done(w), base),
         late' = late,
         UNCHANGED <<setting, bucket, conn, lease, calls, faults>>
  PROVE  IInv'
<1>1. base[b].hit \in BOOLEAN
  BY Zenon DEF CallRecs
<1>2. call' = [base EXCEPT ![b] = Ended(base[b].hit)]
  BY Zenon DEF Returns, Ended
<1>3. /\ call' \in [Brokers -> CallRecs]
      /\ \A x \in Brokers :
           \/ call'[x].pc = "idle"
           \/ /\ call'[x].pc = call[x].pc /\ call'[x].op = call[x].op
              /\ call'[x].seen = call[x].seen
  BY Zenon, <1>1, <1>2, EndedType
<1>4. \/ slot' = slot
      \/ w.op = "alloc" /\ slot' = [slot EXCEPT ![b] = next_slot(w.seen)]
  BY Zenon DEF Returns, Done
<1>. QED
  BY Zenon, <1>3, <1>4, WriteStep

\* A broker's write is a write record of an operation of the key.
LEMMA WriteOfType ==
  ASSUME IInv, NEW b \in Brokers, call[b].pc # "idle"
  PROVE  /\ WriteOf(b) \in WriteRecs
         /\ WriteOf(b).op = call[b].op /\ WriteOf(b).seen = call[b].seen
         /\ WriteOf(b).op \in OpsOf[setting.key]
<1>1. call[b].op \in OpsOf[setting.key] /\ call[b].op \in Ops
  BY Zenon, OpsOfType DEF IInv, CallsOK
<1>. QED
  BY Zenon, <1>1, WriteIs, WriteIsRecord DEF IInv

\* Marking the calls changes their history field only.
LEMMA MarkedType ==
  ASSUME IInv
  PROVE  /\ Marked \in [Brokers -> CallRecs]
         /\ \A x \in Brokers : Marked[x].pc = call[x].pc /\ Marked[x].op = call[x].op
                                 /\ Marked[x].seen = call[x].seen
<1>1. \A x \in Brokers : call[x] \in CallRecs
  BY Zenon DEF IInv, TypeOK, CallRecs
<1>2. ASSUME NEW c \in CallRecs, NEW m, m = [c EXCEPT !.hit = TRUE]
      PROVE  m \in CallRecs /\ m.pc = c.pc /\ m.op = c.op /\ m.seen = c.seen
  <2>1. m = [op |-> c.op, pc |-> c.pc, seen |-> c.seen, tries |-> c.tries, live |-> c.live, hit |-> TRUE]
    BY Zenon, <1>2 DEF CallRecs
  <2>. QED
    BY Zenon, <2>1 DEF CallRecs
<1>. QED
  BY Zenon, <1>1, <1>2 DEF Marked

-----------------------------------------------------------------------------
(* The steps *)

\* First names a place in a call, and no slot allocation starts with a write.
LEMMA FirstType ==
  ASSUME NEW op
  PROVE  First(op) \in Pcs /\ (First(op) \in Scans \cup {"write"} => op # "alloc")
BY Zenon DEF First, Pcs, Scans, Removes

\* A new call keeps the invariant.
LEMMA StartInv ==
  ASSUME IInv, NEW b \in Brokers, NEW op \in OpsOf[setting.key], Start(b, op)
  PROVE  IInv'
<1>. DEFINE pc == IF Memory \/ Unsupported \/ b \in conn THEN First(op) ELSE "connect"
            c == [NoCall EXCEPT !.op = op, !.pc = pc]
<1>1. pc \in Pcs /\ (pc \in Scans \cup {"write"} => op # "alloc")
  BY Zenon, FirstType DEF Pcs, Scans
<1>2. op \in Ops
  BY Zenon, OpsOfType DEF IInv
<1>. HIDE DEF pc
<1>3. c \in CallRecs /\ c.op = op /\ c.pc = pc
  BY Zenon, <1>1, <1>2, Empties DEF NoCall, CallRecs
<1>4. call' = [call EXCEPT ![b] = c]
  BY Zenon DEF Start, pc
<1>5. calls' \in Nat
  BY DEF Start, IInv, TypeOK
<1>. HIDE DEF c
<1>. QED
  BY Zenon, <1>1, <1>3, <1>4, <1>5, CallStep DEF Start, IInv, TypeOK

\* Reading an entry keeps the invariant: an allocation that goes on to write
\* has read the counter as it is.
LEMMA ReadInv ==
  ASSUME IInv, NEW b \in Brokers, Read(b)
  PROVE  IInv'
<1>1. CASE FromEntry(b) # NoAnswer
  BY Zenon, <1>1, NoSlotFromEntry, AnswerStep DEF Read, IInv, TypeOK
<1>2. CASE FromEntry(b) = NoAnswer
  <2>. DEFINE c == [call[b] EXCEPT !.pc = "write", !.seen = kv]
  <2>a. call[b] \in CallRecs /\ kv \in Entries /\ "write" \in Pcs
    BY Zenon DEF IInv, TypeOK, CallRecs, Pcs
  <2>1. c \in CallRecs /\ c.op = call[b].op /\ c.seen = kv /\ c.pc \notin Scans
    BY Zenon, <2>a DEF CallRecs, Scans
  <2>2. c.op \in OpsOf[setting.key]
    BY Zenon, <2>1 DEF Read, IInv, CallsOK
  <2>3. call' = [call EXCEPT ![b] = c] /\ slot' = slot
    BY Zenon, <1>2 DEF Read
  <2>4. ASSUME c.op = "alloc" PROVE Good(c.seen)
    <3>1. setting.key = "slot" /\ next_slot(kv) \in Nat
      BY Zenon, <2>2, <2>4, OpsOfType DEF IInv, CounterOK
    <3>2. ~(next_slot(kv) > U16Max)
      BY Zenon, <1>2, <2>1, <2>4 DEF FromEntry, AllocFrom, NoAnswer
    <3>. QED
      BY <2>1, <3>1, <3>2, Widths DEF Good, IInv, CounterOK
  <2>. HIDE DEF c
  <2>. QED
    BY Zenon, <2>1, <2>2, <2>3, <2>4, CallStep DEF Read, IInv, TypeOK
<1>. QED
  BY Zenon, <1>1, <1>2

\* An accepted write keeps the invariant.
LEMMA WriteInv ==
  ASSUME IInv, NEW b \in Brokers, Write(b)
  PROVE  IInv'
<1>1. /\ WriteOf(b) \in WriteRecs
      /\ WriteOf(b).op = call[b].op /\ WriteOf(b).seen = call[b].seen
      /\ WriteOf(b).op \in OpsOf[setting.key]
  BY Zenon, WriteOfType DEF Write
<1>2. WriteOf(b).op = "alloc" =>
        (Good(WriteOf(b).seen) /\ next_slot(WriteOf(b).seen) = next_slot(kv))
  BY Zenon, <1>1, AppliesFresh DEF Write, IInv, ReadsOK
<1>3. call \in [Brokers -> CallRecs]
  BY Zenon DEF IInv, TypeOK, CallRecs
<1>. DEFINE base == IF call[b].op \in Removes THEN Marked ELSE call
<1>4. /\ base \in [Brokers -> CallRecs]
      /\ \A x \in Brokers : base[x].pc = call[x].pc /\ base[x].op = call[x].op
                              /\ base[x].seen = call[x].seen
  BY Zenon, <1>3, MarkedType
<1>5. Apply(WriteOf(b)) /\ Returns(b, Done(WriteOf(b)), base) /\ late' = late
      /\ UNCHANGED <<setting, bucket, conn, lease, calls, faults>>
  BY Zenon DEF Write
<1>. HIDE DEF base
<1>. QED
  BY Zenon, <1>1, <1>2, <1>4, <1>5, DoneStep

\* A refused write keeps the invariant.
LEMMA RefusedInv ==
  ASSUME IInv, NEW b \in Brokers, Refused(b)
  PROVE  IInv'
<1>. call[b].pc = "write" /\ faults' \in 0..MaxFaults /\ conn' \subseteq Brokers
     /\ bucket' \in {"absent", "stale", "current"}
     /\ UNCHANGED <<setting, bucket, conn, kv, rev, late, lease, calls>>
  BY Zenon DEF Refused, IInv, TypeOK
<1>. "read" \in Pcs \ Scans /\ "reread" \in Pcs \ Scans
  BY Zenon DEF Pcs, Scans
<1>1. CASE AllocRetry(b)
  BY Zenon, <1>1, GotoStep DEF AllocRetry
<1>2. CASE ClaimRetry(b)
  <2>1. CASE call[b].tries + 1 < MAX_CAS_ATTEMPTS
    <3>. DEFINE c == [call[b] EXCEPT !.pc = "read", !.tries = @ + 1]
    <3>1. call[b].tries + 1 \in 0..2
      BY <2>1 DEF MAX_CAS_ATTEMPTS, IInv, TypeOK
    <3>a. call[b] \in CallRecs
      BY Zenon DEF IInv, TypeOK, CallRecs
    <3>2. c \in CallRecs /\ c.op = call[b].op /\ c.pc = "read" /\ c.pc \notin Scans
      BY Zenon, <3>1, <3>a DEF CallRecs, Scans
    <3>3. call' = [call EXCEPT ![b] = c] /\ slot' = slot
      BY Zenon, <1>2, <2>1 DEF ClaimRetry
    <3>4. c.op \in OpsOf[setting.key]
      BY Zenon, <3>2 DEF IInv, CallsOK
    <3>. HIDE DEF c
    <3>. QED
      BY Zenon, <3>2, <3>3, <3>4, CallStep DEF IInv, TypeOK
  <2>2. CASE ~(call[b].tries + 1 < MAX_CAS_ATTEMPTS)
    BY Zenon, <1>2, <2>2, GotoStep, AnswerStep DEF ClaimRetry
  <2>. QED
    BY Zenon, <2>1, <2>2
<1>3. CASE Goto(b, "reread")
  BY Zenon, <1>3, GotoStep
<1>4. CASE Answer(b, [res |-> "Backend"])
  BY Zenon, <1>4, AnswerStep
<1>. QED
  BY Zenon, <1>1, <1>2, <1>3, <1>4 DEF Refused

\* Connecting, and the look after a lost race, keep the invariant.
LEMMA ConnectInv ==
  ASSUME IInv, NEW b \in Brokers, Connect(b) \/ Reread(b)
  PROVE  IInv'
<1>1. CASE Connect(b)
  <2>1. /\ First(call[b].op) \in Pcs /\ (First(call[b].op) \in Scans \cup {"write"} => call[b].op # "alloc")
        /\ bucket' \in {"absent", "stale", "current"} /\ conn' \subseteq Brokers
    BY Zenon, <1>1, FirstType DEF Connect, get_or_create_bucket, IInv, TypeOK
  <2>. QED
    BY Zenon, <1>1, <2>1, GotoStep DEF Connect, IInv, TypeOK
<1>2. CASE Reread(b)
  <2>. DEFINE a == IF call[b].op = "claim" THEN LookAgain(b) ELSE [res |-> "Seq", seq |-> kv.rev]
  <2>1. Answer(b, a) /\ a.res # "Slot"
    BY Zenon, <1>2 DEF Reread, LookAgain
  <2>. HIDE DEF a
  <2>. QED
    BY Zenon, <1>2, <2>1, AnswerStep DEF Reread, IInv, TypeOK
<1>. QED
  BY Zenon, <1>1, <1>2

\* purge_expiring keeps the invariant.
LEMMA PurgeInv ==
  ASSUME IInv, NEW b \in Brokers, Purge(b), call[b].op # "alloc"
  PROVE  IInv'
<1>. call[b].pc = "purge" /\ "write" \in Pcs
     /\ UNCHANGED <<setting, bucket, conn, lease, calls>>
     /\ bucket' \in {"absent", "stale", "current"} /\ conn' \subseteq Brokers
  BY Zenon DEF Purge, Pcs, IInv, TypeOK
<1>1. CASE Apply(WriteOf(b)) /\ Returns(b, Done(WriteOf(b)), Marked) /\ UNCHANGED <<late, faults>>
  BY Zenon, <1>1, WriteOfType, MarkedType, DoneStep
<1>2. CASE Goto(b, "write") /\ UNCHANGED <<kv, rev, late, faults>>
  BY Zenon, <1>2, GotoStep DEF IInv, TypeOK
<1>3. CASE /\ faults > 0 /\ faults' = faults - 1 /\ late' = late \cup {WriteOf(b)}
           /\ Goto(b, "write") /\ UNCHANGED <<kv, rev>>
  <2>1. faults' \in 0..MaxFaults
    BY <1>3, StoreAssumption DEF IInv, TypeOK
  <2>. QED
    BY ZenonT(100), <1>3, <2>1, GotoStep
<1>. QED
  BY Zenon, <1>1, <1>2, <1>3 DEF Purge

\* The scans keep the invariant.
LEMMA ScanInv ==
  ASSUME IInv, NEW b \in Brokers, Leases(b) \/ Probe(b) \/ Watch(b), call[b].op # "alloc"
  PROVE  IInv'
<1>a. call[b] \in CallRecs /\ lease \in SUBSET Brokers /\ kv \in Entries
  BY Zenon DEF IInv, TypeOK, CallRecs
<1>b. {"run", "probe", "watch", "purge"} \subseteq Pcs
  BY Zenon DEF Pcs
<1>c. call[b].pc # "idle" /\ call[b].op \in OpsOf[setting.key]
  BY Zenon DEF Leases, Probe, Watch, IInv, CallsOK
<1>1. CASE Leases(b)
  <2>. DEFINE pc == IF Memory THEN "run" ELSE "probe"
              c == [call[b] EXCEPT !.live = lease, !.pc = pc]
  <2>1. pc \in Pcs
    BY Zenon, <1>b
  <2>2. call' = [call EXCEPT ![b] = c]
    BY Zenon, <1>1 DEF Leases
  <2>. HIDE DEF pc
  <2>3. c \in CallRecs /\ c.op = call[b].op
    BY Zenon, <1>a, <2>1 DEF CallRecs
  <2>. HIDE DEF c
  <2>. QED
    BY <1>1, <1>c, <2>2, <2>3, CallStep DEF Leases, IInv, TypeOK
<1>2. CASE Probe(b)
  BY Zenon, <1>2, <1>b, <1>c, AnswerStep, GotoStep DEF Probe, IInv, TypeOK
<1>3. CASE Watch(b)
  <2>1. CASE call[b].op = "reclaim" /\ Dead(b)
    <3>. DEFINE c == [call[b] EXCEPT !.pc = "purge", !.seen = kv]
    <3>1. c \in CallRecs /\ c.op = call[b].op
      BY Zenon, <1>a, <1>b DEF CallRecs
    <3>2. call' = [call EXCEPT ![b] = c]
      BY Zenon, <1>3, <2>1 DEF Watch
    <3>. HIDE DEF c
    <3>. QED
      BY Zenon, <1>3, <1>c, <2>1, <3>1, <3>2, CallStep DEF Watch, IInv, TypeOK
  <2>2. CASE ~(call[b].op = "reclaim" /\ Dead(b))
    BY Zenon, <1>3, <2>2, AnswerStep DEF Watch, IInv, TypeOK
  <2>. QED
    BY Zenon, <2>1, <2>2
<1>. QED
  BY Zenon, <1>1, <1>2, <1>3

\* MemoryStore's operations keep the invariant.
LEMMA RunInv ==
  ASSUME IInv, NEW b \in Brokers, Run(b)
  PROVE  IInv'
<1>. DEFINE w == [WriteOf(b) EXCEPT !.seen = kv]
<1>a. call[b].pc # "idle" /\ UNCHANGED <<setting, bucket, conn, late, lease, calls, faults>>
  BY Zenon DEF Run
<1>1. CASE Answer(b, [res |-> "Backend"]) /\ UNCHANGED <<kv, rev>>
  BY Zenon, <1>1, <1>a, AnswerStep DEF IInv, TypeOK
<1>2. CASE Answer(b, FromEntry(b)) /\ UNCHANGED <<kv, rev>>
  BY Zenon, <1>2, <1>a, NoSlotFromEntry, AnswerStep DEF IInv, TypeOK
<1>3. CASE Answer(b, [res |-> "Ok"]) /\ UNCHANGED <<kv, rev>>
  BY Zenon, <1>3, <1>a, AnswerStep DEF IInv, TypeOK
<1>4. CASE /\ Apply(w)
           /\ Returns(b, Done(w), IF call[b].op \in Removes THEN Marked ELSE call)
           /\ FromEntry(b) = NoAnswer
  <2>1. WriteOf(b) \in WriteRecs /\ WriteOf(b).op = call[b].op
        /\ WriteOf(b).op \in OpsOf[setting.key] /\ kv \in Entries
    BY Zenon, <1>a, WriteOfType DEF IInv, TypeOK
  <2>2. w \in WriteRecs /\ w.op = call[b].op /\ w.seen = kv
    BY Zenon, <2>1 DEF WriteRecs
  <2>3. ASSUME w.op = "alloc" PROVE Good(w.seen) /\ next_slot(w.seen) = next_slot(kv)
    <3>1. setting.key = "slot" /\ next_slot(kv) \in Nat
      BY Zenon, <2>1, <2>2, <2>3, OpsOfType DEF IInv, CounterOK
    <3>2. ~(next_slot(kv) > U16Max)
      BY Zenon, <1>4, <2>2, <2>3 DEF FromEntry, AllocFrom, NoAnswer
    <3>. QED
      BY <2>2, <3>1, <3>2, Widths DEF Good, IInv, CounterOK
  <2>. DEFINE base == IF call[b].op \in Removes THEN Marked ELSE call
  <2>4. /\ base \in [Brokers -> CallRecs]
        /\ \A x \in Brokers : base[x].pc = call[x].pc /\ base[x].op = call[x].op
                                /\ base[x].seen = call[x].seen
    BY Zenon, MarkedType DEF IInv, TypeOK, CallRecs
  <2>5. Apply(w) /\ Returns(b, Done(w), base)
    BY Zenon, <1>4
  <2>. HIDE DEF base, w
  <2>. QED
    BY Zenon, <1>a, <2>1, <2>2, <2>3, <2>4, <2>5, DoneStep
<1>. QED
  BY Zenon, <1>1, <1>2, <1>3, <1>4 DEF Run

\* A failed or abandoned call keeps the invariant.
LEMMA FailInv ==
  ASSUME IInv, NEW b \in Brokers, Fail(b) \/ GiveUp(b)
  PROVE  IInv'
<1>1. CASE Fail(b)
  <2>1. faults' \in 0..MaxFaults
    BY <1>1, StoreAssumption DEF Fail, IInv, TypeOK
  <2>. QED
    BY ZenonT(100), <1>1, <2>1, AnswerStep DEF Fail
<1>2. CASE GiveUp(b)
  BY Zenon, <1>2, AnswerStep DEF GiveUp, IInv, TypeOK
<1>. QED
  BY Zenon, <1>1, <1>2

\* A late write keeps the invariant: it is accepted on the same terms.
LEMMA LandInv ==
  ASSUME IInv, NEW w \in late, Land(w)
  PROVE  IInv'
<1>1. /\ w \in WriteRecs /\ w.op \in OpsOf[setting.key] /\ (w.op = "alloc" => Good(w.seen))
      /\ call \in [Brokers -> CallRecs]
  BY Zenon DEF IInv, TypeOK, ReadsOK, WriteRecs, CallRecs
<1>2. CASE Applies(w)
  <2>1. w.op = "alloc" => next_slot(w.seen) = next_slot(kv)
    BY Zenon, <1>1, <1>2, AppliesFresh
  <2>2. /\ call' \in [Brokers -> CallRecs]
        /\ \A x \in Brokers : call'[x].pc = call[x].pc /\ call'[x].op = call[x].op
                                /\ call'[x].seen = call[x].seen
    BY Zenon, <1>1, <1>2, MarkedType DEF Land
  <2>. QED
    BY Zenon, <1>1, <1>2, <2>1, <2>2, WriteStep DEF Land
<1>3. CASE ~Applies(w)
  <2>1. UNCHANGED <<setting, bucket, conn, kv, rev, call, slot, lease, calls, faults>>
        /\ late' \subseteq late
    BY Zenon, <1>3 DEF Land
  <2>. QED
    BY ZenonT(100), <2>1 DEF IInv, TypeOK, SettingOK, CallsOK, CounterOK, ReadsOK, SlotsBelow, SlotsUnique,
                Good, next_slot
<1>. QED
  BY Zenon, <1>2, <1>3

\* An expiring tombstone keeps the invariant: it counts as 0 before and after.
LEMMA ExpireInv ==
  ASSUME IInv, TombstoneExpires
  PROVE  IInv'
<1>1. kv.op = "del" /\ kv' = Missing /\ kv'.op = "none" /\ kv'.rev = 0 /\ kv' \in Entries
      /\ UNCHANGED <<setting, bucket, conn, rev, late, call, slot, lease, calls, faults>>
  BY Zenon, Empties DEF TombstoneExpires, Missing
<1>2. next_slot(kv) = 0 /\ next_slot(kv)' = 0
  BY Zenon, <1>1 DEF next_slot
<1>3. \A e \in Entries : Good(e) => Good(e)'
  BY <1>1, <1>2 DEF Good, next_slot, Entries
<1>4. TypeOK' /\ SettingOK' /\ CallsOK'
  BY Zenon, <1>1 DEF IInv, TypeOK, SettingOK, CallsOK
<1>5. CounterOK' /\ SlotsBelow' /\ SlotsUnique'
  BY <1>1, <1>2 DEF IInv, TypeOK, CounterOK, SlotsBelow, SlotsUnique
<1>6. ReadsOK'
  BY Zenon, <1>1, <1>3 DEF IInv, TypeOK, ReadsOK
<1>. QED
  BY Zenon, <1>4, <1>5, <1>6 DEF IInv

\* Lease changes keep the invariant.
LEMMA LeaseInv ==
  ASSUME IInv, NEW b \in Brokers, upsert_broker_lease(b) \/ LeaseEnds(b)
  PROVE  IInv'
<1>1. /\ UNCHANGED <<setting, bucket, conn, kv, rev, late, call, slot, faults>>
      /\ lease' \subseteq Brokers /\ calls' \in Nat
  BY DEF upsert_broker_lease, LeaseEnds, IInv, TypeOK
<1>. QED
  BY ZenonT(100), <1>1 DEF IInv, TypeOK, SettingOK, CallsOK, CounterOK, ReadsOK, SlotsBelow, SlotsUnique,
              Good, next_slot

-----------------------------------------------------------------------------
(* Theorems *)

\* The invariant holds in every reachable state.
THEOREM Inductive == Spec => []IInv
<1>1. IInv /\ [Next]_vars => IInv'
  <2>. SUFFICES ASSUME IInv, [Next]_vars PROVE IInv'
    BY Zenon
  <2>1. ASSUME NEW b \in setting.brokers, NEW op \in OpsOf[setting.key], Start(b, op) PROVE IInv'
    BY Zenon, <2>1, StartInv DEF IInv, SettingOK
  <2>2. ASSUME NEW b \in setting.brokers, Step(b) PROVE IInv'
    <3>1. b \in Brokers
      BY Zenon DEF IInv, SettingOK
    <3>2. call[b].pc \in {"purge", "leases", "probe", "watch"} => call[b].op # "alloc"
      BY Zenon, <3>1 DEF IInv, CallsOK, Scans
    <3>. QED
      BY ZenonT(100), <2>2, <3>1, <3>2, ConnectInv, ReadInv, WriteInv, RefusedInv, PurgeInv, ScanInv, RunInv, FailInv
      DEF Step, Purge, Leases, Probe, Watch
  <2>3. ASSUME NEW b \in setting.brokers,
               Fail(b) \/ upsert_broker_lease(b) \/ LeaseEnds(b)
        PROVE  IInv'
    BY Zenon, <2>3, FailInv, LeaseInv DEF IInv, SettingOK
  <2>4. ASSUME NEW w \in late, Land(w) PROVE IInv'
    BY Zenon, <2>4, LandInv
  <2>5. CASE TombstoneExpires
    BY Zenon, <2>5, ExpireInv
  <2>6. CASE UNCHANGED vars
    BY ZenonT(100), <2>6 DEF vars, IInv, TypeOK, SettingOK, CallsOK, CounterOK, ReadsOK, SlotsBelow,
                SlotsUnique, Good, next_slot
  <2>. QED
    BY Zenon, <2>1, <2>2, <2>3, <2>4, <2>5, <2>6 DEF Next
<1>. QED
  BY <1>1, InitInv, PTL DEF Spec

\* Every variable of the store keeps its type.
THEOREM TypeCorrect == Spec => []TypeOK
<1>1. IInv => TypeOK
  BY Zenon DEF IInv
<1>. QED
  BY <1>1, Inductive, PTL

\* No two brokers are given the same slot: for any set of brokers, any
\* backend, any number of calls, and with failed and late writes.
THEOREM Slots == Spec => []SlotsUnique
<1>1. IInv => SlotsUnique
  BY Zenon DEF IInv
<1>. QED
  BY <1>1, Inductive, PTL

-----------------------------------------------------------------------------
(* The contract.  What a claim has read, and where in a call each operation    *)
(* can be, decide which step of StoreContract a step is.                       *)

\* Entry e was read by a claim that went on to write: the record was the hinted
\* broker's, and still is if it has not been written since.
ClaimGood(e) ==
  /\ e.op = "put" /\ e.val = Hint /\ e.rev > 0 /\ e.rev <= rev
  /\ e.rev = kv.rev => kv.op = "put" /\ kv.val = Hint

\* Where in a call each operation can be; a probe never comes to a write.
PlaceOK(c) ==
  /\ c.pc \in {"leases", "probe", "watch"} => c.op \in {"list", "reclaim"}
  /\ c.pc = "purge" => c.op \in Removes
  /\ c.pc = "reread" => c.op \in {"claim", "reserve"}
  /\ c.op = "probe" => c.pc \in {"connect", "run", "read"}
  /\ (c.op = "claim" /\ c.pc = "write") => ClaimGood(c.seen)

Places == \A b \in Brokers : PlaceOK(call[b])
LateOK == \A w \in late : w.op # "probe" /\ (w.op = "claim" => ClaimGood(w.seen))
OwnerOK == setting.key = "job" /\ Live => kv.val \in Brokers

CInv == Places /\ LateOK /\ OwnerOK
KInv == IInv /\ CInv

-----------------------------------------------------------------------------
(* CInv is kept *)

\* A step of one broker's call that writes nothing.
LEMMA CallPlaces ==
  ASSUME KInv, NEW b \in Brokers, NEW c, PlaceOK(c), call' = [call EXCEPT ![b] = c],
         UNCHANGED <<setting, kv, rev>>,
         late' = late \/ (late' = late \cup {WriteOf(b)} /\ call[b].pc \in {"write", "purge"})
  PROVE  CInv'
<1>1. \A e : ClaimGood(e)' <=> ClaimGood(e)
  BY Zenon DEF ClaimGood
<1>2. \A x : PlaceOK(x) => /\ x.pc \in {"leases", "probe", "watch"} => x.op \in {"list", "reclaim"}
                           /\ x.pc = "purge" => x.op \in Removes
                           /\ x.pc = "reread" => x.op \in {"claim", "reserve"}
                           /\ x.op = "probe" => x.pc \in {"connect", "run", "read"}
                           /\ (x.op = "claim" /\ x.pc = "write") => ClaimGood(x.seen)'
  BY Zenon, <1>1 DEF PlaceOK
<1>3. \A x \in Brokers : call'[x] = IF x = b THEN c ELSE call[x]
  BY Zenon DEF KInv, IInv, TypeOK
<1>4. Places'
  BY <1>2, <1>3 DEF KInv, CInv, Places, PlaceOK
<1>5. LateOK'
  <2>1. CASE late' = late
    BY Zenon, <1>1, <2>1 DEF KInv, CInv, LateOK
  <2>2. CASE late' = late \cup {WriteOf(b)} /\ call[b].pc \in {"write", "purge"}
    <3>1. PlaceOK(call[b])
      BY Zenon DEF KInv, CInv, Places
    <3>2. call[b].op # "probe" /\ (call[b].op = "claim" => ClaimGood(call[b].seen))
      BY Zenon, <2>2, <3>1 DEF PlaceOK, Removes
    <3> QED
      BY Zenon, <1>1, <2>2, <3>2, WriteIs DEF KInv, CInv, LateOK
  <2> QED
    BY Zenon, <2>1, <2>2
<1>6. OwnerOK'
  BY Zenon DEF KInv, CInv, OwnerOK, Live
<1> QED
  BY Zenon, <1>4, <1>5, <1>6 DEF CInv

\* An accepted write.
LEMMA WritePlaces ==
  ASSUME KInv, NEW w \in WriteRecs, Apply(w), w.op \in OpsOf[setting.key],
         \A x \in Brokers :
           \/ call'[x].pc = "idle" /\ call'[x].op = "none"
           \/ call'[x].pc = call[x].pc /\ call'[x].op = call[x].op /\ call'[x].seen = call[x].seen,
         late' \subseteq late, UNCHANGED setting
  PROVE  CInv'
<1>1. rev \in Nat /\ rev' = rev + 1 /\ kv' = Written(w) /\ kv'.rev = rev + 1
  BY Zenon DEF Apply, Written, KInv, IInv, TypeOK
<1>2. \A e \in Entries : ClaimGood(e) => ClaimGood(e)'
  BY <1>1 DEF ClaimGood, Entries
<1>3. \A x \in Brokers : call[x].seen \in Entries /\ PlaceOK(call[x])
  BY Zenon DEF KInv, IInv, CInv, TypeOK, Places
<1>4. Places'
  <2> SUFFICES ASSUME NEW x \in Brokers PROVE PlaceOK(call[x])'
    BY Zenon DEF Places
  <2>1. CASE call'[x].pc = "idle" /\ call'[x].op = "none"
    BY Zenon, <2>1 DEF PlaceOK
  <2>2. CASE call'[x].pc = call[x].pc /\ call'[x].op = call[x].op /\ call'[x].seen = call[x].seen
    BY ZenonT(100), <1>2, <1>3, <2>2 DEF PlaceOK
  <2> QED
    BY Zenon, <2>1, <2>2
<1>5. LateOK'
  BY Zenon, <1>2 DEF KInv, CInv, LateOK, IInv, TypeOK
<1>6. OwnerOK'
  <2>1. setting.key = "job" /\ Live' => kv'.val = w.by /\ w.by \in Brokers
    BY <1>1 DEF Live, Written, OpsOf, WriteRecs
  <2> QED
    BY Zenon, <2>1 DEF OwnerOK
<1> QED
  BY Zenon, <1>4, <1>5, <1>6 DEF CInv

\* A step that returns and writes nothing.
LEMMA AnswerPlaces ==
  ASSUME KInv, NEW b \in Brokers, NEW a, Answer(b, a), UNCHANGED <<setting, kv, rev>>,
         late' = late \/ (late' = late \cup {WriteOf(b)} /\ call[b].pc \in {"write", "purge"})
  PROVE  CInv'
<1>1. /\ call' = [call EXCEPT ![b] = Ended(call[b].hit)]
      /\ PlaceOK(Ended(call[b].hit))
  BY Zenon DEF Answer, Returns, Ended, NoCall, PlaceOK
<1> QED
  BY Zenon, <1>1, CallPlaces

\* A step to another place of the call.
LEMMA GotoPlaces ==
  ASSUME KInv, NEW b \in Brokers, NEW pc, Goto(b, pc), UNCHANGED <<setting, kv, rev>>,
         PlaceOK([call[b] EXCEPT !.pc = pc]),
         late' = late \/ (late' = late \cup {WriteOf(b)} /\ call[b].pc \in {"write", "purge"})
  PROVE  CInv'
<1>1. call' = [call EXCEPT ![b] = [call[b] EXCEPT !.pc = pc]]
  BY Zenon DEF Goto
<1> QED
  BY Zenon, <1>1, CallPlaces

\* A write that is answered.
LEMMA DonePlaces ==
  ASSUME KInv, NEW b \in Brokers, NEW w \in WriteRecs, NEW a, NEW base \in [Brokers -> CallRecs],
         Apply(w), w.op \in OpsOf[setting.key], Returns(b, a, base),
         \A x \in Brokers : base[x].pc = call[x].pc /\ base[x].op = call[x].op
                              /\ base[x].seen = call[x].seen,
         late' = late, UNCHANGED setting
  PROVE  CInv'
<1>1. call' = [base EXCEPT ![b] = Ended(base[b].hit)]
  BY Zenon DEF Returns, Ended
<1>2. Ended(base[b].hit).pc = "idle" /\ Ended(base[b].hit).op = "none"
  BY Zenon DEF Ended, NoCall
<1>3. \A x \in Brokers :
           \/ call'[x].pc = "idle" /\ call'[x].op = "none"
           \/ call'[x].pc = call[x].pc /\ call'[x].op = call[x].op /\ call'[x].seen = call[x].seen
  BY Zenon, <1>1, <1>2
<1> QED
  BY Zenon, <1>3, WritePlaces

\* Calls that start and connect are where First puts them.
LEMMA FirstPlace ==
  ASSUME NEW op, NEW c, c.op = op, c.pc = First(op)
  PROVE  PlaceOK(c)
BY Zenon DEF First, PlaceOK, Removes, Unsupported, Nats, Memory

\* Starting, connecting and scanning.
LEMMA GoOnPlaces ==
  ASSUME KInv, NEW b \in Brokers,
         \/ \E op \in OpsOf[setting.key] : Start(b, op)
         \/ Connect(b) \/ Leases(b) \/ Probe(b) \/ Watch(b)
  PROVE  CInv'
<1>0. call[b] \in CallRecs /\ PlaceOK(call[b])
  BY Zenon DEF KInv, IInv, TypeOK, CallRecs, CInv, Places
<1>1. ASSUME NEW op \in OpsOf[setting.key], Start(b, op) PROVE CInv'
  <2> DEFINE pc == IF Memory \/ Unsupported \/ b \in conn THEN First(op) ELSE "connect"
             c == [NoCall EXCEPT !.op = op, !.pc = pc]
  <2>1. c.op = op /\ c.pc = pc /\ call' = [call EXCEPT ![b] = c]
    BY Zenon, <1>1 DEF Start, NoCall
  <2>2. PlaceOK(c)
    <3>1. CASE pc = "connect"
      BY Zenon, <2>1, <3>1 DEF PlaceOK
    <3>2. CASE pc = First(op)
      BY Zenon, <2>1, <3>2, FirstPlace
    <3> QED
      BY Zenon, <3>1, <3>2
  <2> HIDE DEF c
  <2> QED
    BY Zenon, <1>1, <2>1, <2>2, CallPlaces DEF Start
<1>2. CASE Connect(b)
  <2> DEFINE c == [call[b] EXCEPT !.pc = First(call[b].op)]
  <2>1. c.op = call[b].op /\ c.pc = First(call[b].op)
    BY Zenon, <1>0 DEF CallRecs
  <2>2. PlaceOK(c)
    BY Zenon, <2>1, FirstPlace
  <2> QED
    BY Zenon, <1>2, <2>2, GotoPlaces DEF Connect
<1>3. CASE Leases(b)
  <2> DEFINE c == [call[b] EXCEPT !.live = lease, !.pc = IF Memory THEN "run" ELSE "probe"]
  <2>1. c.op = call[b].op /\ c.pc \in {"run", "probe"} /\ call' = [call EXCEPT ![b] = c]
    BY Zenon, <1>0, <1>3 DEF CallRecs, Leases
  <2>2. call[b].op \in {"list", "reclaim"}
    BY Zenon, <1>0, <1>3 DEF Leases, PlaceOK
  <2>3. PlaceOK(c)
    BY Zenon, <2>1, <2>2 DEF PlaceOK
  <2> HIDE DEF c
  <2> QED
    BY Zenon, <1>3, <2>1, <2>3, CallPlaces DEF Leases
<1>4. CASE Probe(b)
  <2> DEFINE c == [call[b] EXCEPT !.pc = "watch"]
  <2>1. c.op = call[b].op /\ c.pc = "watch" /\ call[b].op \in {"list", "reclaim"}
    BY Zenon, <1>0, <1>4 DEF CallRecs, Probe, PlaceOK
  <2>2. PlaceOK(c)
    BY Zenon, <2>1 DEF PlaceOK
  <2> QED
    BY Zenon, <1>4, <2>2, GotoPlaces, AnswerPlaces DEF Probe
<1>5. CASE Watch(b)
  <2>1. CASE call[b].op = "reclaim" /\ Dead(b)
    <3> DEFINE c == [call[b] EXCEPT !.pc = "purge", !.seen = kv]
    <3>1. c.op = "reclaim" /\ c.pc = "purge" /\ call' = [call EXCEPT ![b] = c]
      BY Zenon, <1>0, <1>5, <2>1 DEF CallRecs, Watch
    <3>2. PlaceOK(c)
      BY Zenon, <3>1 DEF PlaceOK, Removes
    <3> HIDE DEF c
    <3> QED
      BY Zenon, <1>5, <3>1, <3>2, CallPlaces DEF Watch
  <2>2. CASE ~(call[b].op = "reclaim" /\ Dead(b))
    BY Zenon, <1>5, <2>2, AnswerPlaces DEF Watch
  <2> QED
    BY Zenon, <2>1, <2>2
<1> QED
  BY Zenon, <1>1, <1>2, <1>3, <1>4, <1>5

\* A probe always finds its answer in the entry.
LEMMA ProbeAnswered ==
  ASSUME KInv, NEW b \in Brokers, call[b].op = "probe", setting.key = "job"
  PROVE  FromEntry(b) # NoAnswer
<1>1. kv.op = "put" => kv.val # NoBroker
  BY Zenon, StoreAssumption DEF KInv, CInv, OwnerOK, Live
<1> QED
  BY Zenon, <1>1 DEF FromEntry, ClaimFrom, Claimant, Expected, NoAnswer

\* A claim that goes on has read the hinted broker's record.
LEMMA ClaimReads ==
  ASSUME KInv, NEW b \in Brokers, call[b].op = "claim", FromEntry(b) = NoAnswer
  PROVE  ClaimGood(kv)
<1>1. kv.op = "put" /\ kv.val = Hint
  BY Zenon DEF FromEntry, ClaimFrom, Claimant, Expected, NoAnswer
<1> QED
  BY Zenon, <1>1 DEF ClaimGood, KInv, IInv, CounterOK

\* The operation of a call under way is one of the key's.
LEMMA OpOfKey ==
  ASSUME KInv, NEW b \in Brokers, call[b].pc # "idle"
  PROVE  /\ call[b].op \in OpsOf[setting.key]
         /\ setting.key \in {"slot", "job", "user"}
         /\ call[b].op = "alloc" <=> setting.key = "slot"
         /\ setting.key = "job" <=> call[b].op \in {"upsert", "delete", "claim", "probe"}
BY DEF KInv, IInv, CallsOK, SettingOK, OpsOf

\* Reading, being refused, looking again.
LEMMA ReadPlaces ==
  ASSUME KInv, NEW b \in Brokers, Read(b) \/ Refused(b) \/ Reread(b)
  PROVE  CInv'
<1>0. call[b] \in CallRecs /\ PlaceOK(call[b])
  BY Zenon DEF KInv, IInv, TypeOK, CallRecs, CInv, Places
<1>1. CASE Read(b)
  <2>1. CASE FromEntry(b) # NoAnswer
    BY Zenon, <1>1, <2>1, AnswerPlaces DEF Read
  <2>2. CASE FromEntry(b) = NoAnswer
    <3> DEFINE c == [call[b] EXCEPT !.pc = "write", !.seen = kv]
    <3>1. c.op = call[b].op /\ c.pc = "write" /\ c.seen = kv /\ call' = [call EXCEPT ![b] = c]
      BY Zenon, <1>0, <1>1, <2>2 DEF CallRecs, Read
    <3>2. call[b].op # "probe"
      BY Zenon, <1>1, <2>2, OpOfKey, ProbeAnswered DEF Read
    <3>3. PlaceOK(c)
      BY Zenon, <2>2, <3>1, <3>2, ClaimReads DEF PlaceOK
    <3> HIDE DEF c
    <3> QED
      BY Zenon, <1>1, <3>1, <3>3, CallPlaces DEF Read
  <2> QED
    BY Zenon, <2>1, <2>2
<1>2. CASE Refused(b)
  <2>1. /\ call[b].pc = "write" /\ call[b].op # "probe" /\ UNCHANGED <<setting, kv, rev, late>>
    BY Zenon, <1>0, <1>2 DEF Refused, PlaceOK
  <2>2. CASE AllocRetry(b)
    <3>1. PlaceOK([call[b] EXCEPT !.pc = "read"])
      BY Zenon, <1>0 DEF PlaceOK, CallRecs
    <3> QED
      BY Zenon, <2>1, <2>2, <3>1, GotoPlaces DEF AllocRetry
  <2>3. CASE call[b].op \in {"claim", "reserve"} /\ Goto(b, "reread")
    <3>1. PlaceOK([call[b] EXCEPT !.pc = "reread"])
      BY Zenon, <1>0, <2>3 DEF PlaceOK, CallRecs
    <3> QED
      BY Zenon, <2>1, <2>3, <3>1, GotoPlaces
  <2>4. CASE call' = [call EXCEPT ![b].pc = "read", ![b].tries = @ + 1]
    <3> DEFINE c == [call[b] EXCEPT !.pc = "read", !.tries = @ + 1]
    <3>1. PlaceOK(c) /\ call' = [call EXCEPT ![b] = c]
      BY Zenon, <1>0, <2>4 DEF PlaceOK, CallRecs
    <3> HIDE DEF c
    <3> QED
      BY Zenon, <2>1, <3>1, CallPlaces
  <2> QED
    BY ZenonT(100), <1>2, <2>1, <2>2, <2>3, <2>4, AnswerPlaces DEF Refused, ClaimRetry
<1>3. CASE Reread(b)
  BY Zenon, <1>3, AnswerPlaces DEF Reread
<1> QED
  BY Zenon, <1>1, <1>2, <1>3

\* Writing, at the server or in memory, failing, giving up.
LEMMA WritesPlaces ==
  ASSUME KInv, NEW b \in Brokers, Write(b) \/ Purge(b) \/ Run(b) \/ Fail(b) \/ GiveUp(b)
  PROVE  CInv'
<1>0. /\ call[b] \in CallRecs /\ PlaceOK(call[b]) /\ call[b].pc # "idle"
      /\ call \in [Brokers -> CallRecs] /\ kv \in Entries
  BY Zenon DEF KInv, IInv, TypeOK, CallRecs, CInv, Places, Write, Purge, Run, Fail, GiveUp
<1> DEFINE base == IF call[b].op \in Removes THEN Marked ELSE call
<1>1. /\ base \in [Brokers -> CallRecs] /\ Marked \in [Brokers -> CallRecs]
      /\ \A x \in Brokers : /\ base[x].pc = call[x].pc /\ base[x].op = call[x].op
                             /\ base[x].seen = call[x].seen
                             /\ Marked[x].pc = call[x].pc /\ Marked[x].op = call[x].op
                             /\ Marked[x].seen = call[x].seen
  BY Zenon, <1>0, MarkedType DEF KInv
<1>2. /\ WriteOf(b) \in WriteRecs /\ WriteOf(b).op = call[b].op
      /\ WriteOf(b).op \in OpsOf[setting.key]
  BY Zenon, <1>0, WriteOfType DEF KInv
<1>3. CASE Write(b)
  <2>1. Apply(WriteOf(b)) /\ Returns(b, Done(WriteOf(b)), base) /\ late' = late /\ UNCHANGED setting
    BY ZenonT(100), <1>3 DEF Write
  <2> HIDE DEF base
  <2> QED
    BY Zenon, <1>1, <1>2, <2>1, DonePlaces
<1>4. CASE Purge(b)
  <2>1. CASE Apply(WriteOf(b)) /\ Returns(b, Done(WriteOf(b)), Marked) /\ UNCHANGED <<late, faults>>
    BY ZenonT(100), <1>1, <1>2, <1>4, <2>1, DonePlaces DEF Purge
  <2>2. CASE Goto(b, "write") /\ UNCHANGED <<kv, rev>>
             /\ (late' = late \/ late' = late \cup {WriteOf(b)})
    <3>1. call[b].op \in Removes /\ call[b].pc = "purge"
      BY Zenon, <1>0, <1>4 DEF Purge, PlaceOK
    <3>2. PlaceOK([call[b] EXCEPT !.pc = "write"])
      BY Zenon, <1>0, <3>1 DEF PlaceOK, CallRecs, Removes
    <3> QED
      BY Zenon, <1>4, <2>2, <3>1, <3>2, GotoPlaces DEF Purge
  <2> QED
    BY ZenonT(100), ZenonT(100), <1>4, <2>1, <2>2 DEF Purge
<1>5. CASE Run(b)
  <2> DEFINE w == [WriteOf(b) EXCEPT !.seen = kv]
  <2>1. w \in WriteRecs /\ w.op = call[b].op
    BY ZenonT(100), <1>0, <1>2 DEF WriteRecs
  <2>2. CASE Apply(w) /\ Returns(b, Done(w), base)
    <3>1. late' = late /\ UNCHANGED setting
      BY Zenon, <1>5 DEF Run
    <3> HIDE DEF base, w
    <3> QED
      BY ZenonT(100), <1>1, <1>2, <2>1, <2>2, <3>1, DonePlaces
  <2>3. CASE UNCHANGED <<kv, rev>> /\ \E a : Answer(b, a)
    BY ZenonT(100), <1>5, <2>3, AnswerPlaces DEF Run
  <2> QED
    BY Zenon, <1>5, <2>2, <2>3 DEF Run
<1>6. CASE Fail(b) \/ GiveUp(b)
  BY <1>6, AnswerPlaces DEF Fail, GiveUp
<1> QED
  BY Zenon, <1>3, <1>4, <1>5, <1>6

\* A late write, and what time does to the key.
LEMMA LatePlaces ==
  ASSUME KInv, TombstoneExpires \/ \E w \in late : Land(w)
  PROVE  CInv'
<1>1. CASE TombstoneExpires
  <2>1. kv.op = "del" /\ kv' = Missing /\ kv'.op = "none" /\ kv'.rev = 0 /\ UNCHANGED <<rev, late, call, setting>>
    BY Zenon, <1>1 DEF TombstoneExpires, Missing
  <2>2. \A e : ClaimGood(e) => ClaimGood(e)'
    BY <2>1 DEF ClaimGood
  <2>3. Places' /\ LateOK'
    BY Zenon, <2>1, <2>2 DEF KInv, CInv, Places, PlaceOK, LateOK
  <2> QED
    BY Zenon, <2>1, <2>3 DEF CInv, OwnerOK, Live
<1>2. ASSUME NEW w \in late, Land(w) PROVE CInv'
  <2>1. /\ w \in WriteRecs /\ w.op \in OpsOf[setting.key] /\ late' \subseteq late /\ UNCHANGED setting
    BY Zenon, <1>2 DEF KInv, IInv, TypeOK, ReadsOK, WriteRecs, Land
  <2>2. CASE Applies(w)
    <3>1. \A x \in Brokers : call'[x].pc = call[x].pc /\ call'[x].op = call[x].op
                               /\ call'[x].seen = call[x].seen
      BY Zenon, <1>2, <2>2, MarkedType DEF Land, KInv
    <3> QED
      BY Zenon, <1>2, <2>1, <2>2, <3>1, WritePlaces DEF Land
  <2>3. CASE ~Applies(w)
    <3>1. UNCHANGED <<kv, rev, call>>
      BY Zenon, <1>2, <2>3 DEF Land
    <3> QED
      BY ZenonT(100), <2>1, <3>1 DEF KInv, CInv, Places, PlaceOK, LateOK, ClaimGood, OwnerOK, Live
  <2> QED
    BY Zenon, <2>2, <2>3
<1> QED
  BY Zenon, <1>1, <1>2

\* CInv is kept, with the invariant of the slots, and so holds in every reachable
\* state: a claim is written only by a broker that read the hinted broker as owner.
THEOREM Known == Spec => []KInv
<1>1. Init => CInv
  <2> SUFFICES ASSUME Init PROVE CInv
    BY Zenon
  <2>1. PICK s \in Settings : setting.key = s.key /\ kv = s.kv
    BY DEF Init
  <2>2. OwnerOK
    BY Zenon, <2>1, StoreAssumption DEF OwnerOK, Live
  <2>3. Places /\ LateOK
    BY Zenon DEF Init, Places, PlaceOK, NoCall, LateOK
  <2> QED
    BY ZenonT(100), <2>2, <2>3 DEF CInv
<1>2. ASSUME IInv, CInv, [Next]_vars PROVE CInv'
  <2>0. KInv /\ setting.brokers \subseteq Brokers
    BY <1>2 DEF KInv, IInv, SettingOK
  <2>1. ASSUME NEW b \in setting.brokers, NEW op \in OpsOf[setting.key], Start(b, op)
        PROVE  CInv'
    BY <2>0, <2>1, GoOnPlaces
  <2>2. ASSUME NEW b \in setting.brokers, Step(b) \/ Fail(b) PROVE CInv'
    BY Zenon, <2>0, <2>2, GoOnPlaces, ReadPlaces, WritesPlaces DEF Step
  <2>3. ASSUME NEW b \in setting.brokers, upsert_broker_lease(b) \/ LeaseEnds(b)
        PROVE  UNCHANGED <<setting, kv, rev, late, call>>
    BY Zenon, <2>3 DEF upsert_broker_lease, LeaseEnds
  <2>4. ASSUME UNCHANGED <<setting, kv, rev, late, call>> PROVE CInv'
    BY ZenonT(100), <1>2, <2>4 DEF CInv, Places, PlaceOK, LateOK, OwnerOK, ClaimGood, Live
  <2>5. ASSUME NEW w \in late, Land(w) PROVE CInv'
    BY Zenon, <2>0, <2>5, LatePlaces
  <2>6. CASE TombstoneExpires
    BY Zenon, <2>0, <2>6, LatePlaces
  <2>7. CASE UNCHANGED vars
    BY Zenon, <2>4, <2>7 DEF vars
  <2> QED
    BY ZenonT(100), <1>2, <2>1, <2>2, <2>3, <2>4, <2>5, <2>6, <2>7 DEF Next
<1> QED
  BY <1>1, <1>2, Inductive, PTL DEF Spec, KInv

-----------------------------------------------------------------------------
(* Every step is one of the contract's *)

Owner == IF setting.key = "job" /\ Live THEN kv.val ELSE NoBroker
NextSlot == IF setting.key = "slot" THEN next_slot(kv) ELSE 0
Seen == [b \in Brokers |-> IF setting.key = "user" THEN NoAnswer
                           ELSE IF call[b].pc = "idle" THEN answer[b] ELSE Pending]
Unsure == IF setting.key = "user" THEN {} ELSE late

Simulates == Contract!Next \/ UNCHANGED <<Owner, NextSlot, Seen, Unsure>>

\* Every broker has an answer.
Answered == answer = [b \in Brokers |-> answer[b]]

\* The call of b under way returns a; the others' go on.
Ends(b, a) ==
  /\ setting.key # "user" /\ setting' = setting /\ call[b].pc # "idle"
  /\ answer' = [answer EXCEPT ![b] = a]
  /\ \A x \in Brokers : call'[x].pc = IF x = b THEN "idle" ELSE call[x].pc

\* Whoever returns ends the call.
LEMMA ReturnEnds ==
  ASSUME NEW b \in Brokers, NEW a, NEW base \in [Brokers -> CallRecs], Returns(b, a, base),
         \A x \in Brokers : base[x].pc = call[x].pc,
         setting.key # "user", setting' = setting, call[b].pc # "idle"
  PROVE  Ends(b, a)
<1>1. call' = [base EXCEPT ![b] = Ended(base[b].hit)] /\ answer' = [answer EXCEPT ![b] = a]
  BY Zenon DEF Returns, Ended
<1>2. Ended(base[b].hit).pc = "idle"
  BY Zenon DEF Ended, NoCall
<1>3. \A x \in Brokers : call'[x].pc = IF x = b THEN "idle" ELSE call[x].pc
  BY Zenon, <1>1, <1>2
<1> QED
  BY Zenon, <1>1, <1>3 DEF Ends

\* A return that leaves the other calls as they are.
LEMMA AnswerEnds ==
  ASSUME KInv, NEW b \in Brokers, NEW a, Answer(b, a),
         setting.key # "user", setting' = setting, call[b].pc # "idle"
  PROVE  Ends(b, a)
<1>1. call \in [Brokers -> CallRecs]
  BY Zenon DEF KInv, IInv, TypeOK, CallRecs
<1> QED
  BY Zenon, <1>1, ReturnEnds DEF Answer

\* Nothing is seen of the keys of per-user slots.
LEMMA UserUnseen ==
  ASSUME setting.key = "user", setting' = setting
  PROVE  Simulates
BY Zenon DEF Simulates, Owner, NextSlot, Seen, Unsure

\* The answers as the contract has them, while calls neither start nor return.
LEMMA SeenKept ==
  ASSUME UNCHANGED <<setting, answer>>,
         \A x \in Brokers : call'[x].pc = "idle" <=> call[x].pc = "idle"
  PROVE  Seen' = Seen
BY Zenon DEF Seen

\* Steps inside a call.
LEMMA Unseen ==
  ASSUME UNCHANGED <<setting, kv, late, answer>>,
         \A x \in Brokers : call'[x].pc = "idle" <=> call[x].pc = "idle"
  PROVE  Simulates
BY Zenon, SeenKept DEF Simulates, Owner, NextSlot, Unsure, Live, next_slot

\* Steps that leave the calls alone.
LEMMA SameUnseen ==
  ASSUME UNCHANGED <<setting, kv, late, answer, call>>
  PROVE  Simulates
BY Zenon, Unseen

\* The answer of one broker as the contract has it.
LEMMA SeenOne ==
  ASSUME Answered, setting.key # "user", setting' = setting, NEW b \in Brokers, NEW a,
         \A x \in Brokers : x # b => call'[x].pc = call[x].pc /\ answer'[x] = answer[x],
         (IF call'[b].pc = "idle" THEN answer'[b] ELSE Pending) = a
  PROVE  Seen' = [Seen EXCEPT ![b] = a]
BY Zenon DEF Seen

\* A return as the contract has it.
LEMMA ReturnSeen ==
  ASSUME Answered, NEW b \in Brokers, NEW a, Ends(b, a)
  PROVE  Contract!Returns(b, a)
<1>1. /\ setting.key # "user" /\ setting' = setting /\ call[b].pc # "idle" /\ call'[b].pc = "idle"
      /\ \A x \in Brokers : x # b => call'[x].pc = call[x].pc /\ answer'[x] = answer[x]
      /\ answer'[b] = a
  BY Zenon DEF Ends, Answered
<1>2. Seen' = [Seen EXCEPT ![b] = a]
  BY Zenon, <1>1, SeenOne
<1>3. Seen[b] = Contract!Pending
  BY Zenon, <1>1 DEF Seen, Pending, Contract!Pending
<1> QED
  BY Zenon, <1>2, <1>3 DEF Contract!Returns, Seen

\* The same, of a call that leaves no request of unknown fate behind.
LEMMA AnswerSeen ==
  ASSUME Answered, NEW b \in Brokers, NEW a, Ends(b, a), late' = late
  PROVE  Contract!Answer(b, a)
<1>1. UNCHANGED Unsure
  BY Zenon DEF Unsure, Ends
<1> QED
  BY Zenon, <1>1, ReturnSeen DEF Contract!Answer, Unsure

\* What a call finds in the entry and returns.
LEMMA EntryKeeps ==
  ASSUME KInv, Answered, NEW b \in Brokers, NEW a, a = FromEntry(b), a # NoAnswer,
         Ends(b, a), UNCHANGED <<kv, late>>
  PROVE  Contract!Next
<1>0. call[b].pc # "idle" /\ setting.key # "user" /\ setting' = setting
  BY Zenon DEF Ends
<1>1. Contract!Answer(b, a)
  BY Zenon, AnswerSeen
<1>2. UNCHANGED <<Owner, NextSlot>>
  BY Zenon, <1>0 DEF Owner, NextSlot, Live, next_slot
<1>3. kv.op = "put" /\ setting.key = "job" => kv.val \in Brokers /\ kv.val # NoBroker
  BY Zenon, StoreAssumption DEF KInv, CInv, OwnerOK, Live
<1>4. CASE setting.key = "slot"
  <2>1. call[b].op = "alloc"
    BY Zenon, <1>0, <1>4, OpOfKey
  <2>2. a = [res |-> "SlotExhausted"] /\ next_slot(kv) > U16Max
    BY ZenonT(60), <2>1 DEF FromEntry, AllocFrom
  <2>3. Contract!Allocate(b)
    BY SMTT(60), <1>1, <1>2, <1>4, <2>2 DEF Contract!Allocate, Owner, NextSlot, Contract!MaxSlot, U16Max
  <2> QED
    BY Zenon, <2>3 DEF Contract!Next
<1>5. CASE setting.key = "job" /\ call[b].op = "claim"
  <2>1. \/ Owner = NoBroker /\ a = [res |-> "NotFound"]
        \/ Owner = b /\ a = [res |-> "Claimed"]
        \/ Owner \notin {NoBroker, b} /\ a = [res |-> "Active", owner |-> Owner]
    BY Zenon, <1>3, <1>5 DEF FromEntry, ClaimFrom, Claimant, Expected, Owner, Live, NoAnswer
  <2>2. Contract!Claim(b)
    BY ZenonT(100), <1>1, <1>2, <2>1 DEF Contract!Claim, Owner, NextSlot
  <2> QED
    BY Zenon, <2>2 DEF Contract!Next
<1>6. CASE setting.key = "job" /\ call[b].op = "probe"
  <2>1. a = IF Owner = NoBroker THEN [res |-> "NotFound"] ELSE [res |-> "Active", owner |-> Owner]
    BY Zenon, <1>3, <1>6 DEF FromEntry, ClaimFrom, Claimant, Expected, Owner, Live, NoAnswer
  <2>2. Contract!Present(b)
    BY Zenon, <1>1, <1>2, <2>1 DEF Contract!Present, Owner, NextSlot
  <2> QED
    BY <2>2 DEF Contract!Next
<1>7. ASSUME setting.key = "job" PROVE call[b].op \in {"claim", "probe"}
  BY Zenon, <1>0, <1>7, OpOfKey DEF FromEntry
<1> QED
  BY ZenonT(100), <1>0, <1>4, <1>5, <1>6, <1>7, OpOfKey

\* What an accepted write does to the record and the counter.
LEMMA WriteSeen ==
  ASSUME KInv, NEW w \in WriteRecs, w.op \in OpsOf[setting.key] \ {"probe"}, Apply(w),
         setting' = setting, setting.key \in {"slot", "job"},
         w.op = "alloc" => next_slot(w.seen) = next_slot(kv)
  PROVE  /\ w.op = "alloc" => NextSlot = next_slot(kv) /\ NextSlot' = NextSlot + 1 /\ Owner' = Owner
         /\ w.op \in {"claim", "upsert"} => Owner' = w.by /\ NextSlot' = NextSlot
         /\ w.op = "delete" => Owner' = NoBroker /\ NextSlot' = NextSlot
         /\ w.op \in {"alloc", "claim", "upsert", "delete"}
<1>1. kv' = Written(w)
  BY ZenonT(100) DEF Apply
<1>2. CASE setting.key = "slot"
  BY SMTT(60), <1>1, <1>2 DEF OpsOf, Written, Owner, NextSlot, next_slot, Removes
<1>3. CASE setting.key = "job"
  BY <1>1, <1>3 DEF OpsOf, Written, Owner, NextSlot, next_slot, Live, Removes
<1> QED
  BY Zenon, <1>2, <1>3

\* The contract's last slot is the last u16.
LEMMA LastSlot == \A n \in 0..U16Max : n <= Contract!MaxSlot
<1>1. U16Max = Contract!MaxSlot
  BY DEF U16Max, Contract!MaxSlot
<1>2. \A n \in 0..U16Max : n <= U16Max
  BY Widths
<1> QED
  BY Zenon, <1>1, <1>2

\* A write that is accepted and answered.
LEMMA DoneKeeps ==
  ASSUME KInv, Answered, NEW w \in WriteRecs, w.op \in OpsOf[setting.key] \ {"probe"}, Apply(w),
         setting.key \in {"slot", "job"},
         w.op = "alloc" => next_slot(w.seen) = next_slot(kv) /\ next_slot(kv) \in 0..U16Max,
         w.op = "claim" => kv.op = "put" /\ kv.val = Hint,
         Ends(w.by, Done(w)), UNCHANGED <<setting, late>>
  PROVE  Contract!Next
<1>1. w.by \in Brokers /\ Contract!Answer(w.by, Done(w))
  BY ZenonT(100), AnswerSeen DEF WriteRecs
<1>2. CASE w.op = "alloc"
  <2>1. NextSlot = next_slot(kv) /\ NextSlot' = NextSlot + 1 /\ Owner' = Owner
    BY Zenon, <1>2, WriteSeen
  <2>2. next_slot(w.seen) = NextSlot /\ NextSlot \in 0..U16Max
    BY Zenon, <1>2, <2>1
  <2>3. Done(w) = [res |-> "Slot", slot |-> NextSlot]
    BY Zenon, <1>2, <2>2 DEF Done
  <2>4. NextSlot <= Contract!MaxSlot
    BY Zenon, <2>2, LastSlot
  <2>5. Contract!Allocate(w.by)
    BY ZenonT(100), <1>1, <2>1, <2>3, <2>4 DEF Contract!Allocate, Owner, NextSlot
  <2> QED
    BY SMTT(60), <1>1, <2>5 DEF Contract!Next
<1>3. CASE w.op = "claim"
  <2>1. Owner = Hint /\ Owner' = w.by /\ NextSlot' = NextSlot
    <3>1. setting.key = "job"
      BY <1>3 DEF OpsOf
    <3> QED
      BY ZenonT(100), <1>3, <3>1, WriteSeen DEF Owner, Live
  <2>2. Done(w) = [res |-> "Claimed"]
    BY ZenonT(100), <1>3 DEF Done
  <2>3. Contract!Claim(w.by)
    BY ZenonT(100), ZenonT(100), <1>1, <2>1, <2>2 DEF Contract!Claim, Owner, NextSlot
  <2> QED
    BY ZenonT(100), <1>1, <2>3 DEF Contract!Next
<1>4. CASE w.op = "upsert"
  <2>1. Contract!Upsert(w.by)
    BY ZenonT(100), ZenonT(100), <1>1, <1>4, WriteSeen DEF Contract!Upsert, Done, Owner, NextSlot
  <2> QED
    BY ZenonT(100), ZenonT(100), <1>1, <2>1 DEF Contract!Next
<1>5. CASE w.op = "delete"
  <2>1. Contract!Delete(w.by)
    BY Zenon, <1>1, <1>5, WriteSeen DEF Contract!Delete, Done, Owner, NextSlot
  <2> QED
    BY <1>1, <2>1 DEF Contract!Next
<1> QED
  BY Zenon, <1>2, <1>3, <1>4, <1>5, WriteSeen

\* A call that fails, with or without a write of unknown fate behind it.
LEMMA BackendKeeps ==
  ASSUME KInv, Answered, NEW b \in Brokers, Ends(b, [res |-> "Backend"]), UNCHANGED kv,
         late' = late \/ (late' = late \cup {WriteOf(b)} /\ call[b].pc \in {"write", "purge"})
  PROVE  Contract!Next
<1>0. call[b].pc # "idle" /\ setting.key # "user" /\ setting' = setting
  BY Zenon DEF Ends
<1>1. UNCHANGED <<Owner, NextSlot>>
  BY Zenon, <1>0 DEF Owner, NextSlot, Live, next_slot
<1>2. Unsure' = Unsure \/ Contract!Loses(b, {"claim", "upsert", "delete", "alloc"})
  <2>1. CASE late' = late
    BY Zenon, <1>0, <2>1 DEF Unsure
  <2>2. CASE late' = late \cup {WriteOf(b)} /\ call[b].pc \in {"write", "purge"}
    <3>1. PlaceOK(call[b])
      BY Zenon DEF KInv, CInv, Places
    <3>2. call[b].op \in {"claim", "upsert", "delete", "alloc"}
      BY Zenon, <1>0, <2>2, <3>1, OpOfKey DEF PlaceOK, Removes
    <3>3. WriteOf(b).by = b /\ WriteOf(b).op = call[b].op
      BY Zenon, WriteIs
    <3>4. Unsure' = Unsure \cup {WriteOf(b)}
      BY Zenon, <1>0, <2>2 DEF Unsure
    <3> QED
      BY Zenon, <3>2, <3>3, <3>4 DEF Contract!Loses, Unsure
  <2> QED
    BY Zenon, <2>1, <2>2
<1>3. Contract!Returns(b, [res |-> "Backend"])
  BY Zenon, ReturnSeen
<1>4. Contract!Fail(b)
  BY Zenon, <1>1, <1>2, <1>3 DEF Contract!Fail, Owner, NextSlot, Unsure
<1> QED
  BY Zenon, <1>4 DEF Contract!Next

\* A step of a call.
LEMMA StepKeeps ==
  ASSUME KInv, Answered, NEW b \in Brokers, Step(b) \/ Fail(b)
  PROVE  Simulates
<1>0. /\ call[b].pc # "idle" /\ UNCHANGED setting /\ PlaceOK(call[b])
  BY Zenon DEF Step, Fail, Connect, Read, Write, Refused, Reread, Purge, Leases, Probe, Watch, Run, GiveUp,
         KInv, CInv, Places
<1>1. CASE setting.key = "user"
  BY Zenon, <1>0, <1>1, UserUnseen
<1>2. CASE setting.key # "user"
  <2>0. /\ setting.key \in {"slot", "job"} /\ call[b].op \in OpsOf[setting.key]
        /\ call[b].op \in {"alloc", "upsert", "delete", "claim", "probe"}
        /\ call[b].pc \notin {"leases", "probe", "watch"}
        /\ call[b].pc = "purge" => call[b].op = "delete"
        /\ call[b].pc = "reread" => call[b].op = "claim"
    BY ZenonT(100), <1>0, <1>2, OpOfKey DEF PlaceOK, Removes
  <2>1. /\ WriteOf(b) \in WriteRecs /\ WriteOf(b).by = b
        /\ WriteOf(b).op = call[b].op /\ WriteOf(b).seen = call[b].seen
        /\ WriteOf(b).op \in OpsOf[setting.key]
    BY Zenon, <1>0, WriteIs, WriteOfType DEF KInv
  <2>e. call[b] \in CallRecs
    BY Zenon DEF KInv, IInv, TypeOK, CallRecs
  <2>a. ASSUME NEW a, Answer(b, a) PROVE Ends(b, a)
    BY Zenon, <1>0, <1>2, <2>a, AnswerEnds
  <2>b. ASSUME NEW c, call' = [call EXCEPT ![b] = c], c.pc # "idle", UNCHANGED <<kv, late, answer>>
        PROVE  Simulates
    <3>1. \A x \in Brokers : call'[x].pc = "idle" <=> call[x].pc = "idle"
      BY Zenon, <1>0, <2>b DEF KInv, IInv, TypeOK
    <3> QED
      BY Zenon, <1>0, <2>b, <3>1, Unseen
  <2>c. ASSUME NEW pc, Goto(b, pc), pc # "idle", UNCHANGED <<kv, late>> PROVE Simulates
    <3>1. call' = [call EXCEPT ![b] = [call[b] EXCEPT !.pc = pc]] /\ UNCHANGED answer
      BY Zenon, <2>c DEF Goto
    <3>2. [call[b] EXCEPT !.pc = pc].pc = pc
      BY Zenon, <2>e DEF CallRecs
    <3> QED
      BY Zenon, <2>b, <2>c, <3>1, <3>2
  <2>d. ASSUME NEW a, Returns(b, a, IF call[b].op \in Removes THEN Marked ELSE call) PROVE Ends(b, a)
    <3> DEFINE base == IF call[b].op \in Removes THEN Marked ELSE call
    <3>1. base \in [Brokers -> CallRecs] /\ \A x \in Brokers : base[x].pc = call[x].pc
      BY Zenon, MarkedType DEF KInv, IInv, TypeOK, CallRecs
    <3>2. Returns(b, a, base)
      BY Zenon, <2>d
    <3> HIDE DEF base
    <3> QED
      BY Zenon, <1>0, <1>2, <3>1, <3>2, ReturnEnds
  <2>2. CASE Connect(b)
    <3>1. Goto(b, First(call[b].op)) /\ UNCHANGED <<kv, late>> /\ First(call[b].op) # "idle"
      BY Zenon, <2>2 DEF Connect, First
    <3> QED
      BY Zenon, <2>c, <3>1
  <2>3. CASE Read(b)
    <3>1. CASE FromEntry(b) # NoAnswer
      BY ZenonT(100), <2>3, <2>a, <3>1, EntryKeeps DEF Read, Simulates
    <3>2. CASE FromEntry(b) = NoAnswer
      <4> DEFINE c == [call[b] EXCEPT !.pc = "write", !.seen = kv]
      <4>1. call' = [call EXCEPT ![b] = c] /\ c.pc # "idle" /\ UNCHANGED <<kv, late, answer>>
        BY Zenon, <2>3, <2>e, <3>2 DEF Read, CallRecs
      <4> HIDE DEF c
      <4> QED
        BY Zenon, <2>b, <4>1
    <3> QED
      BY Zenon, <3>1, <3>2
  <2>4. CASE Write(b)
    <3>1. call[b].op # "probe" /\ Apply(WriteOf(b)) /\ Applies(WriteOf(b)) /\ call[b].pc = "write"
          /\ Ends(b, Done(WriteOf(b))) /\ late' = late
      BY Zenon, <1>0, <2>4, <2>d DEF Write, PlaceOK
    <3>2. ASSUME call[b].op = "alloc"
          PROVE  next_slot(call[b].seen) = next_slot(kv) /\ next_slot(kv) \in 0..U16Max
      <4>1. Good(call[b].seen)
        BY ZenonT(100), <3>1, <3>2 DEF KInv, IInv, ReadsOK
      <4>2. next_slot(call[b].seen) = next_slot(kv)
        BY SMTT(60), <2>1, <3>1, <3>2, <4>1, AppliesFresh
      <4> QED
        BY Zenon, <4>1, <4>2 DEF Good
    <3>3. ASSUME call[b].op = "claim" PROVE kv.op = "put" /\ kv.val = Hint
      <4>1. ClaimGood(call[b].seen)
        BY <1>0, <3>1, <3>3 DEF PlaceOK
      <4> QED
        BY ZenonT(100), <2>1, <3>1, <3>3, <4>1 DEF Applies, Removes, ClaimGood
    <3>4. Contract!Next
      BY ZenonT(100), <1>0, <2>0, <2>1, <3>1, <3>2, <3>3, DoneKeeps
    <3> QED
      BY Zenon, <3>4 DEF Simulates
  <2>5. CASE Refused(b)
    <3>1. UNCHANGED <<kv, late>>
      BY <2>5 DEF Refused
    <3>2. CASE Goto(b, "read") \/ Goto(b, "reread")
      BY Zenon, <2>c, <3>1, <3>2
    <3>5. CASE call' = [call EXCEPT ![b].pc = "read", ![b].tries = @ + 1] /\ UNCHANGED answer
      <4> DEFINE c == [call[b] EXCEPT !.pc = "read", !.tries = @ + 1]
      <4>1. call' = [call EXCEPT ![b] = c] /\ c.pc # "idle"
        BY Zenon, <2>e, <3>5 DEF CallRecs
      <4> HIDE DEF c
      <4> QED
        BY Zenon, <2>b, <3>1, <3>5, <4>1
    <3>3. CASE Answer(b, [res |-> "Backend"])
      BY Zenon, <2>a, <3>1, <3>3, BackendKeeps DEF Simulates
    <3>4. CASE Answer(b, [res |-> "Conflict"])
      <4>1. Contract!Answer(b, [res |-> "Conflict"])
        BY Zenon, <2>a, <3>1, <3>4, AnswerSeen
      <4>2. Contract!Claim(b)
        BY ZenonT(100), ZenonT(100), <1>0, <3>1, <4>1 DEF Contract!Claim, Live, next_slot
      <4> QED
        BY Zenon, <4>2 DEF Contract!Next, Simulates
    <3> QED
      BY ZenonT(100), <2>0, <2>5, <3>2, <3>3, <3>4, <3>5 DEF Refused, AllocRetry, ClaimRetry
  <2>6. CASE Reread(b)
    <3>1. Answer(b, LookAgain(b)) /\ UNCHANGED <<kv, late>> /\ setting.key = "job"
      BY ZenonT(100), ZenonT(100), <1>0, <2>0, <2>6, OpOfKey DEF Reread
    <3>2. kv.op = "put" => kv.val \in Brokers /\ kv.val # NoBroker
      BY SMTT(60), <3>1, StoreAssumption DEF KInv, CInv, OwnerOK, Live
    <3>3. \/ Owner = NoBroker /\ LookAgain(b) = [res |-> "NotFound"]
          \/ Owner = b /\ LookAgain(b) = [res |-> "Claimed"]
          \/ Owner \notin {NoBroker, b} /\ LookAgain(b) = [res |-> "Active", owner |-> Owner]
      BY Zenon, <3>1, <3>2 DEF LookAgain, Owner, Live
    <3>4. Contract!Answer(b, LookAgain(b))
      BY Zenon, <2>a, <3>1, AnswerSeen
    <3>5. UNCHANGED <<Owner, NextSlot>>
      BY ZenonT(100), <1>0, <3>1 DEF Owner, NextSlot, Live, next_slot
    <3>6. Contract!Claim(b)
      BY SMTT(60), <3>3, <3>4, <3>5 DEF Contract!Claim, Owner, NextSlot
    <3> QED
      BY Zenon, <3>6 DEF Contract!Next, Simulates
  <2>7. CASE Purge(b)
    <3>0. call[b].op = "delete"
      BY ZenonT(100), <2>0, <2>7 DEF Purge
    <3>1. CASE Apply(WriteOf(b)) /\ Returns(b, Done(WriteOf(b)), Marked) /\ UNCHANGED <<late, faults>>
      <4>1. Ends(b, Done(WriteOf(b)))
        BY Zenon, <2>d, <3>0, <3>1 DEF Removes
      <4>2. Contract!Next
        BY ZenonT(100), <1>0, <2>0, <2>1, <3>0, <3>1, <4>1, DoneKeeps
      <4> QED
        BY Zenon, <4>2 DEF Simulates
    <3>2. CASE Goto(b, "write") /\ UNCHANGED <<kv, rev, late, faults>>
      BY Zenon, <2>c, <3>2
    <3>3. CASE late' = late \cup {WriteOf(b)} /\ Goto(b, "write") /\ UNCHANGED <<kv, rev>>
      <4>1. Unsure' = Unsure \cup {WriteOf(b)}
        BY Zenon, <1>0, <1>2, <3>3 DEF Unsure
      <4>2. Contract!Loses(b, {"delete"})
        BY Zenon, <2>1, <3>0, <4>1 DEF Contract!Loses, Unsure
      <4>3. \A x \in Brokers : call'[x].pc = "idle" <=> call[x].pc = "idle"
        BY Zenon, <1>0, <3>3 DEF Goto, KInv, IInv, TypeOK
      <4>4. UNCHANGED <<Owner, NextSlot, Seen>>
        BY Zenon, <1>0, <3>3, <4>3, SeenKept DEF Owner, NextSlot, Live, next_slot, Goto
      <4>5. Seen[b] = Contract!Pending
        BY Zenon, <1>0, <1>2 DEF Seen, Pending, Contract!Pending
      <4>6. Contract!Repeat(b)
        BY ZenonT(100), <4>2, <4>4, <4>5 DEF Contract!Repeat, Owner, NextSlot, Seen
      <4> QED
        BY Zenon, <4>6 DEF Contract!Next, Simulates
    <3> QED
      BY ZenonT(100), <2>7, <3>1, <3>2, <3>3 DEF Purge
  <2>8. CASE Run(b)
    <3> DEFINE w == [WriteOf(b) EXCEPT !.seen = kv]
    <3>0. ~Unsupported /\ late' = late
      BY Zenon, <1>2, <2>8 DEF Unsupported, Run
    <3>1. CASE FromEntry(b) # NoAnswer
      BY ZenonT(100), <2>8, <2>a, <3>0, <3>1, EntryKeeps DEF Run, Simulates
    <3>2. CASE FromEntry(b) = NoAnswer
      <4>1. Apply(w) /\ Ends(b, Done(w))
        BY ZenonT(100), <2>0, <2>8, <2>d, <3>0, <3>2 DEF Run
      <4>2. w \in WriteRecs /\ w.op = call[b].op /\ w.by = b /\ w.seen = kv
        BY Zenon, <2>1 DEF WriteRecs, KInv, IInv, TypeOK
      <4>3. call[b].op # "probe"
        BY ZenonT(100), <1>0, <3>2, OpOfKey, ProbeAnswered
      <4>4. ASSUME call[b].op = "alloc" PROVE next_slot(kv) \in 0..U16Max
        <5>1. next_slot(kv) \in Nat /\ ~(next_slot(kv) > U16Max)
          BY ZenonT(100), <1>0, <3>2, <4>4, OpOfKey DEF FromEntry, AllocFrom, NoAnswer, KInv, IInv, CounterOK
        <5> QED
          BY <5>1, Widths
      <4>5. ASSUME call[b].op = "claim" PROVE kv.op = "put" /\ kv.val = Hint
        BY ZenonT(100), <3>2, <4>5, ClaimReads DEF ClaimGood
      <4> HIDE DEF w
      <4>6. Contract!Next
        BY ZenonT(100), <1>0, <2>0, <3>0, <4>1, <4>2, <4>3, <4>4, <4>5, DoneKeeps
      <4> QED
        BY Zenon, <4>6 DEF Simulates
    <3> QED
      BY Zenon, <3>1, <3>2
  <2>9. CASE Fail(b)
    BY ZenonT(100), <2>9, <2>a, BackendKeeps DEF Fail, Simulates
  <2>10. ~(Leases(b) \/ Probe(b) \/ Watch(b) \/ GiveUp(b))
    BY Zenon, <2>0 DEF Leases, Probe, Watch, GiveUp
  <2> QED
    BY ZenonT(100), <2>2, <2>3, <2>4, <2>5, <2>6, <2>7, <2>8, <2>9, <2>10 DEF Step
<1> QED
  BY Zenon, <1>1, <1>2

\* A call begins.
LEMMA StartKeeps ==
  ASSUME KInv, Answered, NEW b \in Brokers, NEW op, Start(b, op)
  PROVE  Simulates
<1>1. CASE setting.key = "user"
  BY Zenon, <1>1, UserUnseen DEF Start
<1>2. CASE setting.key # "user"
  <2>1. call[b].pc = "idle" /\ call'[b].pc # "idle" /\ UNCHANGED <<setting, kv, late>>
    BY Zenon DEF Start, First, NoCall, KInv, IInv, TypeOK
  <2>2. \A x \in Brokers : x # b => call'[x].pc = call[x].pc /\ answer'[x] = answer[x]
    BY Zenon DEF Start, KInv, IInv, TypeOK, Answered
  <2>3. Seen' = [Seen EXCEPT ![b] = Pending]
    BY Zenon, <1>2, <2>1, <2>2, SeenOne
  <2>5. Contract!Begin(b)
    BY Zenon, <2>1, <2>3 DEF Contract!Begin, Contract!Pending, Pending, Seen, Live, next_slot
  <2> QED
    BY Zenon, <2>5 DEF Contract!Next, Simulates
<1> QED
  BY Zenon, <1>1, <1>2

\* A write given up on arrives, or is refused by the server and so lost.
LEMMA LandKeeps ==
  ASSUME KInv, NEW w \in late, Land(w)
  PROVE  Simulates
<1>1. CASE setting.key = "user"
  BY Zenon, <1>1, UserUnseen DEF Land
<1>2. CASE setting.key # "user"
  <2>1. /\ w \in WriteRecs /\ w.by \in Brokers /\ w.op \in OpsOf[setting.key] \ {"probe"}
        /\ w.op = "alloc" => Good(w.seen)
        /\ w.op = "claim" => ClaimGood(w.seen)
        /\ UNCHANGED <<setting, answer>> /\ late' = late \ {w}
    BY ZenonT(100) DEF KInv, IInv, CInv, TypeOK, ReadsOK, LateOK, WriteRecs, Land
  <2>2. setting.key \in {"slot", "job"} /\ w.op \in {"claim", "upsert", "delete", "alloc"}
    BY <1>2, <2>1 DEF OpsOf, KInv, IInv, SettingOK
  <2>3. w \in Unsure /\ Unsure' = Unsure \ {w}
    BY Zenon, <1>2, <2>1 DEF Unsure
  <2>4. UNCHANGED Seen
    <3>1. \A x \in Brokers : call'[x].pc = call[x].pc
      BY Zenon, MarkedType DEF Land, KInv
    <3> QED
      BY Zenon, <2>1, <3>1, SeenKept
  <2>5. CASE ~Applies(w)
    <3>1. UNCHANGED <<Owner, NextSlot>>
      BY ZenonT(100), <2>1, <2>5 DEF Land, Owner, NextSlot, Live, next_slot
    <3>2. Contract!Land(w)
      BY ZenonT(100), <2>3, <2>4, <3>1 DEF Contract!Land, Owner, NextSlot, Seen, Unsure
    <3> QED
      BY Zenon, <2>3, <3>2 DEF Contract!Next, Simulates, Unsure
  <2>6. CASE Applies(w)
    <3>1. Apply(w)
      BY Zenon, <2>6 DEF Land
    <3>2. w.op = "alloc" => next_slot(w.seen) = next_slot(kv)
      BY ZenonT(100), <2>1, <2>6, AppliesFresh
    <3>3. w.op = "claim" => Owner = Hint
      BY SMTT(60), <2>1, <2>2, <2>6 DEF Applies, Removes, ClaimGood, Owner, Live, OpsOf
    <3>4. /\ w.op = "alloc" => NextSlot' = NextSlot + 1 /\ Owner' = Owner
          /\ w.op \in {"claim", "upsert"} => Owner' = w.by /\ NextSlot' = NextSlot
          /\ w.op = "delete" => Owner' = NoBroker /\ NextSlot' = NextSlot
      BY ZenonT(100), <2>1, <2>2, <3>1, <3>2, WriteSeen
    <3>5. Contract!Land(w)
      BY ZenonT(100), <2>2, <2>3, <2>4, <3>3, <3>4 DEF Contract!Land, Owner, NextSlot, Seen, Unsure
    <3> QED
      BY Zenon, <2>3, <3>5 DEF Contract!Next, Simulates, Unsure
  <2> QED
    BY ZenonT(100), <2>5, <2>6
<1> QED
  BY Zenon, <1>1, <1>2

\* Every step keeps an answer for every broker.
LEMMA AnsweredKept ==
  ASSUME Answered, [Next]_vars
  PROVE  Answered'
<1>1. \/ answer' = answer
      \/ \E b \in Brokers : \E a : answer' = [answer EXCEPT ![b] = a]
  <2>1. ASSUME NEW b, Step(b) \/ Fail(b) \/ \E op : Start(b, op)
        PROVE  answer' = answer \/ \E a : answer' = [answer EXCEPT ![b] = a]
    BY ZenonT(100), <2>1 DEF Step, Fail, Start, Connect, Read, Write, Refused, AllocRetry, ClaimRetry, Reread,
       Purge, Leases, Probe, Watch, Run, GiveUp, Goto, Answer, Returns
  <2>2. CASE ~\E b \in setting.brokers : Step(b) \/ Fail(b) \/ \E op : Start(b, op)
    BY ZenonT(100), <2>2 DEF Next, vars, Land, TombstoneExpires, upsert_broker_lease, LeaseEnds
  <2>3. answer' = answer \/ \E b : \E a : answer' = [answer EXCEPT ![b] = a]
    BY Zenon, <2>1, <2>2
  <2> QED
    BY <2>3 DEF Answered
<1> QED
  BY <1>1 DEF Answered

\* The three backends implement StoreContract, over the network and with failed
\* and late writes: the initial states map to the contract's, and every step to
\* one of its steps or to none.
THEOREM ContractCorrect == Spec => KeepsContract
<1>1. ASSUME KInv, Answered, [Next]_vars PROVE Simulates
  <2>0. setting.brokers \subseteq Brokers
    BY Zenon, <1>1 DEF KInv, IInv, SettingOK
  <2>1. ASSUME NEW b \in setting.brokers, NEW op \in OpsOf[setting.key], Start(b, op)
        PROVE  Simulates
    BY Zenon, <1>1, <2>0, <2>1, StartKeeps
  <2>2. ASSUME NEW b \in setting.brokers, Step(b) \/ Fail(b) PROVE Simulates
    BY Zenon, <1>1, <2>0, <2>2, StepKeeps
  <2>3. ASSUME NEW b \in setting.brokers, upsert_broker_lease(b) \/ LeaseEnds(b)
        PROVE  Simulates
    BY Zenon, <2>3, SameUnseen DEF upsert_broker_lease, LeaseEnds
  <2>4. ASSUME NEW w \in late, Land(w) PROVE Simulates
    BY Zenon, <1>1, <2>4, LandKeeps
  <2>5. CASE TombstoneExpires
    <3>1. kv.op = "del" /\ kv'.op = "none" /\ UNCHANGED <<setting, late, answer, call>>
      BY Zenon, <2>5 DEF TombstoneExpires, Missing
    <3> QED
      BY Zenon, <3>1 DEF Simulates, Owner, NextSlot, Seen, Unsure, Live, next_slot
  <2>6. CASE UNCHANGED vars
    BY Zenon, <2>6, SameUnseen DEF vars
  <2> QED
    BY ZenonT(100), <1>1, <2>1, <2>2, <2>3, <2>4, <2>5, <2>6 DEF Next
<1>2. Init => Contract!Init
  <2> SUFFICES ASSUME Init PROVE Contract!Init
    BY Zenon
  <2>1. PICK s \in Settings : setting.key = s.key /\ kv = s.kv
    BY DEF Init
  <2>2. Owner \in Brokers \cup {NoBroker} /\ NextSlot \in Nat
    BY Zenon, <2>1, StoreAssumption DEF Owner, NextSlot, Live, next_slot
  <2>3. Seen = [b \in Brokers |-> Contract!NoAnswer] /\ Unsure = {}
    <3>1. \A b \in Brokers : call[b].pc = "idle" /\ answer[b] = NoAnswer
      BY Zenon DEF Init, NoCall
    <3>2. NoAnswer = Contract!NoAnswer
      BY Zenon DEF NoAnswer, Contract!NoAnswer
    <3>3. Unsure = {}
      BY Zenon DEF Init, Unsure
    <3> QED
      BY <3>1, <3>2, <3>3 DEF Seen
  <2> QED
    BY Zenon, <2>2, <2>3 DEF Contract!Init, Owner, NextSlot, Seen, Unsure
<1>3. Simulates => [Contract!Next]_(Contract!vars)
  BY Zenon DEF Simulates, Contract!vars, Owner, NextSlot, Seen, Unsure
<1>4. KInv /\ Answered /\ [Next]_vars => [Contract!Next]_(Contract!vars)
  BY Zenon, <1>1, <1>3
<1>a. Init => Answered
  BY Zenon DEF Init, Answered
<1>b. Answered /\ [Next]_vars => Answered'
  BY Zenon, AnsweredKept
<1>5. KeepsContract <=> Contract!Init /\ [][Contract!Next]_(Contract!vars)
  BY Zenon DEF KeepsContract, Contract!Spec
<1> QED
  BY <1>2, <1>4, <1>5, <1>a, <1>b, Known, PTL DEF Spec

-----------------------------------------------------------------------------
(* Per-user slots.  A reservation is not replaced: the server or the mutex      *)
(* accepts one only on a key without a value, so a value goes only by a         *)
(* removal, which every call under way and every answer held is marked with.    *)

\* Where a call on a per-user slot can be: TiKV refuses it at once, MemoryStore
\* runs it under its mutex, and a list never comes to a write.
UserPlace(c) ==
  setting.key = "user" =>
    /\ c.pc \notin {"idle", "run"} => ~Unsupported
    /\ c.pc \notin {"idle", "run", "leases"} => Nats
    /\ c.op = "list" => c.pc \in {"connect", "probe", "watch", "run"}

\* A reservation that found a value looks for its revision.
Found(c) == (c.op = "reserve" /\ c.pc = "reread" /\ ~c.hit) => Live

\* What holds of one broker's call and answer.
Fine(b) ==
  /\ UserPlace(call[b]) /\ Found(call[b])
  /\ answer[b].res = "Seq" => setting.key = "user"
  /\ (answer[b].res = "Seq" /\ ~call[b].hit) => (Live /\ kv.rev = answer[b].seq)

RInv ==
  /\ \A b \in Brokers : Fine(b)
  /\ setting.key = "user" => \A w \in late : Nats /\ w.op # "list"
  /\ answer = [b \in Brokers |-> answer[b]]

\* A step of one broker's call that writes nothing.
LEMMA CallListed ==
  ASSUME KInv, RInv, NEW b \in Brokers, UNCHANGED <<setting, kv>>,
         \A x \in Brokers : x # b => call'[x] = call[x] /\ answer'[x] = answer[x],
         answer' = [x \in Brokers |-> answer'[x]], Fine(b)',
         late' = late \/ (late' = late \cup {WriteOf(b)} /\ call[b].pc \in {"write", "purge"})
  PROVE  RInv'
<1>1. ASSUME NEW x \in Brokers PROVE Fine(x)'
  <2>1. CASE x = b
    BY Zenon, <2>1
  <2>2. CASE x # b
    BY ZenonT(100), <2>2 DEF RInv, Fine, UserPlace, Found, Live, Nats, Unsupported
  <2> QED
    BY Zenon, <2>1, <2>2
<1>2. ASSUME setting.key = "user", NEW w \in late' PROVE Nats /\ w.op # "list"
  <2>1. CASE w \in late
    BY ZenonT(100), <1>2, <2>1 DEF RInv
  <2>2. CASE w = WriteOf(b) /\ call[b].pc \in {"write", "purge"}
    BY Zenon, <1>2, <2>2, WriteIs DEF RInv, Fine, UserPlace
  <2> QED
    BY Zenon, <1>2, <2>1, <2>2
<1> QED
  BY Zenon, <1>1, <1>2 DEF RInv, Nats

\* A step that returns and writes nothing: a sequence number is the revision of
\* the entry, unless it was removed since the call started.
LEMMA AnswerListed ==
  ASSUME KInv, RInv, NEW b \in Brokers, NEW a, Answer(b, a), UNCHANGED <<setting, kv>>,
         a.res = "Seq" => setting.key = "user" /\ (~call[b].hit => Live /\ kv.rev = a.seq),
         late' = late \/ (late' = late \cup {WriteOf(b)} /\ call[b].pc \in {"write", "purge"})
  PROVE  RInv'
<1>1. /\ call' = [call EXCEPT ![b] = Ended(call[b].hit)] /\ answer' = [answer EXCEPT ![b] = a]
      /\ Ended(call[b].hit).pc = "idle" /\ Ended(call[b].hit).op = "none"
      /\ Ended(call[b].hit).hit = call[b].hit
  BY Zenon DEF Answer, Returns, Ended, NoCall
<1>2. \A x \in Brokers : x # b => call'[x] = call[x] /\ answer'[x] = answer[x]
  BY Zenon, <1>1 DEF RInv, KInv, IInv, TypeOK
<1>3. call'[b].pc = "idle" /\ call'[b].op = "none" /\ answer'[b] = a /\ call'[b].hit = call[b].hit
  BY Zenon, <1>1 DEF RInv, KInv, IInv, TypeOK
<1>4. answer' = [x \in Brokers |-> answer'[x]]
  BY Zenon, <1>1 DEF RInv
<1>5. Fine(b)'
  BY Zenon, <1>3 DEF Fine, UserPlace, Found, Live
<1> QED
  BY ZenonT(100), <1>2, <1>4, <1>5, CallListed

\* A step to another place of the call, and what else it changes there.
LEMMA MovedListed ==
  ASSUME KInv, RInv, NEW b \in Brokers, NEW c, call' = [call EXCEPT ![b] = c],
         c.op = call[b].op, c.hit = call[b].hit, UserPlace(c), Found(c),
         UNCHANGED <<setting, kv, answer>>,
         late' = late \/ (late' = late \cup {WriteOf(b)} /\ call[b].pc \in {"write", "purge"})
  PROVE  RInv'
<1>1. \A x \in Brokers : call'[x] = IF x = b THEN c ELSE call[x]
  BY Zenon DEF KInv, IInv, TypeOK
<1>2. Fine(b)'
  BY ZenonT(100), <1>1 DEF RInv, Fine, UserPlace, Found, Live, Nats, Unsupported
<1>3. answer' = [x \in Brokers |-> answer'[x]]
  BY Zenon DEF RInv
<1> QED
  BY ZenonT(100), <1>1, <1>2, <1>3, CallListed

\* An accepted write.
LEMMA WriteListed ==
  ASSUME KInv, RInv, NEW w \in WriteRecs, w.op \in OpsOf[setting.key], Apply(w),
         setting.key = "user" => w.op \in Removes \/ (w.op = "reserve" /\ ~Live),
         \A x \in Brokers :
           /\ \/ call'[x].pc = "idle" /\ call'[x].op = "none"
              \/ call'[x].pc = call[x].pc /\ call'[x].op = call[x].op
           /\ call'[x].hit = IF w.op \in Removes THEN TRUE ELSE call[x].hit
           /\ \/ answer'[x] = answer[x]
              \/ answer'[x].res = "Seq" => w.op = "reserve" /\ answer'[x].seq = rev + 1,
         answer' = [x \in Brokers |-> answer'[x]],
         late' \subseteq late, UNCHANGED setting
  PROVE  RInv'
<1>1. kv' = Written(w) /\ kv'.rev = rev + 1 /\ (w.op \notin Removes => Live')
  BY ZenonT(100) DEF Apply, Written, Live
<1>2. w.op = "reserve" => setting.key = "user" /\ w.op \notin Removes
  BY DEF KInv, IInv, SettingOK, OpsOf, Removes
<1>3. ASSUME NEW x \in Brokers PROVE Fine(x)'
  <2>1. Fine(x)
    BY Zenon DEF RInv
  <2>2. UserPlace(call[x])'
    BY Zenon, <2>1 DEF Fine, UserPlace, Nats, Unsupported
  <2>3. Found(call[x])'
    BY Zenon, <1>1, <2>1 DEF Fine, Found
  <2>4. answer'[x].res = "Seq" => setting.key = "user"
    <3>1. answer[x].res = "Seq" => setting.key = "user"
      BY Zenon, <2>1 DEF Fine
    <3>2. \/ answer'[x] = answer[x]
          \/ answer'[x].res = "Seq" => w.op = "reserve"
      BY Zenon
    <3> QED
      BY SMTT(60), <1>2, <3>1, <3>2
  <2>5. (answer'[x].res = "Seq" /\ ~call'[x].hit) => (Live' /\ kv'.rev = answer'[x].seq)
    <3>1. CASE answer'[x] = answer[x]
      <4>1. ASSUME answer[x].res = "Seq", ~call'[x].hit PROVE FALSE
        BY ZenonT(100), <2>1, <4>1 DEF Fine
      <4> QED
        BY Zenon, <3>1, <4>1
    <3>2. CASE answer'[x].res = "Seq" => w.op = "reserve" /\ answer'[x].seq = rev + 1
      BY ZenonT(100), <1>1, <1>2, <3>2
    <3> QED
      BY Zenon, <3>1, <3>2
  <2> QED
    BY ZenonT(100), <2>2, <2>3, <2>4, <2>5 DEF Fine
<1> QED
  BY Zenon, <1>3 DEF RInv, Nats

\* A write of broker b, answered.
LEMMA DoneListed ==
  ASSUME KInv, RInv, NEW b \in Brokers, NEW w \in WriteRecs, w.op \in OpsOf[setting.key], Apply(w),
         setting.key = "user" => w.op \in Removes \/ (w.op = "reserve" /\ ~Live),
         Returns(b, Done(w), IF w.op \in Removes THEN Marked ELSE call),
         late' = late, UNCHANGED setting
  PROVE  RInv'
<1>1. PICK base : base = IF w.op \in Removes THEN Marked ELSE call
  BY ZenonT(100)
<1>2. /\ base \in [Brokers -> CallRecs]
      /\ \A x \in Brokers : base[x].pc = call[x].pc /\ base[x].op = call[x].op
  BY ZenonT(100), <1>1, MarkedType DEF KInv, IInv, TypeOK, CallRecs
<1>3. \A x \in Brokers : base[x].hit = IF w.op \in Removes THEN TRUE ELSE call[x].hit
  <2>1. \A x \in Brokers : Marked[x].hit = TRUE
    BY DEF Marked, KInv, IInv, TypeOK
  <2> QED
    BY ZenonT(100), <1>1, <2>1
<1>4. /\ call' = [base EXCEPT ![b] = Ended(base[b].hit)] /\ answer' = [answer EXCEPT ![b] = Done(w)]
      /\ Ended(base[b].hit).pc = "idle" /\ Ended(base[b].hit).op = "none"
      /\ Ended(base[b].hit).hit = base[b].hit
  BY ZenonT(100), <1>1 DEF Returns, Ended, NoCall
<1>5. Done(w).res = "Seq" => w.op = "reserve" /\ Done(w).seq = rev + 1
  BY DEF Done
<1>6. ASSUME NEW x \in Brokers
      PROVE  /\ \/ call'[x].pc = "idle" /\ call'[x].op = "none"
                \/ call'[x].pc = call[x].pc /\ call'[x].op = call[x].op
             /\ call'[x].hit = IF w.op \in Removes THEN TRUE ELSE call[x].hit
             /\ \/ answer'[x] = answer[x]
                \/ answer'[x].res = "Seq" => w.op = "reserve" /\ answer'[x].seq = rev + 1
  <2>1. call'[x] = IF x = b THEN Ended(base[b].hit) ELSE base[x]
    BY ZenonT(100), <1>2, <1>4
  <2>2. answer'[x] = IF x = b THEN Done(w) ELSE answer[x]
    BY Zenon, <1>4 DEF RInv
  <2> QED
    BY ZenonT(100), <1>2, <1>3, <1>4, <1>5, <2>1, <2>2
<1>7. answer' = [x \in Brokers |-> answer'[x]]
  BY Zenon, <1>4 DEF RInv
<1> QED
  BY Zenon, <1>6, <1>7, WriteListed

\* Where a call on a per-user slot starts.
LEMMA FirstUser ==
  ASSUME SettingOK, NEW op, NEW pc \in {"connect", First(op)},
         pc = "connect" => (setting.key = "user" => Nats)
  PROVE  /\ setting.key = "user" =>
              /\ pc \notin {"idle", "run"} => ~Unsupported
              /\ pc \notin {"idle", "run", "leases"} => Nats
              /\ op = "list" => pc \in {"connect", "probe", "run"}
         /\ pc # "reread"
<1>1. CASE pc = "connect"
  BY Zenon, <1>1 DEF Unsupported, Nats
<1>2. CASE pc = First(op)
  <2>1. First(op) # "reread"
    BY Zenon DEF First
  <2>2. ASSUME setting.key = "user"
        PROVE  /\ First(op) \notin {"idle", "run"} => ~Unsupported
               /\ First(op) \notin {"idle", "run", "leases"} => Nats
               /\ op = "list" => First(op) \in {"connect", "probe", "run"}
    <3>1. CASE Unsupported
      BY Zenon, <3>1 DEF First
    <3>2. CASE ~Unsupported
      <4>1. setting.backend \in {"memory", "nats"}
        BY Zenon, <2>2, <3>2 DEF SettingOK, Unsupported
      <4>2. CASE Memory
        BY Zenon, <3>2, <4>2 DEF First
      <4>3. CASE ~Memory
        BY ZenonT(100), <3>2, <4>1, <4>3 DEF First, Memory, Nats
      <4> QED
        BY Zenon, <4>2, <4>3
    <3> QED
      BY Zenon, <3>1, <3>2
  <2> QED
    BY ZenonT(100), <1>2, <2>1, <2>2
<1> QED
  BY Zenon, <1>1, <1>2

\* Starting and connecting.
LEMMA StartListed ==
  ASSUME KInv, RInv, NEW b \in Brokers,
         (\E op \in OpsOf[setting.key] : Start(b, op)) \/ Connect(b)
  PROVE  RInv'
<1>0. SettingOK
  BY Zenon DEF KInv, IInv
<1>1. ASSUME NEW op \in OpsOf[setting.key], Start(b, op) PROVE RInv'
  <2>1. PICK pc : pc = IF Memory \/ Unsupported \/ b \in conn THEN First(op) ELSE "connect"
    BY Zenon
  <2>2. /\ call' = [call EXCEPT ![b] = [NoCall EXCEPT !.op = op, !.pc = pc]]
        /\ answer' = [answer EXCEPT ![b] = NoAnswer] /\ UNCHANGED <<setting, kv, late>>
    BY Zenon, <1>1, <2>1 DEF Start
  <2>3. \A x \in Brokers : x # b => call'[x] = call[x] /\ answer'[x] = answer[x]
    BY Zenon, <2>2 DEF RInv, KInv, IInv, TypeOK
  <2>4. call'[b].pc = pc /\ call'[b].op = op /\ answer'[b].res # "Seq"
    BY Zenon, <2>2 DEF RInv, KInv, IInv, TypeOK, NoCall, NoAnswer
  <2>5. pc \in {"connect", First(op)} /\ (pc = "connect" => (setting.key = "user" => Nats))
    BY Zenon, <1>0, <2>1 DEF First, SettingOK, Unsupported, Memory, Nats
  <2>6. Fine(b)'
    <3>1. /\ setting.key = "user" =>
              /\ pc \notin {"idle", "run"} => ~Unsupported
              /\ pc \notin {"idle", "run", "leases"} => Nats
              /\ op = "list" => pc \in {"connect", "probe", "run"}
          /\ pc # "reread"
      BY Zenon, <1>0, <2>5, FirstUser
    <3> QED
      BY ZenonT(100), <2>2, <2>4, <3>1 DEF Fine, UserPlace, Found, Nats, Unsupported
  <2>7. answer' = [x \in Brokers |-> answer'[x]]
    BY Zenon, <2>2 DEF RInv
  <2> QED
    BY ZenonT(100), <2>2, <2>3, <2>6, <2>7, CallListed
<1>2. CASE Connect(b)
  <2>1. PICK pc, op : pc = First(op) /\ op = call[b].op
    BY Zenon
  <2>2. PICK c : c = [call[b] EXCEPT !.pc = pc]
    BY Zenon
  <2>3. call' = [call EXCEPT ![b] = c] /\ UNCHANGED <<setting, kv, answer, late>> /\ call[b].pc = "connect"
    BY ZenonT(100), <1>2, <2>1, <2>2 DEF Connect, Goto
  <2>4. c.pc = pc /\ c.op = op /\ c.hit = call[b].hit
    BY SMTT(60), <2>1, <2>2 DEF KInv, IInv, TypeOK
  <2>5. setting.key = "user" => Nats
    BY Zenon, <2>3 DEF RInv, Fine, UserPlace
  <2>6. UserPlace(c) /\ Found(c)
    <3>1. /\ setting.key = "user" =>
              /\ pc \notin {"idle", "run"} => ~Unsupported
              /\ pc \notin {"idle", "run", "leases"} => Nats
              /\ op = "list" => pc \in {"connect", "probe", "run"}
          /\ pc # "reread"
      BY ZenonT(100), <1>0, <2>1, <2>5, FirstUser
    <3> QED
      BY Zenon, <2>4, <3>1 DEF UserPlace, Found
  <2> QED
    BY ZenonT(100), <2>1, <2>3, <2>4, <2>6, MovedListed
<1> QED
  BY Zenon, <1>1, <1>2

\* Steps of a call that write nothing.
LEMMA ReadListed ==
  ASSUME KInv, RInv, NEW b \in Brokers,
         Read(b) \/ Refused(b) \/ Reread(b) \/ Leases(b) \/ Probe(b) \/ Watch(b) \/ Fail(b) \/ GiveUp(b)
  PROVE  RInv'
<1>0. /\ UserPlace(call[b]) /\ Found(call[b]) /\ PlaceOK(call[b]) /\ UNCHANGED <<setting, kv>>
      /\ call[b].op \in OpsOf[setting.key]
  BY ZenonT(100) DEF RInv, Fine, KInv, IInv, CInv, CallsOK, Places, Read, Refused, Reread, Leases, Probe, Watch,
         Fail, GiveUp
<1>1. call[b].op = "reserve" => setting.key = "user"
  BY SMTT(60), <1>0 DEF OpsOf, KInv, IInv, SettingOK
<1>2. \A pc : [call[b] EXCEPT !.pc = pc].pc = pc /\ [call[b] EXCEPT !.pc = pc].op = call[b].op
              /\ [call[b] EXCEPT !.pc = pc].hit = call[b].hit
  BY DEF KInv, IInv, TypeOK
<1>3. CASE Read(b)
  <2>0. call[b].pc = "read" /\ late' = late
    BY ZenonT(100), <1>3 DEF Read
  <2>1. CASE FromEntry(b) # NoAnswer
    <3>1. PICK a : a = FromEntry(b)
      BY Zenon
    <3>2. Answer(b, a)
      BY ZenonT(100), <1>3, <2>1, <3>1 DEF Read
    <3>3. a.res = "Seq" => call[b].op = "reserve" /\ Live /\ kv.rev = a.seq
      BY <3>1 DEF FromEntry, AllocFrom, ClaimFrom, ReserveFrom, NoAnswer, Live
    <3> QED
      BY ZenonT(100), <1>0, <1>1, <2>0, <3>2, <3>3, AnswerListed
  <2>2. CASE FromEntry(b) = NoAnswer
    <3>1. PICK c : c = [call[b] EXCEPT !.pc = "write", !.seen = kv]
      BY Zenon
    <3>2. call' = [call EXCEPT ![b] = c] /\ answer' = answer
      BY ZenonT(100), <1>3, <2>2, <3>1 DEF Read
    <3>3. c.op = call[b].op /\ c.hit = call[b].hit /\ c.pc = "write"
      BY SMTT(60), <3>1 DEF KInv, IInv, TypeOK
    <3>4. UserPlace(c) /\ Found(c)
      BY ZenonT(100), ZenonT(100), <1>0, <2>0, <3>3 DEF UserPlace, Found
    <3> QED
      BY ZenonT(100), <1>0, <2>0, <3>2, <3>3, <3>4, MovedListed
  <2> QED
    BY Zenon, <2>1, <2>2
<1>4. CASE Refused(b)
  <2>0. call[b].pc = "write" /\ late' = late /\ ~Applies(WriteOf(b))
    BY <1>4 DEF Refused
  <2>1. CASE call[b].op = "alloc" /\ AllocRetry(b)
    <3>1. PICK c : c = [call[b] EXCEPT !.pc = "read"]
      BY Zenon
    <3>2. call' = [call EXCEPT ![b] = c] /\ answer' = answer
      BY ZenonT(100), <2>1, <3>1 DEF AllocRetry, Goto
    <3>3. c.op = call[b].op /\ c.hit = call[b].hit /\ c.pc = "read" /\ UserPlace(c) /\ Found(c)
      BY ZenonT(100), <1>0, <1>2, <2>0, <2>1, <3>1 DEF UserPlace, Found
    <3> QED
      BY ZenonT(100), <1>0, <2>0, <3>2, <3>3, MovedListed
  <2>2. CASE call[b].op = "claim" /\ ClaimRetry(b)
    <3>0. setting.key # "user"
      BY SMTT(60), <1>0, <2>2 DEF OpsOf
    <3>1. CASE call[b].tries + 1 < MAX_CAS_ATTEMPTS
      <4>1. PICK c : c = [call[b] EXCEPT !.pc = "read", !.tries = @ + 1]
        BY Zenon
      <4>2. call' = [call EXCEPT ![b] = c] /\ answer' = answer
        BY ZenonT(100), <2>2, <3>1, <4>1 DEF ClaimRetry
      <4>3. c.op = call[b].op /\ c.hit = call[b].hit
        BY <4>1 DEF KInv, IInv, TypeOK
      <4>4. UserPlace(c) /\ Found(c)
        BY ZenonT(100), <2>2, <3>0, <4>3 DEF UserPlace, Found
      <4> QED
        BY ZenonT(100), <1>0, <2>0, <4>2, <4>3, <4>4, MovedListed
    <3>2. CASE Goto(b, "reread")
      <4>1. PICK c : c = [call[b] EXCEPT !.pc = "reread"]
        BY Zenon
      <4>2. call' = [call EXCEPT ![b] = c] /\ answer' = answer
        BY ZenonT(100), <3>2, <4>1 DEF Goto
      <4>3. c.op = call[b].op /\ c.hit = call[b].hit /\ UserPlace(c) /\ Found(c)
        BY ZenonT(100), <1>2, <2>2, <3>0, <4>1 DEF UserPlace, Found
      <4> QED
        BY ZenonT(100), <1>0, <2>0, <4>2, <4>3, MovedListed
    <3>3. CASE Answer(b, [res |-> "Conflict"])
      BY ZenonT(100), <1>0, <2>0, <3>3, AnswerListed
    <3> QED
      BY ZenonT(100), <2>2, <3>1, <3>2, <3>3 DEF ClaimRetry
  <2>3. CASE call[b].op = "reserve" /\ Goto(b, "reread")
    <3>1. PICK c : c = [call[b] EXCEPT !.pc = "reread"]
      BY Zenon
    <3>2. call' = [call EXCEPT ![b] = c] /\ answer' = answer
      BY Zenon, <2>3, <3>1 DEF Goto
    <3>3. c.op = call[b].op /\ c.hit = call[b].hit /\ c.pc = "reread"
      BY ZenonT(100), <1>2, <3>1
    <3>4. Nats /\ WriteOf(b).op = "reserve"
      BY ZenonT(100), <1>0, <1>1, <2>0, <2>3, WriteIs DEF UserPlace
    <3>5. Live
      BY SMTT(60), <2>0, <3>4 DEF Applies, Removes
    <3>6. UserPlace(c) /\ Found(c)
      BY ZenonT(100), <1>0, <2>0, <2>3, <3>3, <3>4, <3>5 DEF UserPlace, Found, Nats, Unsupported
    <3> QED
      BY ZenonT(100), <1>0, <2>0, <3>2, <3>3, <3>6, MovedListed
  <2>4. CASE Answer(b, [res |-> "Backend"])
    BY ZenonT(100), ZenonT(100), <1>0, <2>0, <2>4, AnswerListed
  <2> QED
    BY ZenonT(100), ZenonT(100), <1>4, <2>1, <2>2, <2>3, <2>4 DEF Refused
<1>5. CASE Reread(b)
  <2>1. PICK a : a = IF call[b].op = "claim" THEN LookAgain(b) ELSE [res |-> "Seq", seq |-> kv.rev]
    BY ZenonT(100)
  <2>2. Answer(b, a) /\ call[b].pc = "reread" /\ late' = late
    BY ZenonT(100), <1>5, <2>1 DEF Reread
  <2>3. call[b].op \in {"claim", "reserve"}
    BY ZenonT(100), ZenonT(100), <1>0, <2>2 DEF PlaceOK
  <2>4. a.res = "Seq" => setting.key = "user" /\ (~call[b].hit => Live /\ kv.rev = a.seq)
    BY ZenonT(100), <1>0, <1>1, <2>1, <2>2, <2>3 DEF LookAgain, Found
  <2> QED
    BY ZenonT(100), <1>0, <2>2, <2>4, AnswerListed
<1>6. CASE Leases(b)
  <2>1. PICK c : c = [call[b] EXCEPT !.live = lease, !.pc = IF Memory THEN "run" ELSE "probe"]
    BY Zenon
  <2>2. call' = [call EXCEPT ![b] = c] /\ answer' = answer /\ late' = late /\ call[b].pc = "leases"
    BY Zenon, <1>6, <2>1 DEF Leases
  <2>3. c.op = call[b].op /\ c.hit = call[b].hit /\ c.pc = IF Memory THEN "run" ELSE "probe"
    BY SMTT(60), <2>1 DEF KInv, IInv, TypeOK
  <2>4. setting.key = "user" => ~Unsupported /\ (Memory \/ Nats) /\ call[b].op # "list"
    BY SMTT(60), <1>0, <2>2 DEF UserPlace, Unsupported, Memory, Nats, KInv, IInv, SettingOK
  <2>5. UserPlace(c) /\ Found(c)
    BY ZenonT(100), <2>3, <2>4 DEF UserPlace, Found
  <2> QED
    BY ZenonT(100), <1>0, <2>2, <2>3, <2>5, MovedListed
<1>7. CASE Probe(b)
  <2>0. call[b].pc = "probe" /\ late' = late
    BY ZenonT(100), ZenonT(100), <1>7 DEF Probe
  <2>1. CASE Answer(b, [res |-> "Ok"])
    BY ZenonT(100), <1>0, <2>0, <2>1, AnswerListed
  <2>2. CASE Goto(b, "watch")
    <3>1. PICK c : c = [call[b] EXCEPT !.pc = "watch"]
      BY Zenon
    <3>2. call' = [call EXCEPT ![b] = c] /\ answer' = answer
      BY ZenonT(100), <2>2, <3>1 DEF Goto
    <3>3. c.op = call[b].op /\ c.hit = call[b].hit /\ UserPlace(c) /\ Found(c)
      BY ZenonT(100), <1>0, <1>2, <2>0, <3>1 DEF UserPlace, Found
    <3> QED
      BY ZenonT(100), <1>0, <2>0, <3>2, <3>3, MovedListed
  <2> QED
    BY ZenonT(100), <1>7, <2>1, <2>2 DEF Probe
<1>8. CASE Watch(b)
  <2>0. call[b].pc = "watch" /\ late' = late
    BY ZenonT(100), <1>8 DEF Watch
  <2>1. CASE Answer(b, [res |-> "Ok"])
    BY ZenonT(100), <1>0, <2>0, <2>1, AnswerListed
  <2>2. CASE call[b].op = "reclaim" /\ Dead(b)
    <3>1. PICK c : c = [call[b] EXCEPT !.pc = "purge", !.seen = kv]
      BY Zenon
    <3>2. call' = [call EXCEPT ![b] = c] /\ answer' = answer
      BY ZenonT(100), <1>8, <2>2, <3>1 DEF Watch
    <3>3. c.op = call[b].op /\ c.hit = call[b].hit /\ c.pc = "purge"
      BY SMTT(60), <3>1 DEF KInv, IInv, TypeOK
    <3>4. UserPlace(c) /\ Found(c)
      BY ZenonT(100), ZenonT(100), <1>0, <2>0, <2>2, <3>3 DEF UserPlace, Found
    <3> QED
      BY ZenonT(100), <1>0, <2>0, <3>2, <3>3, <3>4, MovedListed
  <2> QED
    BY ZenonT(100), <1>8, <2>1, <2>2 DEF Watch
<1>9. CASE Fail(b) \/ GiveUp(b)
  <2>1. Answer(b, [res |-> "Backend"]) /\ (late' = late \/ (late' = late \cup {WriteOf(b)} /\ call[b].pc \in {"write", "purge"}))
    BY ZenonT(100), <1>9 DEF Fail, GiveUp
  <2> QED
    BY ZenonT(100), <1>0, <2>1, AnswerListed
<1> QED
  BY ZenonT(100), <1>3, <1>4, <1>5, <1>6, <1>7, <1>8, <1>9

\* Steps of a call that may write.
LEMMA WritesListed ==
  ASSUME KInv, RInv, NEW b \in Brokers, Write(b) \/ Purge(b) \/ Run(b)
  PROVE  RInv'
<1>0. /\ UserPlace(call[b]) /\ PlaceOK(call[b]) /\ UNCHANGED setting
      /\ call[b].pc # "idle" /\ call[b].op \in OpsOf[setting.key]
  BY ZenonT(100) DEF RInv, Fine, KInv, IInv, CInv, CallsOK, Places, Write, Purge, Run
<1>1. WriteOf(b) \in WriteRecs /\ WriteOf(b).op = call[b].op
  BY ZenonT(100), ZenonT(100), <1>0, WriteOfType DEF KInv
<1>2. setting.key = "user" => call[b].op \in Removes \cup {"reserve", "list"}
  BY SMTT(60), <1>0 DEF OpsOf, Removes
<1>3. call[b].op = "reserve" => setting.key = "user"
  BY SMTT(60), <1>0 DEF OpsOf, KInv, IInv, SettingOK
<1>4. CASE Write(b)
  <2>1. /\ call[b].pc = "write" /\ Applies(WriteOf(b)) /\ Apply(WriteOf(b)) /\ late' = late
        /\ Returns(b, Done(WriteOf(b)), IF WriteOf(b).op \in Removes THEN Marked ELSE call)
    BY ZenonT(100), ZenonT(100), <1>1, <1>4 DEF Write
  <2>2. setting.key = "user" => Nats /\ call[b].op # "list"
    BY ZenonT(100), ZenonT(100), <1>0, <2>1 DEF UserPlace
  <2>3. setting.key = "user" => WriteOf(b).op \in Removes \/ (WriteOf(b).op = "reserve" /\ ~Live)
    BY ZenonT(100), ZenonT(100), <1>1, <1>2, <2>1, <2>2 DEF Applies, Removes
  <2> QED
    BY ZenonT(100), ZenonT(100), <1>0, <1>1, <2>1, <2>3, DoneListed
<1>5. CASE Purge(b)
  <2>0. call[b].pc = "purge" /\ call[b].op \in Removes
    BY ZenonT(100), ZenonT(100), <1>0, <1>5 DEF Purge, PlaceOK
  <2>1. CASE Apply(WriteOf(b)) /\ Returns(b, Done(WriteOf(b)), Marked) /\ late' = late
    BY ZenonT(100), <1>0, <1>1, <2>0, <2>1, DoneListed
  <2>2. CASE Goto(b, "write") /\ UNCHANGED kv /\ (late' = late \/ late' = late \cup {WriteOf(b)})
    <3>1. PICK c : c = [call[b] EXCEPT !.pc = "write"]
      BY Zenon
    <3>2. call' = [call EXCEPT ![b] = c] /\ answer' = answer
      BY Zenon, <2>2, <3>1 DEF Goto
    <3>3. c.op = call[b].op /\ c.hit = call[b].hit /\ c.pc = "write"
      BY <3>1 DEF KInv, IInv, TypeOK
    <3>4. UserPlace(c) /\ Found(c)
      BY Zenon, <1>0, <2>0, <3>3 DEF UserPlace, Found, Removes
    <3> QED
      BY ZenonT(100), <1>0, <2>0, <2>2, <3>2, <3>3, <3>4, MovedListed
  <2> QED
    BY ZenonT(100), ZenonT(100), <1>5, <2>1, <2>2 DEF Purge
<1>6. CASE Run(b)
  <2>0. late' = late
    BY Zenon, <1>6 DEF Run
  <2>1. CASE UNCHANGED kv /\ \E r \in {"Backend", "Ok"} : Answer(b, [res |-> r])
    BY ZenonT(100), <1>0, <2>0, <2>1, AnswerListed
  <2>2. CASE UNCHANGED kv /\ Answer(b, FromEntry(b))
    <3>1. PICK a : a = FromEntry(b)
      BY Zenon
    <3>2. a.res = "Seq" => call[b].op = "reserve" /\ Live /\ kv.rev = a.seq
      BY Zenon, <3>1 DEF FromEntry, AllocFrom, ClaimFrom, ReserveFrom, NoAnswer, Live
    <3> QED
      BY ZenonT(100), <1>0, <1>3, <2>0, <2>2, <3>1, <3>2, AnswerListed
  <2>3. PICK w : w = [WriteOf(b) EXCEPT !.seen = kv]
    BY ZenonT(100)
  <2>4. CASE /\ Apply(w) /\ FromEntry(b) = NoAnswer /\ call[b].op # "list"
             /\ Returns(b, Done(w), IF call[b].op \in Removes THEN Marked ELSE call)
    <3>1. w \in WriteRecs /\ w.op = call[b].op
      BY ZenonT(100), <1>1, <2>3 DEF WriteRecs, KInv, IInv, TypeOK
    <3>2. call[b].op = "reserve" => ~Live
      BY <2>4 DEF FromEntry, ReserveFrom, NoAnswer, Live
    <3>3. setting.key = "user" => w.op \in Removes \/ (w.op = "reserve" /\ ~Live)
      BY ZenonT(100), <1>2, <2>4, <3>1, <3>2
    <3> QED
      BY ZenonT(100), ZenonT(100), <1>0, <2>0, <2>4, <3>1, <3>3, DoneListed
  <2> QED
    BY ZenonT(100), <1>6, <2>1, <2>2, <2>3, <2>4 DEF Run
<1> QED
  BY ZenonT(100), <1>4, <1>5, <1>6

\* A late write is accepted on the same terms, and a tombstone has no value to
\* lose.
LEMMA LateListed ==
  ASSUME KInv, RInv, TombstoneExpires \/ \E w \in late : Land(w)
  PROVE  RInv'
<1>1. CASE TombstoneExpires
  <2>1. ~Live /\ ~Live' /\ UNCHANGED <<setting, call, answer, late>>
    BY Zenon, <1>1 DEF TombstoneExpires, Missing, Live
  <2>2. ASSUME NEW b \in Brokers PROVE Fine(b)'
    BY Zenon, <2>1 DEF RInv, Fine, UserPlace, Found, Nats, Unsupported
  <2> QED
    BY Zenon, <2>1, <2>2 DEF RInv, Nats
<1>2. ASSUME NEW w \in late, Land(w) PROVE RInv'
  <2>0. /\ w \in WriteRecs /\ w.op \in OpsOf[setting.key] /\ late' \subseteq late
        /\ UNCHANGED <<setting, answer>>
    BY <1>2 DEF KInv, IInv, TypeOK, ReadsOK, WriteRecs, Land
  <2>1. CASE Applies(w)
    <3>1. Apply(w) /\ call' = IF w.op \in Removes THEN Marked ELSE call
      BY ZenonT(100), <1>2, <2>1 DEF Land
    <3>2. \A x \in Brokers : Marked[x].hit = TRUE
      BY DEF Marked, KInv, IInv, TypeOK
    <3>3. \A x \in Brokers :
            /\ call'[x].pc = call[x].pc /\ call'[x].op = call[x].op
            /\ call'[x].hit = IF w.op \in Removes THEN TRUE ELSE call[x].hit
      BY ZenonT(100), <3>1, <3>2, MarkedType DEF KInv
    <3>4. setting.key = "user" => w.op \in Removes \/ (w.op = "reserve" /\ ~Live)
      BY SMTT(60), <1>2, <2>0, <2>1 DEF RInv, OpsOf, Applies, Removes
    <3> QED
      BY ZenonT(100), <2>0, <3>1, <3>3, <3>4, WriteListed DEF RInv
  <2>2. CASE ~Applies(w)
    <3>1. UNCHANGED <<kv, call>>
      BY Zenon, <1>2, <2>2 DEF Land
    <3>2. ASSUME NEW b \in Brokers PROVE Fine(b)'
      BY ZenonT(100), <2>0, <3>1 DEF RInv, Fine, UserPlace, Found, Live, Nats, Unsupported
    <3> QED
      BY Zenon, <2>0, <3>2 DEF RInv, Nats
  <2> QED
    BY ZenonT(100), <2>1, <2>2
<1> QED
  BY Zenon, <1>1, <1>2

\* A caller that reserved a per-user slot ranks itself by the sequence number of
\* the entry that is in the list: for any set of brokers, any backend, and any
\* number of calls, failures and late writes.
THEOREM ReserveCorrect == Spec => []ReserveListed
<1>1. Init => RInv
  <2> SUFFICES ASSUME Init PROVE RInv
    BY Zenon
  <2>1. late = {} /\ answer = [b \in Brokers |-> NoAnswer] /\ \A b \in Brokers : call[b] = NoCall
    BY ZenonT(100) DEF Init
  <2>2. ASSUME NEW b \in Brokers PROVE Fine(b)
    BY SMTT(60), <2>1 DEF Fine, UserPlace, Found, NoCall, NoAnswer
  <2> QED
    BY ZenonT(100), <2>1, <2>2 DEF RInv
<1>2. ASSUME KInv, RInv, [Next]_vars PROVE RInv'
  <2>0. setting.brokers \subseteq Brokers
    BY Zenon, <1>2 DEF KInv, IInv, SettingOK
  <2>1. ASSUME NEW b \in setting.brokers, NEW op \in OpsOf[setting.key], Start(b, op) PROVE RInv'
    BY ZenonT(100), <1>2, <2>0, <2>1, StartListed
  <2>2. ASSUME NEW b \in setting.brokers, Step(b) \/ Fail(b) PROVE RInv'
    BY ZenonT(100), ZenonT(100), <1>2, <2>0, <2>2, StartListed, ReadListed, WritesListed DEF Step
  <2>3. ASSUME UNCHANGED <<setting, kv, late, call, answer>> PROVE RInv'
    <3>1. ASSUME NEW b \in Brokers PROVE Fine(b)'
      BY ZenonT(100), <1>2, <2>3 DEF RInv, Fine, UserPlace, Found, Live, Nats, Unsupported
    <3> QED
      BY ZenonT(100), <1>2, <2>3, <3>1 DEF RInv, Nats
  <2>4. ASSUME NEW b \in setting.brokers, upsert_broker_lease(b) \/ LeaseEnds(b) PROVE RInv'
    BY ZenonT(100), <2>3, <2>4 DEF upsert_broker_lease, LeaseEnds
  <2>5. ASSUME TombstoneExpires \/ \E w \in late : Land(w) PROVE RInv'
    BY ZenonT(100), <1>2, <2>5, LateListed
  <2>6. CASE UNCHANGED vars
    BY Zenon, <2>3, <2>6 DEF vars
  <2> QED
    BY ZenonT(100), <1>2, <2>1, <2>2, <2>4, <2>5, <2>6 DEF Next
<1>3. RInv => ReserveListed
  BY Zenon DEF RInv, Fine, ReserveListed
<1> QED
  BY <1>1, <1>2, <1>3, Known, PTL DEF Spec

-----------------------------------------------------------------------------
(* Ids *)

\* The id a client polls with, if it polls with one, has the length of an id.
PublicOK == setting.key = "id" => public_id \in [1..ID_LEN -> Nat]

\* The fields of the ids the brokers mint.
LEMMA Minted ==
  ASSUME NEW n \in 0..U16Max, NEW t \in Stamps, NEW r \in Randoms
  PROVE  /\ encode_with_fixed_random(Site, Env, n, t, r) \in Encoded
         /\ decode(encode_with_fixed_random(Site, Env, n, t, r)) = <<Site, Env, t, n, r>>
<1>0. t \in (0..U16Max) \X (0..U16Max)
  BY Zenon, StoreAssumption
<1>1. PICK hi \in 0..U16Max, lo \in 0..U16Max : t = <<hi, lo>>
  BY SMTT(60), <1>0
<1>2. Site \in Tags /\ Env \in Tags
  BY ZenonT(100), StoreAssumption DEF Tags
<1>3. r \in [1..5 -> Byte]
  BY StoreAssumption DEF Byte
<1>4. Reads(Site, Env, n, <<hi, lo>>, r)
  BY ZenonT(100), <1>2, <1>3, RoundTrip
<1> QED
  BY Zenon, <1>1, <1>4 DEF Reads

\* A string one character away from an id is as long as the id.
LEMMA GarbledType == Garbled \subseteq [1..ID_LEN -> Nat]
<1> SUFFICES ASSUME NEW id \in Garbled PROVE id \in [1..ID_LEN -> Nat]
  BY Zenon
<1>1. PICK n \in {0, 256, U16Max}, t \in Stamps, r \in Randoms, i \in 1..ID_LEN, d \in {0, 8, 31, 99} :
        id = [encode_with_fixed_random(Site, Env, n, t, r) EXCEPT ![i] = d]
  BY SMT DEF Garbled
<1>2. n \in 0..U16Max
  <2>1. U16Max \in Nat /\ U16Max + 1 = 65536
    BY SMT DEF U16Max
  <2>2. 0 \in 0..U16Max /\ 256 \in 0..U16Max /\ U16Max \in 0..U16Max
    BY SMTT(60), <2>1
  <2>3. n = 0 \/ n = 256 \/ n = U16Max
    BY SMT
  <2> QED
    BY SMTT(60), <2>2, <2>3
<1>3. PICK e : e = encode_with_fixed_random(Site, Env, n, t, r)
  BY SMTT(60)
<1>4. e \in [1..ID_LEN -> Nat]
  <2>1. e \in Encoded
    BY ZenonT(100), <1>2, <1>3, Minted
  <2> QED
    BY <2>1 DEF Encoded, ID_LEN
<1>5. d \in Nat
  OBVIOUS
<1>6. id = [e EXCEPT ![i] = d]
  BY Zenon, <1>1, <1>3
<1> QED
  BY ZenonT(100), <1>4, <1>5, <1>6

\* No step changes the id a client polls with, or what is stored.
LEMMA PublicKept ==
  ASSUME [Next]_vars
  PROVE  UNCHANGED <<setting, public_id>>
<1>1. ASSUME NEW b, NEW op, Start(b, op) PROVE UNCHANGED <<setting, public_id>>
  BY Zenon, <1>1 DEF Start
<1>2. ASSUME NEW b, Step(b) PROVE UNCHANGED <<setting, public_id>>
  BY ZenonT(100), <1>2 DEF Step, Connect, Run, Read, Write, Purge, Refused, Reread, Leases, Probe, Watch, GiveUp
<1>3. ASSUME NEW b, Fail(b) PROVE UNCHANGED <<setting, public_id>>
  BY Zenon, <1>3 DEF Fail, GiveUp
<1>4. ASSUME NEW b, upsert_broker_lease(b) \/ LeaseEnds(b) PROVE UNCHANGED <<setting, public_id>>
  BY Zenon, <1>4 DEF upsert_broker_lease, LeaseEnds
<1>5. ASSUME NEW w, Land(w) PROVE UNCHANGED <<setting, public_id>>
  BY Zenon, <1>5 DEF Land
<1>6. ASSUME TombstoneExpires PROVE UNCHANGED <<setting, public_id>>
  BY Zenon, <1>6 DEF TombstoneExpires
<1>7. ASSUME UNCHANGED vars PROVE UNCHANGED <<setting, public_id>>
  BY Zenon, <1>7 DEF vars
<1> QED
  BY ZenonT(100), <1>1, <1>2, <1>3, <1>4, <1>5, <1>6, <1>7 DEF Next

\* Every id leads back to the one broker that minted it, whatever the time and
\* the random bytes, and an id that decode accepts has one spelling.
THEOREM IdCorrect == Spec => []IdNamesMinter
<1>1. Init => PublicOK
  BY Zenon, GarbledType DEF Init, PublicOK
<1>2. PublicOK /\ [Next]_vars => PublicOK'
  BY Zenon, PublicKept DEF PublicOK
<1>3. ASSUME IInv, PublicOK PROVE IdNamesMinter
  <2>1. ASSUME NEW b \in Brokers, NEW t \in Stamps, NEW r \in Randoms, slot[b] # NoSlot
        PROVE  LET id == encode_with_fixed_random(Site, Env, slot[b], t, r) IN
               /\ decode(id) = <<Site, Env, t, slot[b], r>>
               /\ {c \in Brokers : slot[c] # NoSlot /\ slot_from_job_id(id) = <<Site, Env, slot[c]>>} = {b}
    <3>1. slot[b] \in 0..U16Max /\ \A c \in Brokers : b # c => slot[b] # slot[c]
      BY Zenon, <1>3, <2>1 DEF IInv, SlotsUnique
    <3>2. PICK id : id = encode_with_fixed_random(Site, Env, slot[b], t, r)
      OBVIOUS
    <3>3. PICK d : d = <<Site, Env, t, slot[b], r>>
      OBVIOUS
    <3>4. decode(id) = d
      BY Zenon, <3>1, <3>2, <3>3, Minted
    <3>5. d[1] = Site /\ d[2] = Env /\ d[4] = slot[b] /\ d # Err
      BY <3>3 DEF Err
    <3>6. slot_from_job_id(id) = <<Site, Env, slot[b]>>
      BY Zenon, <3>4, <3>5 DEF slot_from_job_id
    <3>7. \A c : <<Site, Env, slot[b]>> = <<Site, Env, slot[c]>> => slot[b] = slot[c]
      OBVIOUS
    <3> QED
      BY ZenonT(100), <2>1, <3>1, <3>2, <3>3, <3>4, <3>6, <3>7
  <2>2. ASSUME setting.key = "id", decode(public_id) # Err
        PROVE  LET d == decode(public_id) IN
               encode_with_fixed_random(d[1], d[2], d[4], d[3], d[5]) = public_id
    BY Zenon, <1>3, <2>2, Spelling DEF PublicOK
  <2> QED
    BY Zenon, <2>1, <2>2 DEF IdNamesMinter
<1> QED
  BY <1>1, <1>2, <1>3, Inductive, PTL DEF Spec

=============================================================================
