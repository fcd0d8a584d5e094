----------------------- MODULE TransferSchedulerProofs -----------------------
(* Invariance proofs for TransferScheduler, for any files and settings.    *)
EXTENDS TransferScheduler, SequenceTheorems, FiniteSetTheorems, TLAPS

-----------------------------------------------------------------------------
(* Sequences.                                                              *)

\* Removing a position closes the gap.
LEMMA RemoveAtElements ==
  ASSUME NEW S, NEW q \in Seq(S), NEW k \in 1..Len(q)
  PROVE  /\ RemoveAt(q, k) \in Seq(S)
         /\ Len(RemoveAt(q, k)) = Len(q) - 1
         /\ \A j \in 1..(Len(q) - 1) : RemoveAt(q, k)[j] = IF j < k THEN q[j] ELSE q[j + 1]
<1> DEFINE a == SubSeq(q, 1, k - 1)
           b == SubSeq(q, k + 1, Len(q))
<1>1. Len(q) \in Nat /\ \A j \in 1..Len(q) : q[j] \in S
  BY LenProperties, ElementOfSeq
<1>2. /\ a \in Seq(S) /\ Len(a) = k - 1
      /\ \A j \in 1..(k - 1) : a[j] = q[j]
  BY <1>1, SubSeqProperties
<1>3. /\ b \in Seq(S) /\ Len(b) = Len(q) - k
      /\ \A j \in 1..(Len(q) - k) : b[j] = q[k + j]
  BY <1>1, SubSeqProperties
<1> DEFINE c == a \o b
<1>4. /\ c \in Seq(S) /\ Len(c) = Len(a) + Len(b)
      /\ \A j \in 1..(Len(a) + Len(b)) : c[j] = IF j <= Len(a) THEN a[j] ELSE b[j - Len(a)]
  BY <1>2, <1>3, ConcatProperties
<1>5. RemoveAt(q, k) = c
  BY DEF RemoveAt
<1> HIDE DEF a, b, c
<1>6. Len(a) + Len(b) = Len(q) - 1
  BY <1>1, <1>2, <1>3
<1>7. ASSUME NEW j \in 1..(Len(q) - 1)
      PROVE  c[j] = IF j < k THEN q[j] ELSE q[j + 1]
  <2>1. ASSUME j < k PROVE c[j] = q[j]
    BY <1>1, <1>2, <1>4, <1>6, <2>1
  <2>2. ASSUME ~(j < k) PROVE c[j] = q[j + 1]
    <3>1. j - (k - 1) \in 1..(Len(q) - k) /\ k + (j - (k - 1)) = j + 1
      BY <1>1, <2>2
    <3>2. c[j] = b[j - (k - 1)]
      BY <1>1, <1>2, <1>4, <1>6, <2>2
    <3> QED
      BY <1>3, <3>1, <3>2
  <2> QED
    BY <2>1, <2>2
<1> QED
  BY <1>4, <1>5, <1>6, <1>7

\* What is removed is one element; every other one stays.
LEMMA RemoveAtKeeps ==
  ASSUME NEW S, NEW q \in Seq(S), NEW k \in 1..Len(q)
  PROVE  \A e : Contains(q, e) /\ e # q[k] => Contains(RemoveAt(q, k), e)
<1> DEFINE r == RemoveAt(q, k)
<1>1. Len(q) \in Nat /\ Len(r) = Len(q) - 1
      /\ \A j \in 1..(Len(q) - 1) : r[j] = IF j < k THEN q[j] ELSE q[j + 1]
  BY RemoveAtElements, LenProperties
<1> HIDE DEF r
<1> SUFFICES ASSUME NEW m \in 1..Len(q), q[m] # q[k]
             PROVE  \E j \in 1..Len(r) : r[j] = q[m]
  BY DEF Contains, r
<1>2. CASE m < k
  BY <1>1, <1>2
<1>3. CASE m > k
  <2>1. m - 1 \in 1..(Len(q) - 1) /\ ~(m - 1 < k) /\ (m - 1) + 1 = m
    BY <1>1, <1>3
  <2> QED
    BY <1>1, <2>1
<1> QED
  BY <1>1, <1>2, <1>3

\* A sequence without repetitions has none after a removal, nor the removed element.
LEMMA RemoveAtInjective ==
  ASSUME NEW S, NEW q \in Seq(S), NEW k \in 1..Len(q), IsInjective(q)
  PROVE  IsInjective(RemoveAt(q, k)) /\ ~Contains(RemoveAt(q, k), q[k])
<1> DEFINE r == RemoveAt(q, k)
<1>1. /\ Len(q) \in Nat /\ DOMAIN q = 1..Len(q)
      /\ r \in Seq(S) /\ Len(r) = Len(q) - 1 /\ DOMAIN r = 1..(Len(q) - 1)
      /\ \A j \in 1..(Len(q) - 1) : r[j] = IF j < k THEN q[j] ELSE q[j + 1]
  BY RemoveAtElements, LenProperties
<1> HIDE DEF r
<1>2. \A i, j \in 1..Len(q) : q[i] = q[j] => i = j
  BY <1>1 DEF IsInjective
<1>3. \A i, j \in 1..(Len(q) - 1) : r[i] = r[j] => i = j
  BY <1>1, <1>2
<1>4. \A j \in 1..(Len(q) - 1) : r[j] # q[k]
  BY <1>1, <1>2
<1> QED
  BY <1>1, <1>3, <1>4 DEF IsInjective, Contains, r

\* Appending adds an element and keeps the others.
LEMMA AppendKeeps ==
  ASSUME NEW S, NEW q \in Seq(S), NEW x \in S
  PROVE  /\ Append(q, x) \in Seq(S) /\ Contains(Append(q, x), x)
         /\ \A e : Contains(q, e) => Contains(Append(q, x), e)
         /\ IsInjective(q) /\ ~Contains(q, x) => IsInjective(Append(q, x))
<1>1. /\ Append(q, x) \in Seq(S) /\ Len(Append(q, x)) = Len(q) + 1
      /\ DOMAIN Append(q, x) = 1..(Len(q) + 1) /\ DOMAIN q = 1..Len(q)
      /\ Append(q, x)[Len(q) + 1] = x /\ Len(q) \in Nat
      /\ \A j \in 1..Len(q) : Append(q, x)[j] = q[j]
  OBVIOUS
<1> QED
  BY <1>1 DEF Contains, IsInjective

\* Inserting adds an element and keeps the others.
LEMMA InsertAtKeeps ==
  ASSUME NEW S, NEW q \in Seq(S), NEW x \in S, NEW k \in 1..(Len(q) + 1)
  PROVE  /\ InsertAt(q, k, x) \in Seq(S)
         /\ \A e : Contains(InsertAt(q, k, x), e) <=> Contains(q, e) \/ e = x
         /\ IsInjective(q) /\ ~Contains(q, x) => IsInjective(InsertAt(q, k, x))
<1> DEFINE a == SubSeq(q, 1, k - 1)
           b == SubSeq(q, k, Len(q))
           ax == a \o <<x>>
           c == ax \o b
<1>1. Len(q) \in Nat /\ (\A j \in 1..Len(q) : q[j] \in S) /\ DOMAIN q = 1..Len(q)
  BY LenProperties, ElementOfSeq
<1>2. /\ a \in Seq(S) /\ Len(a) = k - 1
      /\ \A j \in 1..(k - 1) : a[j] = q[j]
  BY <1>1, SubSeqProperties
<1>3. /\ b \in Seq(S) /\ Len(b) = Len(q) - k + 1
      /\ \A j \in 1..(Len(q) - k + 1) : b[j] = q[k + j - 1]
  BY <1>1, SubSeqProperties
<1> HIDE DEF a, b
<1>4. /\ ax \in Seq(S) /\ Len(ax) = k /\ ax[k] = x
      /\ \A j \in 1..(k - 1) : ax[j] = q[j]
  <2>1. <<x>> \in Seq(S) /\ Len(<<x>>) = 1 /\ <<x>>[1] = x
    OBVIOUS
  <2> DEFINE one == <<x>>
  <2> HIDE DEF one
  <2>2. /\ a \o one \in Seq(S) /\ Len(a \o one) = k
        /\ \A j \in 1..k : (a \o one)[j] = IF j <= Len(a) THEN a[j] ELSE one[j - Len(a)]
    BY <1>2, <2>1, ConcatProperties DEF one
  <2>3. k - Len(a) = 1
    BY <1>2
  <2> QED
    BY <1>2, <2>1, <2>2, <2>3 DEF one
<1>5. InsertAt(q, k, x) = c
  BY DEF InsertAt, a, b
<1> HIDE DEF ax
<1>6. /\ c \in Seq(S) /\ Len(c) = Len(q) + 1 /\ DOMAIN c = 1..(Len(q) + 1)
      /\ \A j \in 1..(Len(q) + 1) : c[j] = IF j <= k THEN ax[j] ELSE b[j - k]
  <2>1. Len(ax) + Len(b) = Len(q) + 1
    BY <1>1, <1>3, <1>4
  <2> QED
    BY <1>3, <1>4, <2>1, ConcatProperties, LenProperties
<1> HIDE DEF c
<1>7. c[k] = x /\ \A j \in 1..(k - 1) : c[j] = q[j]
  BY <1>1, <1>4, <1>6
<1>8. ASSUME NEW j \in (k + 1)..(Len(q) + 1) PROVE c[j] = q[j - 1]
  <2>1. j - k \in 1..(Len(q) - k + 1) /\ k + (j - k) - 1 = j - 1
    BY <1>1
  <2>2. c[j] = b[j - k]
    BY <1>1, <1>6
  <2> QED
    BY <1>3, <2>1, <2>2
<1>9. ASSUME NEW e PROVE Contains(c, e) <=> Contains(q, e) \/ e = x
  <2>1. ASSUME NEW j \in 1..Len(c), c[j] = e PROVE Contains(q, e) \/ e = x
    <3>1. CASE j < k
      BY <1>1, <1>6, <1>7, <2>1, <3>1 DEF Contains
    <3>2. CASE j = k
      BY <1>7, <2>1, <3>2
    <3>3. CASE j > k
      <4>1. j - 1 \in 1..Len(q) /\ q[j - 1] = e
        BY <1>1, <1>6, <1>8, <2>1, <3>3
      <4> QED
        BY <4>1 DEF Contains
    <3> QED
      BY <1>1, <1>6, <3>1, <3>2, <3>3
  <2>2. ASSUME NEW j \in 1..Len(q), q[j] = e PROVE Contains(c, e)
    <3>1. CASE j < k
      BY <1>1, <1>6, <1>7, <2>2, <3>1 DEF Contains
    <3>2. CASE j >= k
      <4>1. j + 1 \in (k + 1)..(Len(q) + 1) /\ (j + 1) - 1 = j
        BY <1>1, <3>2
      <4>2. c[j + 1] = e /\ j + 1 \in 1..Len(c)
        BY <1>1, <1>6, <1>8, <2>2, <4>1
      <4> QED
        BY <4>2 DEF Contains
    <3> QED
      BY <1>1, <3>1, <3>2
  <2>3. Contains(c, x)
    BY <1>1, <1>6, <1>7 DEF Contains
  <2> QED
    BY <2>1, <2>2, <2>3 DEF Contains
<1>10. ASSUME IsInjective(q), ~Contains(q, x) PROVE IsInjective(c)
  <2>1. /\ \A i, j \in 1..Len(q) : q[i] = q[j] => i = j
        /\ \A j \in 1..Len(q) : q[j] # x
    BY <1>1, <1>10 DEF IsInjective, Contains
  <2>2. \A j \in 1..(Len(q) + 1) : c[j] = IF j < k THEN q[j] ELSE IF j = k THEN x ELSE q[j - 1]
    BY <1>1, <1>7, <1>8
  <2>3. \A i, j \in 1..(Len(q) + 1) : c[i] = c[j] => i = j
    BY <1>1, <2>1, <2>2
  <2> QED
    BY <1>6, <2>3 DEF IsInjective
<1> QED
  BY <1>5, <1>6, <1>9, <1>10

-----------------------------------------------------------------------------
(* Types of the data.                                                      *)

\* A slot is an item and a chunk number.
LEMMA SlotType == \A s \in Slot : s[1] \in Item /\ s[2] \in 1..MaxParts
BY DEF Slot

\* The bounds of the model are numbers and its instances have chunks.
LEMMA ConstantTypes ==
  /\ MaxParts \in Nat \ {0} /\ PartSize \in Nat \ {0}
  /\ ConnectBurst \in Nat \ {0} /\ MaxFaults \in Nat /\ MaxOps \in Nat
  /\ \A i \in Item : Parts[i] \in 1..MaxParts
  /\ \A l \in Limits : l.conn \in Nat \ {0} /\ l.tries \in Nat
BY SchedulerAssumption

\* Fresh slots and workers are well formed.
LEMMA FreshSlotType == ASSUME NEW n \in Nat PROVE FreshSlot(n) \in SlotRecord
BY DEF FreshSlot, SlotRecord, Phases, Origins, Dues

\* Every worker the model makes is well formed.
LEMMA WorkerType ==
  ASSUME NEW g \in Stages, NEW alive \in BOOLEAN, NEW conn \in BOOLEAN, NEW init \in BOOLEAN
  PROVE  Worker(g, alive, conn, init) \in WorkerRecord
BY DEF Worker, WorkerRecord

\* So is the absent worker.
LEMMA NoProcType == NoProc \in WorkerRecord
BY WorkerType DEF NoProc, Stages

\* Both kinds of retry leave a well-formed slot that no longer runs.
LEMMA ArmFailureType ==
  ASSUME NEW sl \in SlotRecord, NEW tries \in Nat
  PROVE  ArmFailure(sl, tries) \in SlotRecord
<1> DEFINE free == [sl EXCEPT !.counted = FALSE, !.reused = FALSE]
<1>1. free \in SlotRecord
  BY DEF SlotRecord
<1>2. [free EXCEPT !.attempts = IF sl.attempts > 0 THEN @ - 1 ELSE @, !.phase = "retry_wait",
                   !.armed = TRUE, !.due = "next_pump"] \in SlotRecord
  <2> DEFINE n == IF sl.attempts > 0 THEN free.attempts - 1 ELSE free.attempts
  <2>1. n \in Nat
    BY DEF SlotRecord
  <2> HIDE DEF n
  <2>2. [free EXCEPT !.attempts = n, !.phase = "retry_wait", !.armed = TRUE,
                     !.due = "next_pump"] \in SlotRecord
    BY <2>1 DEF SlotRecord, Phases, Dues
  <2> QED
    BY <2>2 DEF n
<1>3. [free EXCEPT !.phase = "idle", !.origin = "none"] \in SlotRecord
  BY DEF SlotRecord, Phases, Origins
<1>4. [free EXCEPT !.phase = "retry_wait", !.armed = TRUE, !.due = "after_delay",
                   !.ripe = FALSE] \in SlotRecord
  BY DEF SlotRecord, Phases, Dues
<1>5. [free EXCEPT !.phase = "failed"] \in SlotRecord
  BY DEF SlotRecord, Phases
<1> HIDE DEF free
<1> DEFINE stale0 == StaleReuse(sl)
           again == ShouldAutoRetry(sl.origin, sl.attempts, tries)
<1>6. CASE stale0 /\ sl.counted
  BY <1>2, <1>6 DEF ArmFailure, free
<1>7. CASE stale0 /\ ~sl.counted
  BY <1>3, <1>7 DEF ArmFailure, free
<1>8. CASE ~stale0 /\ again
  BY <1>4, <1>8 DEF ArmFailure, free
<1>9. CASE ~stale0 /\ ~again
  BY <1>5, <1>9 DEF ArmFailure, free
<1> QED
  BY <1>6, <1>7, <1>8, <1>9

\* So does the user's retry.
LEMMA ArmManualRetryType ==
  ASSUME NEW sl \in SlotRecord PROVE ArmManualRetry(sl) \in SlotRecord
BY DEF ArmManualRetry, SlotRecord, Phases, Dues

\* A helper that ends leaves a well-formed worker.
LEMMA EndedType ==
  ASSUME NEW s \in Slot, proc[s] \in WorkerRecord, NEW g \in Stages, NEW alive \in BOOLEAN
  PROVE  Ended(s, g, alive) \in WorkerRecord
BY DEF Ended, WorkerRecord

\* poll() takes over a worker's progress into a well-formed slot.
LEMMA PolledType ==
  ASSUME NEW s \in Slot, proc[s] \in WorkerRecord, slot[s] \in SlotRecord
  PROVE  Polled(s) \in SlotRecord /\ Polled(s).done \in Nat /\ Polled(s).phase = slot[s].phase
<1>1. CASE proc[s].lost
  BY <1>1 DEF Polled, SlotRecord
<1>2. CASE ~proc[s].lost
  <2> DEFINE n == slot[s].base + proc[s].sent
             o == slot[s].opened \/ proc[s].info
  <2>1. n \in Nat /\ o \in BOOLEAN
    BY DEF WorkerRecord, SlotRecord
  <2>2. Polled(s) = [slot[s] EXCEPT !.done = n, !.opened = o]
    BY <1>2 DEF Polled, SlotRecord
  <2> HIDE DEF n, o
  <2> QED
    BY <2>1, <2>2 DEF SlotRecord
<1> QED
  BY <1>1, <1>2

\* poll() knows five outcomes.
LEMMA OutcomeType == \A w : Outcome(w) \in {"ok", "connection", "reject", "local", "none"}
BY DEF Outcome

-----------------------------------------------------------------------------
(* The pool of idle workers.                                               *)

\* The busy workers can be counted.
LEMMA BusyFinite == Cardinality(Busy) \in Nat
<1>1. IsFiniteSet(Item) /\ IsFiniteSet(1..MaxParts)
  BY SchedulerAssumption, FS_Interval
<1>2. IsFiniteSet(Item \X (1..MaxParts))
  BY <1>1, FS_Product
<1>3. IsFiniteSet(Busy)
  BY <1>2, FS_Subset DEF Busy, Slot
<1> QED
  BY <1>3, FS_CardinalityType

\* A prefix of a pool is a pool.
LEMMA PrefixType ==
  ASSUME NEW q \in Seq(BOOLEAN), NEW n \in Int, n <= Len(q)
  PROVE  SubSeq(q, 1, n) \in Seq(BOOLEAN)
<1>1. \A j \in 1..n : q[j] \in BOOLEAN
  BY ElementOfSeq
<1> QED
  BY <1>1, SubSeqProperties

\* Dropping dead workers leaves a pool.
LEMMA UsableType == ASSUME idle \in Seq(BOOLEAN) PROVE Usable \in Seq(BOOLEAN)
<1> DEFINE live == {k \in DOMAIN idle : \E m \in k..Len(idle) : idle[m]}
<1>1. Len(idle) \in Nat /\ DOMAIN idle = 1..Len(idle)
  BY LenProperties
<1>2. IsFiniteSet(1..Len(idle)) /\ Cardinality(1..Len(idle)) = Len(idle)
  BY <1>1, FS_Interval
<1>3. Cardinality(live) \in Nat /\ Cardinality(live) <= Len(idle)
  <2>1. live \subseteq 1..Len(idle)
    BY <1>1
  <2> HIDE DEF live
  <2> QED
    BY <1>2, <2>1, FS_Subset, FS_CardinalityType
<1> HIDE DEF live
<1>4. SubSeq(idle, 1, Cardinality(live)) \in Seq(BOOLEAN)
  BY <1>3, PrefixType
<1> QED
  BY <1>4 DEF Usable, live

\* Trimming to the channel limit leaves a pool.
LEMMA TrimmedType ==
  ASSUME NEW pool \in Seq(BOOLEAN), NEW busy \in Nat, limits \in Limits
  PROVE  Trimmed(pool, busy) \in Seq(BOOLEAN)
<1>1. limits.conn \in Nat /\ Len(pool) \in Nat
  BY ConstantTypes, LenProperties
<1>2. CASE pool = <<>> \/ busy + Len(pool) <= limits.conn
  BY <1>2 DEF Trimmed
<1>3. CASE ~(pool = <<>> \/ busy + Len(pool) <= limits.conn)
  <2> DEFINE n == IF busy >= limits.conn THEN 0 ELSE limits.conn - busy
  <2>1. n \in Int /\ n <= Len(pool)
    BY <1>1, <1>3
  <2>2. Trimmed(pool, busy) = SubSeq(pool, 1, n)
    BY <1>3 DEF Trimmed
  <2> HIDE DEF n
  <2> QED
    BY <2>1, <2>2, PrefixType
<1> QED
  BY <1>2, <1>3

\* A pool of live workers is a pool.
LEMMA RefilledType ==
  ASSUME NEW kept \in SUBSET DOMAIN idle, idle \in Seq(BOOLEAN)
  PROVE  [k \in 1..Cardinality(kept) |-> TRUE] \in Seq(BOOLEAN)
<1>1. IsFiniteSet(kept)
  BY FS_Interval, FS_Subset, LenProperties
<1>2. Cardinality(kept) \in Nat
  BY <1>1, FS_CardinalityType
<1> DEFINE n == Cardinality(kept)
<1>3. n \in Nat
  BY <1>2
<1> HIDE DEF n
<1>4. [k \in 1..n |-> TRUE] \in Seq(BOOLEAN)
  BY <1>3, SeqDef
<1> QED
  BY <1>4 DEF n

-----------------------------------------------------------------------------
(* Every step keeps the types: one lemma per group of actions.             *)

\* Steps of a helper touch its worker, the target and the fault count.
LEMMA HelperTypes ==
  ASSUME TypeOK, NEW s \in Slot, Helper(s)
  PROVE  TypeOK'
<1>1. /\ proc \in [Slot -> WorkerRecord] /\ proc[s] \in WorkerRecord
      /\ slot[s] \in SlotRecord /\ data \in [Slot -> 0..PartSize]
      /\ stale \in [Item -> BOOLEAN] /\ faults \in 0..MaxFaults /\ s[1] \in Item
  BY SlotType DEF TypeOK
<1>2. HelperFrame
  BY DEF Helper, HelperConnect, HelperOpen, HelperWrite, HelperReport, HelperDone,
         HelperFail, LinkLost
<1>3. faults' \in 0..MaxFaults
  <2>1. Fault \/ NoFault
    BY DEF Helper, HelperConnect, HelperOpen, HelperWrite, HelperReport, HelperDone,
           HelperFail, LinkLost
  <2> QED
    BY <1>1, <2>1, ConstantTypes DEF Fault, NoFault
<1>4. /\ proc' \in [Slot -> WorkerRecord]
      /\ data' \in [Slot -> 0..PartSize] /\ stale' \in [Item -> BOOLEAN]
  <2>1. CASE HelperConnect(s)
    BY <1>1, <2>1 DEF HelperConnect, WorkerRecord, Stages, target
  <2>2. CASE HelperOpen(s)
    <3> DEFINE truncate == ~Parallel(s[1]) \/ proc[s].init
    <3>1. /\ proc' = [proc EXCEPT ![s].stage = "open", ![s].info = TRUE]
          /\ data' = [t \in Slot |-> IF truncate /\ t[1] = s[1] THEN 0 ELSE data[t]]
          /\ stale' = [stale EXCEPT ![s[1]] = @ /\ ~truncate]
      BY <2>2 DEF HelperOpen
    <3> HIDE DEF truncate
    <3>2. proc' \in [Slot -> WorkerRecord]
      BY <1>1, <3>1 DEF WorkerRecord, Stages
    <3>3. data' \in [Slot -> 0..PartSize]
      BY <1>1, <3>1, ConstantTypes
    <3>4. stale' \in [Item -> BOOLEAN]
      BY <1>1, <3>1
    <3> QED
      BY <3>2, <3>3, <3>4
  <2>3. CASE HelperWrite(s)
    BY <1>1, <2>3, ConstantTypes DEF HelperWrite, WorkerRecord
  <2>4. CASE HelperReport(s)
    BY <1>1, <2>4 DEF HelperReport, WorkerRecord, target
  <2>5. CASE HelperDone(s)
    BY <1>1, <2>5, EndedType DEF HelperDone, Stages, target
  <2>6. CASE HelperFail(s)
    BY <1>1, <2>6, EndedType DEF HelperFail, Stages, target
  <2>7. CASE LinkLost(s)
    <3>1. PICK g \in Stages, h \in Stages :
            \/ proc' = [proc EXCEPT ![s] = Ended(s, g, FALSE)]
            \/ proc' = [proc EXCEPT ![s] =
                          [Worker(h, FALSE, proc[s].conn, proc[s].init) EXCEPT !.lost = TRUE]]
      BY <2>7 DEF LinkLost, Stages
    <3>2. Ended(s, g, FALSE) \in WorkerRecord
      BY <1>1, EndedType
    <3>3. [Worker(h, FALSE, proc[s].conn, proc[s].init) EXCEPT !.lost = TRUE] \in WorkerRecord
      <4> DEFINE w == Worker(h, FALSE, proc[s].conn, proc[s].init)
      <4>1. w \in WorkerRecord
        <5>1. proc[s].conn \in BOOLEAN /\ proc[s].init \in BOOLEAN
          BY <1>1 DEF WorkerRecord
        <5> QED
          BY <5>1, WorkerType
      <4> HIDE DEF w
      <4>2. [w EXCEPT !.lost = TRUE] \in WorkerRecord
        BY <4>1 DEF WorkerRecord
      <4> QED
        BY <4>2 DEF w
    <3>4. proc' \in [Slot -> WorkerRecord]
      BY <1>1, <3>1, <3>2, <3>3
    <3> QED
      BY <1>1, <2>7, <3>4 DEF LinkLost, target
  <2> QED
    BY <2>1, <2>2, <2>3, <2>4, <2>5, <2>6, <2>7 DEF Helper
<1> QED
  BY <1>2, <1>3, <1>4 DEF TypeOK, HelperFrame, queueVars, jobVars, pumpVars, fileVars

\* Erasing a job leaves well-formed jobs, slots and workers.
LEMMA EraseJobTypes ==
  ASSUME TypeOK, NEW k \in 1..Len(jobs), EraseJob(k)
  PROVE  /\ jobs' \in Seq(Item) /\ split' \in [Item -> 1..MaxParts]
         /\ resume' \in [Item -> BOOLEAN]
         /\ slot' \in [Slot -> SlotRecord] /\ proc' \in [Slot -> WorkerRecord]
<1>1. jobs \in Seq(Item) /\ jobs[k] \in Item
  BY ElementOfSeq DEF TypeOK
<1>2. jobs' \in Seq(Item)
  BY <1>1, RemoveAtElements DEF EraseJob
<1>3. 1 \in 1..MaxParts
  BY ConstantTypes
<1>4. slot' \in [Slot -> SlotRecord]
  BY FreshSlotType DEF EraseJob, TypeOK
<1>5. proc' \in [Slot -> WorkerRecord]
  BY NoProcType DEF EraseJob, TypeOK
<1> QED
  BY <1>1, <1>2, <1>3, <1>4, <1>5 DEF EraseJob, TypeOK

\* The job the fold has come to.
LEMMA JobItemType ==
  ASSUME TypeOK, at.job <= Len(jobs)
  PROVE  at.job \in 1..Len(jobs) /\ JobItem \in Item
<1>1. at.job \in 1..Len(jobs) /\ jobs \in Seq(Item)
  BY LenProperties DEF TypeOK
<1> QED
  BY <1>1, ElementOfSeq DEF JobItem

\* PumpBegin keeps every variable in its type.
LEMMA PumpBeginTypes == ASSUME TypeOK, PumpBegin PROVE TypeOK'
<1>1. slot' \in [Slot -> SlotRecord]
  <2>1. ASSUME NEW s \in Slot PROVE [slot[s] EXCEPT !.armed = FALSE] \in SlotRecord
    <3>1. slot[s] \in SlotRecord
      BY DEF TypeOK
    <3> QED
      BY <3>1 DEF SlotRecord
  <2> QED
    BY <2>1 DEF PumpBegin
<1> QED
  BY <1>1 DEF PumpBegin, TypeOK, queueVars, fileVars, target, counts

\* FoldOrphan keeps every variable in its type.
LEMMA FoldOrphanTypes == ASSUME TypeOK, FoldOrphan PROVE TypeOK'
<1>1. at.job \in 1..Len(jobs) /\ JobItem \in Item
  BY JobItemType DEF FoldOrphan
<1>2. EraseJob(at.job)
  BY DEF FoldOrphan
<1>3. at' \in [job : Nat \ {0}, part : Nat \ {0}]
  <2>1. at \in [job : Nat \ {0}, part : Nat \ {0}] /\ at' = [at EXCEPT !.part = 1]
    BY DEF FoldOrphan, TypeOK
  <2> QED
    BY <2>1
<1> QED
  BY <1>1, <1>2, <1>3, EraseJobTypes
     DEF FoldOrphan, TypeOK, queueVars, fileVars, target, counts

\* What every fold of one chunk leaves well formed.
LEMMA FoldingTypes ==
  ASSUME TypeOK, NEW s \in Slot, Folding(s)
  PROVE  /\ at' \in [job : Nat \ {0}, part : Nat \ {0}]
         /\ slot[s] \in SlotRecord /\ proc[s] \in WorkerRecord
<1>1. s[2] + 1 \in Nat \ {0}
  BY SlotType, ConstantTypes
<1> QED
  BY <1>1 DEF Folding, TypeOK

\* Recorded progress is a number.
LEMMA ClaimedType ==
  ASSUME TypeOK, NEW s \in Slot, NEW n \in Nat, Claimed(s, n)
  PROVE  claim' \in [Slot -> Nat]
BY DEF Claimed, TypeOK

\* FoldExhausted keeps every variable in its type.
LEMMA FoldExhaustedTypes == ASSUME TypeOK, NEW s \in Slot, FoldExhausted(s) PROVE TypeOK'
<1>1. /\ at' \in [job : Nat \ {0}, part : Nat \ {0}] /\ slot[s] \in SlotRecord
  BY FoldingTypes DEF FoldExhausted
<1>2. slot' \in [Slot -> SlotRecord]
  BY <1>1 DEF FoldExhausted, TypeOK, SlotRecord, Phases
<1> QED
  BY <1>1, <1>2 DEF FoldExhausted, TypeOK, queueVars, fileVars, target, counts

\* FoldRunning keeps every variable in its type.
LEMMA FoldRunningTypes == ASSUME TypeOK, NEW s \in Slot, FoldRunning(s) PROVE TypeOK'
<1>1. /\ at' \in [job : Nat \ {0}, part : Nat \ {0}]
      /\ slot[s] \in SlotRecord /\ proc[s] \in WorkerRecord
  BY FoldingTypes DEF FoldRunning
<1>2. Polled(s) \in SlotRecord /\ Polled(s).done \in Nat
  BY <1>1, PolledType
<1>3. slot' \in [Slot -> SlotRecord]
  BY <1>2 DEF FoldRunning, TypeOK
<1>4. claim' \in [Slot -> Nat]
  BY <1>2, ClaimedType DEF FoldRunning
<1>5. proc' \in [Slot -> WorkerRecord]
  BY <1>1 DEF FoldRunning, TypeOK, WorkerRecord, Stages
<1> QED
  BY <1>1, <1>3, <1>4, <1>5 DEF FoldRunning, TypeOK, queueVars, target, counts

\* FoldSucceeded keeps every variable in its type.
LEMMA FoldSucceededTypes == ASSUME TypeOK, NEW s \in Slot, FoldSucceeded(s) PROVE TypeOK'
<1>1. at' \in [job : Nat \ {0}, part : Nat \ {0}]
  BY FoldingTypes DEF FoldSucceeded
<1>2. Full(s) \in Nat
  BY SlotType, ConstantTypes DEF Full
<1>3. [FreshSlot(0) EXCEPT !.phase = "succeeded", !.done = Full(s), !.opened = TRUE]
        \in SlotRecord
  <2> DEFINE fresh == FreshSlot(0)
             n == Full(s)
  <2>1. fresh \in SlotRecord
    BY FreshSlotType
  <2> HIDE DEF fresh, n
  <2>2. [fresh EXCEPT !.phase = "succeeded", !.done = n, !.opened = TRUE] \in SlotRecord
    BY <1>2, <2>1 DEF SlotRecord, Phases, n
  <2> QED
    BY <2>2 DEF fresh, n
<1>4. slot' \in [Slot -> SlotRecord]
  BY <1>3 DEF FoldSucceeded, TypeOK
<1>5. claim' \in [Slot -> Nat]
  BY ConstantTypes, ClaimedType DEF FoldSucceeded
<1>6. proc' \in [Slot -> WorkerRecord]
  BY NoProcType DEF FoldSucceeded, TypeOK
<1>7. idle' \in Seq(BOOLEAN)
  <2>1. idle \in Seq(BOOLEAN)
    BY DEF TypeOK
  <2>2. Append(idle, TRUE) \in Seq(BOOLEAN)
    BY <2>1, AppendKeeps
  <2> QED
    BY <2>1, <2>2 DEF FoldSucceeded
<1> QED
  BY <1>1, <1>4, <1>5, <1>6, <1>7 DEF FoldSucceeded, TypeOK, queueVars, target, counts

\* FoldFailed keeps every variable in its type.
LEMMA FoldFailedTypes == ASSUME TypeOK, NEW s \in Slot, FoldFailed(s) PROVE TypeOK'
<1>1. /\ at' \in [job : Nat \ {0}, part : Nat \ {0}]
      /\ slot[s] \in SlotRecord /\ proc[s] \in WorkerRecord
  BY FoldingTypes DEF FoldFailed
<1>2. Polled(s) \in SlotRecord /\ Polled(s).done \in Nat
  BY <1>1, PolledType
<1> DEFINE seen == [Polled(s) EXCEPT !.origin = Outcome(proc[s])]
<1>3. seen \in SlotRecord
  BY <1>2 DEF FoldFailed, SlotRecord, Origins
<1> HIDE DEF seen
<1>4. limits.tries \in Nat
  BY ConstantTypes DEF TypeOK
<1>5. slot' \in [Slot -> SlotRecord]
  BY <1>3, <1>4, ArmFailureType DEF FoldFailed, TypeOK, seen
<1>6. claim' \in [Slot -> Nat]
  BY <1>2, ClaimedType DEF FoldFailed
<1>7. proc' \in [Slot -> WorkerRecord]
  BY NoProcType DEF FoldFailed, TypeOK
<1> QED
  BY <1>1, <1>5, <1>6, <1>7 DEF FoldFailed, TypeOK, queueVars, target, counts

\* A parent is transferring, failed or succeeded.
LEMMA VerdictType == \A i : DecideParent(i) \in {"transferring", "failed", "succeeded"}
BY DEF DecideParent

\* FoldJobEnd keeps every variable in its type.
LEMMA FoldJobEndTypes == ASSUME TypeOK, FoldJobEnd PROVE TypeOK'
<1> DEFINE verdict == DecideParent(JobItem)
<1>1. at.job \in 1..Len(jobs) /\ JobItem \in Item
  BY JobItemType DEF FoldJobEnd
<1>2. verdict \in {"transferring", "failed", "succeeded"}
  BY VerdictType
<1>3. /\ ready' \in [Item -> BOOLEAN]
      /\ ledger' \in [Item -> {"none", "waiting", "ready"}]
  BY <1>1 DEF FoldJobEnd, MarksReady, TypeOK
<1>4. at' \in [job : Nat \ {0}, part : Nat \ {0}]
  BY DEF FoldJobEnd, TypeOK
<1>5. /\ jobs' \in Seq(Item) /\ split' \in [Item -> 1..MaxParts]
      /\ resume' \in [Item -> BOOLEAN]
      /\ slot' \in [Slot -> SlotRecord] /\ proc' \in [Slot -> WorkerRecord]
      /\ cursor' \in Nat
      /\ status' \in [Item -> {"absent", "queued", "transferring", "succeeded", "failed"}]
  <2>1. CASE verdict = "transferring"
    BY <2>1 DEF FoldJobEnd, TypeOK
  <2>2. CASE verdict # "transferring"
    <3>1. /\ EraseJob(at.job)
          /\ cursor' = Reset(cursor, Len(jobs) - 1)
          /\ status' = [status EXCEPT ![JobItem] = verdict]
      BY <2>2 DEF FoldJobEnd
    <3> HIDE DEF verdict
    <3>2. cursor' \in Nat
      BY <3>1 DEF Reset, TypeOK
    <3>3. status' \in [Item -> {"absent", "queued", "transferring", "succeeded", "failed"}]
      BY <1>1, <1>2, <3>1 DEF TypeOK
    <3> QED
      BY <1>1, <3>1, <3>2, <3>3, EraseJobTypes
  <2> QED
    BY <2>1, <2>2
<1> QED
  BY <1>3, <1>4, <1>5 DEF FoldJobEnd, TypeOK, target, counts

\* FoldEnd keeps every variable in its type.
LEMMA FoldEndTypes == ASSUME TypeOK, FoldEnd PROVE TypeOK'
<1>1. idle' \in Seq(BOOLEAN)
  BY BusyFinite, TrimmedType DEF FoldEnd, TypeOK
<1> QED
  BY <1>1 DEF FoldEnd, TypeOK, queueVars, jobVars, fileVars, target, counts

\* A new job: its slots and its state file.
LEMMA StartItemTypes ==
  ASSUME TypeOK, NEW i \in Item, StartItem(i)
  PROVE  TypeOK'
<1>1. jobs' \in Seq(Item)
  BY AppendKeeps DEF StartItem, TypeOK
<1>2. PartCount(i) \in 1..MaxParts
  BY ConstantTypes DEF PartCount
<1>3. /\ ready' \in [Item -> BOOLEAN] /\ split' \in [Item -> 1..MaxParts]
  BY <1>2 DEF StartItem, TypeOK
<1>4. PICK keep \in BOOLEAN :
        /\ resume' = [resume EXCEPT ![i] = keep]
        /\ slot' = [s \in Slot |-> IF s[1] # i THEN slot[s]
                                   ELSE FreshSlot(IF keep THEN claim[s] ELSE 0)]
  BY DEF StartItem
<1>5. resume' \in [Item -> BOOLEAN]
  BY <1>4 DEF TypeOK
<1>6. slot' \in [Slot -> SlotRecord]
  <2>1. ASSUME NEW s \in Slot
        PROVE  /\ slot[s] \in SlotRecord
               /\ FreshSlot(IF keep THEN claim[s] ELSE 0) \in SlotRecord
    BY FreshSlotType DEF TypeOK
  <2> QED
    BY <1>4, <2>1
<1>7. /\ ledger' \in [Item -> {"none", "waiting", "ready"}]
      /\ claim' \in [Slot -> Nat] /\ stale' \in [Item -> BOOLEAN]
  <2>1. CASE UNCHANGED <<ledger, claim, stale>>
    BY <2>1 DEF TypeOK
  <2>2. CASE /\ ledger' = [ledger EXCEPT ![i] = IF i \in Upload THEN "waiting" ELSE "ready"]
             /\ claim' = [s \in Slot |-> IF s[1] = i THEN 0 ELSE claim[s]]
             /\ stale' = [stale EXCEPT ![i] = @ /\ i \in Upload]
    <3>1. claim' \in [Slot -> Nat]
      BY <2>2 DEF TypeOK
    <3>2. stale' \in [Item -> BOOLEAN]
      BY <2>2 DEF TypeOK
    <3>3. ledger' \in [Item -> {"none", "waiting", "ready"}]
      BY <2>2 DEF TypeOK
    <3> QED
      BY <3>1, <3>2, <3>3
  <2> QED
    BY <2>1, <2>2 DEF StartItem
<1> QED
  BY <1>1, <1>3, <1>5, <1>6, <1>7 DEF StartItem, TypeOK, pumpVars, counts

\* Launching a chunk leaves its slot well formed.
LEMMA LaunchedType ==
  ASSUME NEW sl \in SlotRecord, NEW reused \in BOOLEAN
  PROVE  Launched(sl, reused) \in SlotRecord
<1> DEFINE retrying == sl.phase = "retry_wait"
           n == IF retrying THEN sl.attempts + 1 ELSE sl.attempts
           base == sl.done
<1>1. n \in Nat /\ base \in Nat /\ retrying \in BOOLEAN
  BY DEF SlotRecord
<1>2. Launched(sl, reused) =
        [sl EXCEPT !.phase = "running", !.base = base, !.counted = retrying,
                   !.reused = reused, !.attempts = n, !.origin = "none", !.ripe = FALSE]
  BY DEF Launched
<1> HIDE DEF retrying, n, base
<1>3. [sl EXCEPT !.phase = "running", !.base = base, !.counted = retrying,
                 !.reused = reused, !.attempts = n, !.origin = "none",
                 !.ripe = FALSE] \in SlotRecord
  BY <1>1 DEF SlotRecord, Phases, Origins
<1> QED
  BY <1>2, <1>3

\* A chunk gets a worker.
LEMMA ActivateChunkTypes ==
  ASSUME TypeOK, NEW i \in Item, ActivateChunk(i)
  PROVE  /\ slot' \in [Slot -> SlotRecord] /\ proc' \in [Slot -> WorkerRecord]
         /\ idle' \in Seq(BOOLEAN)
         /\ status' \in [Item -> {"absent", "queued", "transferring", "succeeded", "failed"}]
<1> DEFINE reused == Usable # <<>>
<1>1. PICK s \in Launchable(i), init \in BOOLEAN :
        /\ slot' = [slot EXCEPT ![s] = Launched(slot[s], reused)]
        /\ \/ proc' = [proc EXCEPT ![s] = Worker(IF reused THEN "sent" ELSE "handshake",
                                                 TRUE, ~reused, init)]
           \/ ~reused /\ proc' = [proc EXCEPT ![s] = Worker("nolaunch", FALSE, FALSE, init)]
        /\ idle' = IF reused THEN SubSeq(Usable, 1, Len(Usable) - 1) ELSE <<>>
  <2> DEFINE first(s) == Parallel(i) /\ LeaderShouldInitialize(s)
  <2>1. \A s \in Slot : first(s) \in BOOLEAN
    BY DEF LeaderShouldInitialize
  <2> QED
    BY <2>1 DEF ActivateChunk, Launchable, SlotsOf
<1>2. s \in Slot /\ slot[s] \in SlotRecord
  BY DEF Launchable, SlotsOf, TypeOK
<1>3. Usable \in Seq(BOOLEAN) /\ reused \in BOOLEAN
  BY UsableType DEF TypeOK
<1>4. idle' \in Seq(BOOLEAN)
  <2>1. Len(Usable) - 1 \in Int /\ Len(Usable) - 1 <= Len(Usable)
    BY <1>3, LenProperties
  <2>2. SubSeq(Usable, 1, Len(Usable) - 1) \in Seq(BOOLEAN) /\ <<>> \in Seq(BOOLEAN)
    BY <1>3, <2>1, PrefixType
  <2> QED
    BY <1>1, <2>2
<1> HIDE DEF reused
<1>5. slot' \in [Slot -> SlotRecord]
  BY <1>1, <1>2, <1>3, LaunchedType DEF TypeOK
<1>6. proc' \in [Slot -> WorkerRecord]
  <2>1. /\ Worker("sent", TRUE, ~reused, init) \in WorkerRecord
        /\ Worker("handshake", TRUE, ~reused, init) \in WorkerRecord
        /\ Worker("nolaunch", FALSE, FALSE, init) \in WorkerRecord
    BY <1>3 DEF Worker, WorkerRecord, Stages
  <2> QED
    BY <1>1, <1>2, <2>1 DEF TypeOK
<1>7. status' \in [Item -> {"absent", "queued", "transferring", "succeeded", "failed"}]
  BY DEF ActivateChunk, TypeOK
<1> QED
  BY <1>4, <1>5, <1>6, <1>7

\* The items that the dispatcher looks at.
LEMMA OrderItemType == ASSUME TypeOK, NEW k \in 1..Len(order) PROVE order[k] \in Item
BY ElementOfSeq DEF TypeOK

\* The round-robin cursor points into the jobs.
LEMMA TurnType ==
  ASSUME TypeOK, NEW n \in Nat, Len(jobs) > 0
  PROVE  Turn(n) \in 1..Len(jobs) /\ jobs[Turn(n)] \in Item /\ Turn(n) % Len(jobs) \in Nat
<1>1. Len(jobs) \in Nat /\ cursor + n \in Nat /\ jobs \in Seq(Item)
  BY LenProperties DEF TypeOK
<1>2. Turn(n) \in 1..Len(jobs)
  BY <1>1 DEF Turn
<1>3. Turn(n) % Len(jobs) \in Nat
  BY <1>1, <1>2
<1> QED
  BY <1>1, <1>2, <1>3, ElementOfSeq

\* The dispatch actions.
LEMMA DispatchStrictTypes == ASSUME TypeOK, DispatchStrict PROVE TypeOK'
<1>1. PICK i \in Item :
        \/ ActivateChunk(i) /\ UNCHANGED <<cursor, at>>
        \/ StartItem(i)
  <2>1. PICK k \in 1..Len(order) :
          IF HasJob(order[k])
          THEN ActivateChunk(order[k]) /\ UNCHANGED <<cursor, at>>
          ELSE StartItem(order[k])
    BY LenProperties DEF DispatchStrict, TypeOK
  <2> QED
    BY <2>1, OrderItemType
<1>2. CASE StartItem(i)
  BY <1>2, StartItemTypes
<1>3. CASE ActivateChunk(i) /\ UNCHANGED <<cursor, at>>
  BY <1>3, ActivateChunkTypes DEF ActivateChunk, TypeOK, fileVars, target, counts
<1> QED
  BY <1>1, <1>2, <1>3

\* GrantFirst keeps every variable in its type.
LEMMA GrantFirstTypes == ASSUME TypeOK, GrantFirst PROVE TypeOK'
<1>1. at.job \in 1..Len(order)
  BY LenProperties DEF GrantFirst, TypeOK
<1> DEFINE i == order[at.job]
<1>2. i \in Item
  BY <1>1, OrderItemType
<1>3. \/ StartItem(i)
      \/ ActivateChunk(i) /\ at' = [at EXCEPT !.job = @ + 1] /\ UNCHANGED cursor
  BY DEF GrantFirst
<1> HIDE DEF i
<1>4. CASE StartItem(i)
  BY <1>2, <1>4, StartItemTypes
<1>5. CASE ActivateChunk(i) /\ at' = [at EXCEPT !.job = @ + 1] /\ UNCHANGED cursor
  <2>1. at' \in [job : Nat \ {0}, part : Nat \ {0}]
    <3>1. at \in [job : Nat \ {0}, part : Nat \ {0}]
      BY DEF TypeOK
    <3> QED
      BY <1>5, <3>1
  <2> QED
    BY <1>2, <1>5, <2>1, ActivateChunkTypes
       DEF ActivateChunk, TypeOK, fileVars, target, counts
<1> QED
  BY <1>3, <1>4, <1>5

\* GrantSkip keeps every variable in its type.
LEMMA GrantSkipTypes == ASSUME TypeOK, GrantSkip PROVE TypeOK'
<1>1. at' \in [job : Nat \ {0}, part : Nat \ {0}]
  <2>1. at \in [job : Nat \ {0}, part : Nat \ {0}]
    BY DEF TypeOK
  <2> QED
    BY <2>1 DEF GrantSkip
<1> QED
  BY <1>1 DEF GrantSkip, TypeOK, queueVars, jobVars, fileVars, target, counts

\* GrantEnd keeps every variable in its type.
LEMMA GrantEndTypes == ASSUME TypeOK, GrantEnd PROVE TypeOK'
<1>1. idle' \in Seq(BOOLEAN)
  BY UsableType DEF GrantEnd, TypeOK
<1> QED
  BY <1>1 DEF GrantEnd, TypeOK, queueVars, jobVars, fileVars, target, counts

\* ShareChannel keeps every variable in its type.
LEMMA ShareChannelTypes == ASSUME TypeOK, ShareChannel PROVE TypeOK'
<1>1. Len(jobs) \in Nat
  BY LenProperties DEF TypeOK
<1>2. PICK n \in 0..(Len(jobs) - 1) :
        ActivateChunk(jobs[Turn(n)]) /\ cursor' = Turn(n) % Len(jobs)
  BY DEF ShareChannel
<1>3. jobs[Turn(n)] \in Item /\ cursor' \in Nat
  BY <1>1, <1>2, TurnType
<1> QED
  BY <1>2, <1>3, ActivateChunkTypes
     DEF ShareChannel, ActivateChunk, TypeOK, fileVars, target, counts

\* DispatchEnd keeps every variable in its type.
LEMMA DispatchEndTypes == ASSUME TypeOK, DispatchEnd PROVE TypeOK'
<1>1. idle' \in Seq(BOOLEAN)
  BY UsableType DEF DispatchEnd, TypeOK
<1> QED
  BY <1>1 DEF DispatchEnd, TypeOK, queueVars, jobVars, fileVars, target, counts

\* ReapIdle keeps every variable in its type.
LEMMA ReapIdleTypes == ASSUME TypeOK, ReapIdle PROVE TypeOK'
<1>1. PICK kept \in SUBSET DOMAIN idle :
        idle' = IF Pooling
                THEN Trimmed([k \in 1..Cardinality(kept) |-> TRUE], Cardinality(Busy))
                ELSE <<>>
  <2>1. ASSUME NEW expired \in SUBSET DOMAIN idle
        PROVE  {k \in DOMAIN idle : idle[k]} \ expired \in SUBSET DOMAIN idle
    OBVIOUS
  <2> QED
    BY <2>1 DEF ReapIdle
<1>2. [k \in 1..Cardinality(kept) |-> TRUE] \in Seq(BOOLEAN)
  BY RefilledType DEF TypeOK
<1>3. idle' \in Seq(BOOLEAN)
  <2> DEFINE pool == [k \in 1..Cardinality(kept) |-> TRUE]
  <2> HIDE DEF pool
  <2>1. Trimmed(pool, Cardinality(Busy)) \in Seq(BOOLEAN)
    BY <1>2, BusyFinite, TrimmedType DEF TypeOK, pool
  <2>2. idle' = IF Pooling THEN Trimmed(pool, Cardinality(Busy)) ELSE <<>>
    BY <1>1, Zenon DEF pool
  <2>3. <<>> \in Seq(BOOLEAN)
    OBVIOUS
  <2> QED
    BY <2>1, <2>2, <2>3, Zenon
<1> QED
  BY <1>3 DEF ReapIdle, TypeOK, queueVars, jobVars, fileVars, target, counts

\* Stopping a job.
LEMMA StopJobTypes ==
  ASSUME TypeOK, NEW i \in Item, StopJob(i)
  PROVE  /\ jobs' \in Seq(Item) /\ split' \in [Item -> 1..MaxParts] /\ cursor' \in Nat
         /\ resume' \in [Item -> BOOLEAN] /\ ready' \in [Item -> BOOLEAN]
         /\ slot' \in [Slot -> SlotRecord] /\ proc' \in [Slot -> WorkerRecord]
<1>1. ready' \in [Item -> BOOLEAN]
  BY DEF StopJob, TypeOK
<1>2. ASSUME NEW k \in DOMAIN jobs, EraseJob(k),
             cursor' = Reset(IF cursor >= k THEN cursor - 1 ELSE cursor, Len(jobs) - 1)
      PROVE  /\ jobs' \in Seq(Item) /\ split' \in [Item -> 1..MaxParts] /\ cursor' \in Nat
             /\ resume' \in [Item -> BOOLEAN]
             /\ slot' \in [Slot -> SlotRecord] /\ proc' \in [Slot -> WorkerRecord]
  <2>1. k \in 1..Len(jobs) /\ Len(jobs) \in Nat /\ cursor \in Nat
    BY LenProperties DEF TypeOK
  <2>2. cursor' \in Nat
    BY <1>2, <2>1 DEF Reset
  <2> QED
    BY <1>2, <2>1, <2>2, EraseJobTypes
<1>3. CASE UNCHANGED <<jobs, cursor, split, resume, slot, proc>>
  BY <1>1, <1>3 DEF TypeOK
<1> QED
  BY <1>1, <1>2, <1>3 DEF StopJob

\* The user's actions.
LEMMA UserActType == ASSUME TypeOK, UserAct PROVE ops' \in 0..MaxOps /\ faults' \in 0..MaxFaults
BY ConstantTypes DEF UserAct, TypeOK

\* Enqueue keeps every variable in its type.
LEMMA EnqueueTypes == ASSUME TypeOK, NEW i \in Item, Enqueue(i) PROVE TypeOK'
<1>1. order' \in Seq(Item)
  BY AppendKeeps DEF Enqueue, TypeOK
<1> QED
  BY <1>1 DEF Enqueue, TypeOK, jobVars, pumpVars, fileVars, target, counts

\* Pause keeps every variable in its type.
LEMMA PauseTypes == ASSUME TypeOK, NEW i \in Item, Pause(i) PROVE TypeOK'
<1>1. ops' \in 0..MaxOps /\ faults' \in 0..MaxFaults
  BY UserActType DEF Pause
<1>2. /\ status' \in [Item -> {"absent", "queued", "transferring", "succeeded", "failed"}]
      /\ paused' \in [Item -> BOOLEAN]
  BY DEF Pause, TypeOK
<1>3. CASE StopJob(i)
  BY <1>1, <1>2, <1>3, StopJobTypes DEF Pause, TypeOK, pumpVars, fileVars, target
<1>4. CASE UNCHANGED <<jobVars, proc>>
  BY <1>1, <1>2, <1>4 DEF Pause, TypeOK, jobVars, pumpVars, fileVars, target
<1> QED
  BY <1>3, <1>4 DEF Pause

\* Start keeps every variable in its type.
LEMMA StartTypes == ASSUME TypeOK, NEW i \in Item, Start(i) PROVE TypeOK'
<1>1. ops' \in 0..MaxOps /\ faults' \in 0..MaxFaults
  BY UserActType DEF Start
<1> QED
  BY <1>1 DEF Start, TypeOK, jobVars, pumpVars, fileVars, target

\* RetryFailedParts keeps every variable in its type.
LEMMA RetryFailedPartsTypes == ASSUME TypeOK, NEW i \in Item, RetryFailedParts(i) PROVE TypeOK'
<1>1. ops' \in 0..MaxOps /\ faults' \in 0..MaxFaults
  BY UserActType DEF RetryFailedParts
<1>2. slot' \in [Slot -> SlotRecord]
  <2>1. ASSUME NEW s \in Slot
        PROVE  slot[s] \in SlotRecord /\ ArmManualRetry(slot[s]) \in SlotRecord
    BY ArmManualRetryType DEF TypeOK
  <2> QED
    BY <2>1 DEF RetryFailedParts
<1> QED
  BY <1>1, <1>2 DEF RetryFailedParts, TypeOK, queueVars, pumpVars, fileVars, target

\* RemoveItem keeps every variable in its type.
LEMMA RemoveItemTypes == ASSUME TypeOK, NEW i \in Item, RemoveItem(i) PROVE TypeOK'
<1>1. ops' \in 0..MaxOps /\ faults' \in 0..MaxFaults
  BY UserActType DEF RemoveItem
<1>2. order' \in Seq(Item)
  <2>1. PICK k \in DOMAIN order : order' = RemoveAt(order, k)
    BY DEF RemoveItem
  <2>2. order \in Seq(Item) /\ k \in 1..Len(order)
    BY LenProperties DEF TypeOK
  <2> QED
    BY <2>1, <2>2, RemoveAtElements
<1>3. status' \in [Item -> {"absent", "queued", "transferring", "succeeded", "failed"}]
  BY DEF RemoveItem, TypeOK
<1>4. CASE StopJob(i)
  BY <1>1, <1>2, <1>3, <1>4, StopJobTypes DEF RemoveItem, TypeOK, pumpVars, fileVars, target
<1>5. CASE UNCHANGED <<jobVars, proc>>
  BY <1>1, <1>2, <1>3, <1>5 DEF RemoveItem, TypeOK, jobVars, pumpVars, fileVars, target
<1> QED
  BY <1>4, <1>5 DEF RemoveItem

\* PinTop keeps every variable in its type.
LEMMA PinTopTypes == ASSUME TypeOK, NEW i \in Item, PinTop(i) PROVE TypeOK'
<1>1. ops' \in 0..MaxOps /\ faults' \in 0..MaxFaults
  BY UserActType DEF PinTop
<1>2. order' \in Seq(Item)
  <2>1. PICK k \in DOMAIN order, pos \in 1..Len(order) :
          order' = InsertAt(RemoveAt(order, k), pos, i)
    BY DEF PinTop
  <2> DEFINE rest == RemoveAt(order, k)
  <2>2. k \in 1..Len(order) /\ order \in Seq(Item) /\ Len(order) \in Nat
    BY LenProperties DEF TypeOK
  <2>3. rest \in Seq(Item) /\ Len(rest) = Len(order) - 1
    BY <2>2, RemoveAtElements
  <2> HIDE DEF rest
  <2>4. pos \in 1..(Len(rest) + 1)
    BY <2>2, <2>3
  <2>5. InsertAt(rest, pos, i) \in Seq(Item)
    BY <2>3, <2>4, InsertAtKeeps
  <2> QED
    BY <2>1, <2>5 DEF rest
<1> QED
  BY <1>1, <1>2 DEF PinTop, TypeOK, jobVars, pumpVars, fileVars, target

\* ApplySettings keeps every variable in its type.
LEMMA ApplySettingsTypes == ASSUME TypeOK, NEW l \in Limits, ApplySettings(l) PROVE TypeOK'
<1>1. ops' \in 0..MaxOps /\ faults' \in 0..MaxFaults
  BY UserActType DEF ApplySettings
<1>2. idle' \in Seq(BOOLEAN)
  <2>1. idle \in Seq(BOOLEAN) /\ Len(idle) \in Nat /\ l.conn \in Nat
    BY LenProperties, ConstantTypes DEF TypeOK
  <2>2. CASE Len(idle) > l.conn
    <3>1. SubSeq(idle, 1, l.conn) \in Seq(BOOLEAN)
      BY <2>1, <2>2, PrefixType
    <3> QED
      BY <2>2, <3>1 DEF ApplySettings
  <2>3. CASE ~(Len(idle) > l.conn)
    BY <2>1, <2>3 DEF ApplySettings
  <2> QED
    BY <2>2, <2>3
<1> QED
  BY <1>1, <1>2 DEF ApplySettings, TypeOK, queueVars, jobVars, pumpVars, fileVars, target

\* Crash keeps every variable in its type.
LEMMA CrashTypes == ASSUME TypeOK, Crash PROVE TypeOK'
<1>1. 1 \in 1..MaxParts /\ ops' \in 0..MaxOps /\ faults' \in 0..MaxFaults
  BY ConstantTypes DEF Crash, TypeOK
<1>2. slot' \in [Slot -> SlotRecord] /\ proc' \in [Slot -> WorkerRecord]
  BY FreshSlotType, NoProcType DEF Crash
<1>3. at' \in [job : Nat \ {0}, part : Nat \ {0}]
  BY DEF Crash
<1> QED
  BY <1>1, <1>2, <1>3 DEF Crash, TypeOK, fileVars, target

\* PooledLinkLost keeps every variable in its type.
LEMMA PooledLinkLostTypes == ASSUME TypeOK, NEW k \in DOMAIN idle, PooledLinkLost(k) PROVE TypeOK'
<1>1. idle' \in Seq(BOOLEAN)
  <2>1. idle \in Seq(BOOLEAN) /\ k \in 1..Len(idle)
    BY LenProperties DEF TypeOK
  <2> QED
    BY <2>1, ExceptSeq DEF PooledLinkLost
<1>2. faults' \in 0..MaxFaults
  BY ConstantTypes DEF PooledLinkLost, Fault, TypeOK
<1> QED
  BY <1>1, <1>2 DEF PooledLinkLost, TypeOK, queueVars, jobVars, pumpVars, fileVars, target

\* DelayElapses keeps every variable in its type.
LEMMA DelayElapsesTypes == ASSUME TypeOK, NEW s \in Slot, DelayElapses(s) PROVE TypeOK'
<1>1. slot[s] \in SlotRecord /\ slot' = [slot EXCEPT ![s].ripe = TRUE]
  BY DEF DelayElapses, TypeOK
<1>2. slot' \in [Slot -> SlotRecord]
  BY <1>1 DEF TypeOK, SlotRecord
<1> QED
  BY <1>2 DEF DelayElapses, TypeOK, queueVars, pumpVars, fileVars, target, counts

\* The initial state is well typed.
LEMMA InitTypes == Init => TypeOK
<1> SUFFICES ASSUME Init PROVE TypeOK
  OBVIOUS
<1>1. 1 \in 1..MaxParts /\ 0 \in 0..MaxFaults /\ 0 \in 0..MaxOps /\ 0 \in 0..PartSize
  BY ConstantTypes
<1>2. slot \in [Slot -> SlotRecord] /\ proc \in [Slot -> WorkerRecord]
  BY FreshSlotType, NoProcType DEF Init
<1>3. at \in [job : Nat \ {0}, part : Nat \ {0}]
  BY DEF Init
<1> QED
  BY <1>1, <1>2, <1>3 DEF Init, TypeOK

\* Every step keeps the types.
LEMMA NextTypes == TypeOK /\ [Next]_vars => TypeOK'
<1> SUFFICES ASSUME TypeOK, [Next]_vars PROVE TypeOK'
  OBVIOUS
<1>1. CASE \E s \in Slot : Helper(s) \/ DelayElapses(s)
  BY <1>1, HelperTypes, DelayElapsesTypes
<1>2. CASE \E k \in DOMAIN idle : PooledLinkLost(k)
  BY <1>2, PooledLinkLostTypes
<1>3. CASE Fold
  BY <1>3, FoldExhaustedTypes, FoldRunningTypes, FoldSucceededTypes, FoldFailedTypes,
     FoldOrphanTypes, FoldJobEndTypes, FoldEndTypes DEF Fold
<1>4. CASE Dispatch
  BY <1>4, DispatchStrictTypes, GrantFirstTypes, GrantSkipTypes, GrantEndTypes,
     ShareChannelTypes, DispatchEndTypes, ReapIdleTypes DEF Dispatch
<1>5. CASE User
  BY <1>5, EnqueueTypes, PauseTypes, StartTypes, RetryFailedPartsTypes, RemoveItemTypes,
     PinTopTypes, ApplySettingsTypes DEF User
<1>6. CASE PumpBegin \/ Crash
  BY <1>6, PumpBeginTypes, CrashTypes
<1>7. CASE UNCHANGED vars
  BY <1>7 DEF TypeOK, vars, queueVars, jobVars, pumpVars, fileVars, target, counts
<1> QED
  BY <1>1, <1>2, <1>3, <1>4, <1>5, <1>6, <1>7 DEF Next, Pump

\* Every variable keeps its type, for any files, settings and bounds.
THEOREM TypeCorrect == Spec => []TypeOK
BY InitTypes, NextTypes, PTL DEF Spec

-----------------------------------------------------------------------------
(* The queue, the jobs and the workers agree.  JobsMatchQueue and            *)
(* NoOrphanWorker need each other: a job is started only for an item without *)
(* one, so the item has no worker; and an item with a worker has a job.      *)

Agree == NoOrphanWorker /\ JobsMatchQueue
Inv == TypeOK /\ Agree

\* Steps that leave the queue and the jobs alone and start no worker.
LEMMA AgreeFrame ==
  ASSUME Agree, UNCHANGED <<order, status, paused, jobs>>,
         \A s \in Slot : proc'[s] # NoProc =>
           proc[s] # NoProc /\ (slot[s].phase = "running" => slot'[s].phase = "running")
  PROVE  Agree'
BY DEF Agree, NoOrphanWorker, JobsMatchQueue, InQueue, HasJob

\* What a removal leaves was there before.
LEMMA RemoveAtWithin ==
  ASSUME NEW S, NEW q \in Seq(S), NEW k \in 1..Len(q), NEW e, Contains(RemoveAt(q, k), e)
  PROVE  Contains(q, e)
<1> DEFINE r == RemoveAt(q, k)
<1>1. Len(q) \in Nat /\ Len(r) = Len(q) - 1
      /\ \A j \in 1..(Len(q) - 1) : r[j] = IF j < k THEN q[j] ELSE q[j + 1]
  BY RemoveAtElements, LenProperties
<1> HIDE DEF r
<1>2. PICK j \in 1..Len(r) : r[j] = e
  BY DEF Contains, r
<1>3. j \in 1..Len(q) /\ j + 1 \in 1..Len(q)
  BY <1>1
<1> QED
  BY <1>1, <1>2, <1>3 DEF Contains

\* The job of item i is gone, and nothing of the other jobs has changed.
Forgotten(i) ==
  /\ IsInjective(jobs') /\ ~Contains(jobs', i)
  /\ \A x : x # i => (Contains(jobs', x) <=> Contains(jobs, x))
  /\ \A s \in Slot : IF s[1] = i THEN proc'[s] = NoProc
                     ELSE proc'[s] = proc[s] /\ slot'[s] = slot[s]

\* An erased job is gone with its workers; the other jobs stay.
LEMMA EraseJobForgets ==
  ASSUME Inv, NEW k \in 1..Len(jobs), EraseJob(k) PROVE Forgotten(jobs[k])
<1>1. jobs \in Seq(Item) /\ IsInjective(jobs) /\ jobs' = RemoveAt(jobs, k)
  BY DEF Inv, TypeOK, Agree, JobsMatchQueue, EraseJob
<1>2. IsInjective(jobs') /\ ~Contains(jobs', jobs[k])
  BY <1>1, RemoveAtInjective
<1>3. \A x : x # jobs[k] => (Contains(jobs', x) <=> Contains(jobs, x))
  BY <1>1, RemoveAtKeeps, RemoveAtWithin
<1>4. \A s \in Slot : IF s[1] = jobs[k] THEN proc'[s] = NoProc
                      ELSE proc'[s] = proc[s] /\ slot'[s] = slot[s]
  BY DEF EraseJob
<1> QED
  BY <1>2, <1>3, <1>4 DEF Forgotten

\* So is a stopped job, if there was one.
LEMMA StopJobForgets ==
  ASSUME Inv, NEW i \in Item, StopJob(i) PROVE Forgotten(i)
<1>1. CASE \E k \in DOMAIN jobs : jobs[k] = i /\ EraseJob(k)
  <2>1. PICK k \in DOMAIN jobs : jobs[k] = i /\ EraseJob(k)
    BY <1>1
  <2>2. jobs \in Seq(Item)
    BY DEF Inv, TypeOK
  <2>3. k \in 1..Len(jobs)
    BY <2>2, LenProperties
  <2>4. Forgotten(jobs[k])
    BY <2>1, <2>3, EraseJobForgets
  <2> QED
    BY <2>1, <2>4
<1>2. CASE ~HasJob(i) /\ UNCHANGED <<jobs, slot, proc>>
  BY <1>2 DEF Forgotten, Inv, Agree, NoOrphanWorker, JobsMatchQueue, HasJob
<1> QED
  BY <1>1, <1>2 DEF StopJob

\* Forgetting the job of item i, that is then no longer transferring, agrees with
\* a queue that keeps the other items.
LEMMA ForgetAgrees ==
  ASSUME Inv, NEW i \in Item, Forgotten(i), IsInjective(order'),
         \A x \in Item : x # i => (Contains(order', x) <=> Contains(order, x)),
         \A x \in Item : x # i => status'[x] = status[x] /\ paused'[x] = paused[x],
         status'[i] # "transferring"
  PROVE  Agree'
<1>1. NoOrphanWorker'
  BY SlotType DEF Inv, Agree, NoOrphanWorker, HasJob, Forgotten
<1>2. JobsMatchQueue'
  BY DEF Inv, Agree, JobsMatchQueue, HasJob, InQueue, Forgotten
<1> QED
  BY <1>1, <1>2 DEF Agree

\* A worker that is alive is one.
LEMMA AliveIsProc == \A s \in Slot : proc[s].alive => proc[s] # NoProc
BY DEF NoProc, Worker

\* The steps of the helpers, of the pool and of time.
LEMMA HelperAgrees == ASSUME Inv, NEW s \in Slot, Helper(s) PROVE Agree'
<1>1. proc[s].alive /\ HelperFrame
  BY DEF Helper, HelperConnect, HelperOpen, HelperWrite, HelperReport, HelperDone,
         HelperFail, LinkLost
<1>2. proc[s] # NoProc
  BY <1>1, AliveIsProc
<1>3. \A t \in Slot : t # s => proc'[t] = proc[t]
  BY DEF Helper, HelperConnect, HelperOpen, HelperWrite, HelperReport, HelperDone,
         HelperFail, LinkLost, Inv, TypeOK
<1> QED
  BY <1>1, <1>2, <1>3, AgreeFrame DEF HelperFrame, queueVars, jobVars, Inv

\* DelayElapses keeps queue, jobs and workers in agreement.
LEMMA DelayElapsesAgrees == ASSUME Inv, NEW s \in Slot, DelayElapses(s) PROVE Agree'
<1>1. \A t \in Slot : slot'[t].phase = slot[t].phase
  BY DEF DelayElapses, Inv, TypeOK, SlotRecord
<1> QED
  BY <1>1, AgreeFrame DEF DelayElapses, queueVars, Inv

\* Steps of the pump that move no job.
LEMMA PumpBeginAgrees == ASSUME Inv, PumpBegin PROVE Agree'
<1>1. ASSUME NEW t \in Slot PROVE slot'[t].phase = slot[t].phase
  <2>1. slot[t] \in SlotRecord /\ slot'[t] = [slot[t] EXCEPT !.armed = FALSE]
    BY DEF PumpBegin, Inv, TypeOK
  <2> QED
    BY <2>1 DEF SlotRecord
<1> QED
  BY <1>1, AgreeFrame DEF PumpBegin, queueVars, Inv

\* The fold of one chunk changes its own slot and worker only, and no worker comes
\* to a chunk that had none: a running chunk whose outcome is open has a live one.
LEMMA FoldSlotAgrees ==
  ASSUME Inv, NEW s \in Slot,
         FoldExhausted(s) \/ FoldRunning(s) \/ FoldSucceeded(s) \/ FoldFailed(s)
  PROVE  Agree'
<1>1. UNCHANGED <<order, status, paused, jobs>>
  BY DEF FoldExhausted, FoldRunning, FoldSucceeded, FoldFailed, queueVars
<1>2. \A t \in Slot : t # s => proc'[t] = proc[t] /\ slot'[t] = slot[t]
  BY DEF FoldExhausted, FoldRunning, FoldSucceeded, FoldFailed, Inv, TypeOK
<1>3. slot[s] \in SlotRecord /\ proc[s] \in WorkerRecord
  BY DEF Inv, TypeOK
<1>4. CASE FoldExhausted(s)
  <2>1. slot[s].phase # "running" /\ proc' = proc
    BY <1>4 DEF FoldExhausted, OutOfTries
  <2> QED
    BY <1>1, <1>2, <2>1, AgreeFrame DEF Inv
<1>5. CASE FoldRunning(s)
  <2>1. slot'[s] = Polled(s)
    BY <1>5 DEF FoldRunning, Inv, TypeOK
  <2>2. slot'[s].phase = slot[s].phase
    BY <1>3, <2>1, PolledType
  <2>3. proc[s] # NoProc
    BY <1>5 DEF FoldRunning, Outcome, NoProc, Worker
  <2> QED
    BY <1>1, <1>2, <2>2, <2>3, AgreeFrame DEF Inv
<1>6. CASE FoldSucceeded(s) \/ FoldFailed(s)
  <2>1. proc'[s] = NoProc
    BY <1>6 DEF FoldSucceeded, FoldFailed, Inv, TypeOK
  <2> QED
    BY <1>1, <1>2, <2>1, AgreeFrame DEF Inv
<1> QED
  BY <1>4, <1>5, <1>6

\* The pump erases jobs of removed items, and of items it has decided.
LEMMA FoldOrphanAgrees == ASSUME Inv, FoldOrphan PROVE Agree'
<1>1. at.job \in 1..Len(jobs) /\ JobItem \in Item
  BY JobItemType DEF FoldOrphan, Inv
<1>2. Forgotten(JobItem)
  BY <1>1, EraseJobForgets DEF FoldOrphan, JobItem
<1>3. /\ UNCHANGED <<order, status, paused>> /\ ~InQueue(JobItem)
      /\ IsInjective(order) /\ status[JobItem] # "transferring"
  BY <1>1 DEF FoldOrphan, queueVars, Inv, Agree, JobsMatchQueue
<1> QED
  BY <1>1, <1>2, <1>3, ForgetAgrees

\* FoldJobEnd keeps queue, jobs and workers in agreement.
LEMMA FoldJobEndAgrees == ASSUME Inv, FoldJobEnd PROVE Agree'
<1>1. at.job \in 1..Len(jobs) /\ JobItem \in Item
  BY JobItemType DEF FoldJobEnd, Inv
<1>2. CASE DecideParent(JobItem) = "transferring"
  BY <1>2, AgreeFrame DEF FoldJobEnd, Inv
<1>3. CASE DecideParent(JobItem) # "transferring"
  <2>1. /\ EraseJob(at.job) /\ UNCHANGED <<order, paused>>
        /\ status' = [status EXCEPT ![JobItem] = DecideParent(JobItem)]
    BY <1>3 DEF FoldJobEnd
  <2>2. Forgotten(JobItem)
    BY <1>1, <2>1, EraseJobForgets DEF JobItem
  <2>3. /\ IsInjective(order)
        /\ status'[JobItem] # "transferring"
        /\ \A x \in Item : x # JobItem => status'[x] = status[x]
    BY <1>1, <1>3, <2>1 DEF Inv, TypeOK, Agree, JobsMatchQueue
  <2> QED
    BY <1>1, <2>1, <2>2, <2>3, ForgetAgrees
<1> QED
  BY <1>2, <1>3

\* Dispatch: jobs and workers for items that the queue holds.
LEMMA StartItemAgrees ==
  ASSUME Inv, NEW i \in Item, StartItem(i), ~HasJob(i), status[i] = "queued"
  PROVE  Agree'
<1>1. /\ jobs \in Seq(Item) /\ jobs' = Append(jobs, i)
      /\ UNCHANGED <<order, status, paused, proc>>
      /\ \A s \in Slot : s[1] # i => slot'[s] = slot[s]
  BY DEF StartItem, Inv, TypeOK
<1>2. \A e : Contains(jobs, e) => Contains(jobs', e)
  BY <1>1, AppendKeeps
<1>3. IsInjective(jobs')
  BY <1>1, AppendKeeps DEF HasJob, Inv, Agree, JobsMatchQueue
<1>4. ASSUME NEW e, Contains(jobs', e), e # i PROVE Contains(jobs, e)
  <2>1. /\ Len(jobs) \in Nat /\ Len(jobs') = Len(jobs) + 1 /\ jobs'[Len(jobs) + 1] = i
        /\ \A j \in 1..Len(jobs) : jobs'[j] = jobs[j]
    BY <1>1
  <2> QED
    BY <1>4, <2>1 DEF Contains
<1>5. NoOrphanWorker'
  BY <1>1, <1>2 DEF Inv, Agree, NoOrphanWorker, HasJob
<1>6. JobsMatchQueue'
  BY <1>1, <1>2, <1>3, <1>4 DEF Inv, Agree, JobsMatchQueue, HasJob, InQueue
<1> QED
  BY <1>5, <1>6 DEF Agree

\* ActivateChunk keeps queue, jobs and workers in agreement.
LEMMA ActivateChunkAgrees ==
  ASSUME Inv, NEW i \in Item, ActivateChunk(i), InQueue(i), ~paused[i]
  PROVE  Agree'
<1>1. /\ HasJob(i) /\ UNCHANGED <<order, paused, jobs>>
      /\ status' = [status EXCEPT ![i] = "transferring"]
  BY DEF ActivateChunk
<1>2. PICK s \in Launchable(i) :
        /\ slot' = [slot EXCEPT ![s] = Launched(slot[s], Usable # <<>>)]
        /\ \A t \in Slot : t # s => proc'[t] = proc[t]
  BY DEF ActivateChunk, Inv, TypeOK
<1>3. s \in Slot /\ s[1] = i /\ slot[s] \in SlotRecord
  BY DEF Launchable, SlotsOf, Inv, TypeOK
<1>4. slot'[s].phase = "running" /\ \A t \in Slot : t # s => slot'[t] = slot[t]
  <2>1. slot'[s] = Launched(slot[s], Usable # <<>>)
    BY <1>2, <1>3 DEF Inv, TypeOK
  <2>2. Launched(slot[s], Usable # <<>>).phase = "running"
    BY <1>3 DEF Launched, SlotRecord
  <2> QED
    BY <1>2, <2>1, <2>2 DEF Inv, TypeOK
<1>5. /\ status'[i] = "transferring"
      /\ \A x \in Item : x # i => status'[x] = status[x]
  BY <1>1 DEF Inv, TypeOK
<1>6. NoOrphanWorker'
  BY <1>1, <1>2, <1>3, <1>4, <1>5, SlotType DEF Inv, Agree, NoOrphanWorker, HasJob
<1>7. JobsMatchQueue'
  BY <1>1, <1>5 DEF Inv, Agree, JobsMatchQueue, HasJob, InQueue
<1> QED
  BY <1>6, <1>7 DEF Agree

\* A position of the queue holds a queued item.
LEMMA InOrder == ASSUME NEW k \in 1..Len(order) PROVE InQueue(order[k])
BY DEF InQueue, Contains

\* DispatchStrict keeps queue, jobs and workers in agreement.
LEMMA DispatchStrictAgrees == ASSUME Inv, DispatchStrict PROVE Agree'
<1>1. PICK k \in 1..Len(order) :
        /\ Wants(k)
        /\ IF HasJob(order[k]) THEN ActivateChunk(order[k]) ELSE StartItem(order[k])
  <2>1. DOMAIN order = 1..Len(order)
    BY LenProperties DEF Inv, TypeOK
  <2> QED
    BY <2>1 DEF DispatchStrict
<1>2. order[k] \in Item /\ InQueue(order[k])
  BY OrderItemType, InOrder DEF Inv
<1>3. ~paused[order[k]]
  BY <1>1 DEF Wants
<1>4. CASE HasJob(order[k])
  BY <1>1, <1>2, <1>3, <1>4, ActivateChunkAgrees
<1>5. CASE ~HasJob(order[k])
  <2>1. status[order[k]] = "queued"
    BY <1>1, <1>5 DEF Wants, CanActivate
  <2> QED
    BY <1>1, <1>2, <1>5, <2>1, StartItemAgrees
<1> QED
  BY <1>4, <1>5

\* GrantFirst keeps queue, jobs and workers in agreement.
LEMMA GrantFirstAgrees == ASSUME Inv, GrantFirst PROVE Agree'
<1> DEFINE i == order[at.job]
<1>1. at.job \in 1..Len(order)
  BY LenProperties DEF GrantFirst, Inv, TypeOK
<1>2. i \in Item /\ InQueue(i)
  BY <1>1, OrderItemType, InOrder DEF Inv
<1>3. /\ status[i] = "queued" /\ ~paused[i]
      /\ (~HasJob(i) /\ StartItem(i)) \/ ActivateChunk(i)
  BY DEF GrantFirst, Waiting
<1> HIDE DEF i
<1> QED
  BY <1>2, <1>3, StartItemAgrees, ActivateChunkAgrees

\* ShareChannel keeps queue, jobs and workers in agreement.
LEMMA ShareChannelAgrees == ASSUME Inv, ShareChannel PROVE Agree'
<1>1. Len(jobs) \in Nat
  BY LenProperties DEF Inv, TypeOK
<1>2. PICK n \in 0..(Len(jobs) - 1) :
        MayShare(jobs[Turn(n)]) /\ ActivateChunk(jobs[Turn(n)])
  BY DEF ShareChannel
<1>3. jobs[Turn(n)] \in Item
  BY <1>1, TurnType DEF Inv
<1> QED
  BY <1>2, <1>3, ActivateChunkAgrees DEF MayShare

\* The user's actions.
LEMMA EnqueueAgrees == ASSUME Inv, NEW i \in Item, Enqueue(i) PROVE Agree'
<1>1. /\ order \in Seq(Item) /\ order' = Append(order, i)
      /\ ~InQueue(i) /\ ~HasJob(i) /\ UNCHANGED <<jobs, slot, proc>>
      /\ status'[i] = "queued"
      /\ \A x \in Item : x # i => status'[x] = status[x] /\ paused'[x] = paused[x]
  BY DEF Enqueue, jobVars, Inv, TypeOK
<1>2. /\ IsInjective(order')
      /\ \A e : Contains(order, e) => Contains(order', e)
  BY <1>1, AppendKeeps DEF InQueue, Inv, Agree, JobsMatchQueue
<1>3. ASSUME NEW e, Contains(order', e), e # i PROVE Contains(order, e)
  <2>1. /\ Len(order) \in Nat /\ Len(order') = Len(order) + 1 /\ order'[Len(order) + 1] = i
        /\ \A j \in 1..Len(order) : order'[j] = order[j]
    BY <1>1
  <2> QED
    BY <1>3, <2>1 DEF Contains
<1>4. NoOrphanWorker'
  BY <1>1, SlotType DEF Inv, Agree, NoOrphanWorker, HasJob
<1>5. JobsMatchQueue'
  BY <1>1, <1>2, <1>3 DEF Inv, Agree, JobsMatchQueue, HasJob, InQueue
<1> QED
  BY <1>4, <1>5 DEF Agree

\* An item that is not transferring has no worker: its status may change.
LEMMA StatusAgrees ==
  ASSUME Inv, NEW i \in Item, status[i] # "transferring", status'[i] = "queued",
         \A x \in Item : x # i => status'[x] = status[x] /\ paused'[x] = paused[x],
         UNCHANGED <<order, jobs, slot, proc>>
  PROVE  Agree'
<1>1. NoOrphanWorker'
  BY SlotType DEF Inv, Agree, NoOrphanWorker, HasJob
<1>2. JobsMatchQueue'
  BY DEF Inv, Agree, JobsMatchQueue, HasJob, InQueue
<1> QED
  BY <1>1, <1>2 DEF Agree

\* Pause keeps queue, jobs and workers in agreement.
LEMMA PauseAgrees == ASSUME Inv, NEW i \in Item, Pause(i) PROVE Agree'
<1>1. /\ order' = order /\ status'[i] = "queued" /\ IsInjective(order)
      /\ \A x \in Item : x # i => status'[x] = status[x] /\ paused'[x] = paused[x]
  BY DEF Pause, Inv, TypeOK, Agree, JobsMatchQueue
<1>2. CASE StopJob(i)
  BY <1>1, <1>2, StopJobForgets, ForgetAgrees
<1>3. CASE status[i] = "queued" /\ UNCHANGED <<jobVars, proc>>
  BY <1>1, <1>3, StatusAgrees DEF jobVars
<1> QED
  BY <1>2, <1>3 DEF Pause

\* Start keeps queue, jobs and workers in agreement.
LEMMA StartAgrees == ASSUME Inv, NEW i \in Item, Start(i) PROVE Agree'
<1>1. /\ status[i] # "transferring" /\ status'[i] = "queued"
      /\ UNCHANGED <<order, jobs, slot, proc>>
      /\ \A x \in Item : x # i => status'[x] = status[x] /\ paused'[x] = paused[x]
  BY DEF Start, jobVars, Inv, TypeOK
<1> QED
  BY <1>1, StatusAgrees

\* RetryFailedParts keeps queue, jobs and workers in agreement.
LEMMA RetryFailedPartsAgrees == ASSUME Inv, NEW i \in Item, RetryFailedParts(i) PROVE Agree'
<1>1. \A t \in Slot : proc[t] # NoProc => slot'[t] = slot[t]
  BY DEF RetryFailedParts
<1> QED
  BY <1>1, AgreeFrame DEF RetryFailedParts, queueVars, Inv

\* RemoveItem keeps queue, jobs and workers in agreement.
LEMMA RemoveItemAgrees == ASSUME Inv, NEW i \in Item, RemoveItem(i) PROVE Agree'
<1>1. PICK k \in DOMAIN order : order[k] = i /\ order' = RemoveAt(order, k)
  BY DEF RemoveItem
<1>2. /\ order \in Seq(Item) /\ k \in 1..Len(order) /\ IsInjective(order)
      /\ status'[i] = "absent" /\ \A x \in Item : x # i => status'[x] = status[x]
      /\ paused' = paused
  BY LenProperties DEF RemoveItem, Inv, TypeOK, Agree, JobsMatchQueue
<1>3. IsInjective(order') /\ ~Contains(order', i)
  BY <1>1, <1>2, RemoveAtInjective
<1>4. \A x : x # i => (Contains(order', x) <=> Contains(order, x))
  BY <1>1, <1>2, RemoveAtKeeps, RemoveAtWithin
<1>5. CASE status[i] = "transferring"
  <2>1. StopJob(i)
    BY <1>5 DEF RemoveItem
  <2> QED
    BY <1>2, <1>3, <1>4, <2>1, StopJobForgets, ForgetAgrees
<1>6. CASE status[i] # "transferring"
  <2>1. UNCHANGED <<jobs, slot, proc>>
    BY <1>6 DEF RemoveItem, jobVars
  <2>2. NoOrphanWorker'
    BY <1>2, <1>6, <2>1, SlotType DEF Inv, Agree, NoOrphanWorker, HasJob
  <2>3. JobsMatchQueue'
    BY <1>2, <1>3, <1>4, <2>1 DEF Inv, Agree, JobsMatchQueue, HasJob, InQueue
  <2> QED
    BY <2>2, <2>3 DEF Agree
<1> QED
  BY <1>5, <1>6

\* PinTop keeps queue, jobs and workers in agreement.
LEMMA PinTopAgrees == ASSUME Inv, NEW i \in Item, PinTop(i) PROVE Agree'
<1>1. PICK k \in DOMAIN order, pos \in 1..Len(order) :
        order[k] = i /\ order' = InsertAt(RemoveAt(order, k), pos, i)
  BY DEF PinTop
<1> DEFINE rest == RemoveAt(order, k)
<1>2. /\ order \in Seq(Item) /\ k \in 1..Len(order) /\ Len(order) \in Nat
      /\ IsInjective(order)
  BY LenProperties DEF Inv, TypeOK, Agree, JobsMatchQueue
<1>3. rest \in Seq(Item) /\ Len(rest) = Len(order) - 1
  BY <1>2, RemoveAtElements
<1>4. IsInjective(rest) /\ ~Contains(rest, i)
  BY <1>1, <1>2, RemoveAtInjective
<1>5. \A x : x # i => (Contains(rest, x) <=> Contains(order, x))
  BY <1>1, <1>2, RemoveAtKeeps, RemoveAtWithin
<1> HIDE DEF rest
<1>6. order' = InsertAt(rest, pos, i) /\ pos \in 1..(Len(rest) + 1)
  BY <1>1, <1>2, <1>3 DEF rest
<1>7. /\ IsInjective(order')
      /\ \A e : Contains(order', e) <=> Contains(rest, e) \/ e = i
  BY <1>3, <1>4, <1>6, InsertAtKeeps
<1>8. Contains(order, i)
  BY <1>1, <1>2 DEF Contains
<1>9. \A e : Contains(order', e) <=> Contains(order, e)
  BY <1>5, <1>7, <1>8
<1>10. UNCHANGED <<status, paused, jobs, slot, proc>>
  BY DEF PinTop, jobVars
<1> QED
  BY <1>7, <1>9, <1>10 DEF Inv, Agree, NoOrphanWorker, JobsMatchQueue, HasJob, InQueue

\* Crash keeps queue, jobs and workers in agreement.
LEMMA CrashAgrees == Crash => Agree'
BY DEF Crash, Agree, NoOrphanWorker, JobsMatchQueue, HasJob, InQueue, Contains, IsInjective

\* The remaining steps change neither the queue nor a job nor a worker.
LEMMA OtherAgrees ==
  ASSUME Inv,
         \/ FoldEnd \/ GrantSkip \/ GrantEnd \/ DispatchEnd \/ ReapIdle \/ UNCHANGED vars
         \/ \E k \in DOMAIN idle : PooledLinkLost(k)
         \/ \E l \in Limits : ApplySettings(l)
  PROVE  Agree'
<1>1. UNCHANGED <<order, status, paused, jobs, slot, proc>>
  BY DEF FoldEnd, GrantSkip, GrantEnd, DispatchEnd, ReapIdle, vars, PooledLinkLost,
         ApplySettings, queueVars, jobVars
<1> QED
  BY <1>1, AgreeFrame DEF Inv

\* Nothing is queued at first.
LEMMA InitAgrees == Init => Agree
BY DEF Init, Agree, NoOrphanWorker, JobsMatchQueue, HasJob, InQueue, Contains, IsInjective

\* Every step keeps queue, jobs and workers in agreement.
LEMMA NextAgrees == Inv /\ [Next]_vars => Agree'
<1> SUFFICES ASSUME Inv, [Next]_vars PROVE Agree'
  OBVIOUS
<1>1. CASE \E s \in Slot : Helper(s) \/ DelayElapses(s)
  BY <1>1, HelperAgrees, DelayElapsesAgrees
<1>2. CASE Fold
  BY <1>2, FoldSlotAgrees, FoldOrphanAgrees, FoldJobEndAgrees, OtherAgrees DEF Fold
<1>3. CASE Dispatch
  BY <1>3, DispatchStrictAgrees, GrantFirstAgrees, ShareChannelAgrees, OtherAgrees
     DEF Dispatch
<1>4. CASE User
  BY <1>4, EnqueueAgrees, PauseAgrees, StartAgrees, RetryFailedPartsAgrees,
     RemoveItemAgrees, PinTopAgrees, OtherAgrees DEF User
<1>5. CASE PumpBegin \/ Crash
  BY <1>5, PumpBeginAgrees, CrashAgrees
<1>6. CASE UNCHANGED vars \/ \E k \in DOMAIN idle : PooledLinkLost(k)
  BY <1>6, OtherAgrees
<1> QED
  BY <1>1, <1>2, <1>3, <1>4, <1>5, <1>6 DEF Next, Pump

\* The strengthened invariant is inductive.
THEOREM InvHolds == Spec => []Inv
<1>1. Init => Inv
  BY InitTypes, InitAgrees DEF Inv
<1>2. Inv /\ [Next]_vars => Inv'
  BY NextTypes, NextAgrees DEF Inv
<1> QED
  BY <1>1, <1>2, PTL DEF Spec

\* A helper runs only for an item that is being transferred and not held, whatever
\* was paused, removed, failed, decided or killed in between.
THEOREM WorkersAreOwned == Spec => []NoOrphanWorker
<1>1. Inv => NoOrphanWorker
  BY DEF Inv, Agree
<1> QED
  BY <1>1, InvHolds, PTL

\* The jobs and the queue agree: an item that is shown as transferring is queued
\* and has its one job, and no job works for a finished item.
THEOREM QueueAndJobsAgree == Spec => []JobsMatchQueue
<1>1. Inv => JobsMatchQueue
  BY DEF Inv, Agree
<1> QED
  BY <1>1, InvHolds, PTL

-----------------------------------------------------------------------------
(* The channel budget.                                                     *)

\* A helper that lives has been launched.
Launch == \A s \in Slot : proc[s].alive => proc[s].stage \notin {"none", "nolaunch"}

\* Every step keeps that: only a new worker begins to live.
LEMMA NextLaunch == TypeOK /\ Launch /\ [Next]_vars => Launch'
<1> SUFFICES ASSUME TypeOK, Launch, [Next]_vars PROVE Launch'
  OBVIOUS
<1>0. \A s \in Slot : proc[s] \in WorkerRecord
  BY DEF TypeOK
<1>1. CASE proc' = proc
  BY <1>1 DEF Launch
<1>2. ASSUME NEW s \in Slot, Helper(s) PROVE Launch'
  <2>1. \A t \in Slot : t # s => proc'[t] = proc[t]
    BY <1>2 DEF Helper, HelperConnect, HelperOpen, HelperWrite, HelperReport, HelperDone,
                HelperFail, LinkLost, TypeOK
  <2>2. proc'[s].alive => proc'[s].stage \notin {"none", "nolaunch"}
    <3>1. CASE HelperConnect(s) \/ HelperOpen(s) \/ HelperWrite(s) \/ HelperReport(s)
      <4>1. proc'[s].stage \in {"authed", "open"}
        BY <1>0, <3>1 DEF HelperConnect, HelperOpen, HelperWrite, HelperReport, WorkerRecord,
                          TypeOK
      <4> QED
        BY <4>1
    <3>2. CASE HelperDone(s) \/ HelperFail(s)
      <4>1. PICK r \in {"ok", "reject", "critical", "local"} :
              proc' = [proc EXCEPT ![s] = Ended(s, r, TRUE)]
        BY <3>2 DEF HelperDone, HelperFail
      <4>2. proc'[s] = Ended(s, r, TRUE)
        BY <4>1 DEF TypeOK
      <4>3. proc'[s].stage = r
        BY <1>0, <4>2 DEF Ended, WorkerRecord
      <4> QED
        BY <4>3
    <3>3. CASE LinkLost(s)
      <4> DEFINE final == proc[s].stage \in {"ok", "critical", "local"}
                 v == Ended(s, IF final THEN proc[s].stage ELSE "sent", FALSE)
                 w == [Worker(IF proc[s].stage = "local" THEN "local" ELSE "sent", FALSE,
                              proc[s].conn, proc[s].init) EXCEPT !.lost = TRUE]
      <4>1. /\ [proc EXCEPT ![s] = Ended(s, IF final THEN @.stage ELSE "sent", FALSE)]
                 = [proc EXCEPT ![s] = v]
            /\ [proc EXCEPT ![s] =
                  [Worker(IF @.stage = "local" THEN "local" ELSE "sent", FALSE, @.conn, @.init)
                     EXCEPT !.lost = TRUE]] = [proc EXCEPT ![s] = w]
        BY DEF TypeOK
      <4>2. v.alive = FALSE /\ w.alive = FALSE
        BY <1>0 DEF Ended, Worker, WorkerRecord
      <4> HIDE DEF v, w
      <4>3. proc' = [proc EXCEPT ![s] = v] \/ proc' = [proc EXCEPT ![s] = w]
        BY <3>3, <4>1 DEF LinkLost
      <4>4. proc'[s] = v \/ proc'[s] = w
        BY <4>3 DEF TypeOK
      <4> QED
        BY <4>2, <4>4
    <3> QED
      BY <1>2, <3>1, <3>2, <3>3 DEF Helper
  <2> QED
    BY <2>1, <2>2 DEF Launch
<1>3. ASSUME NEW s \in Slot, FoldRunning(s) PROVE Launch'
  BY <1>0, <1>3 DEF FoldRunning, Launch, WorkerRecord, TypeOK
<1>4. ASSUME \A s \in Slot : proc'[s] = proc[s] \/ proc'[s] = NoProc PROVE Launch'
  BY <1>4 DEF Launch, NoProc, Worker
<1>5. ASSUME NEW i, ActivateChunk(i) PROVE Launch'
  <2>1. PICK s \in Slot, init \in BOOLEAN :
          \/ proc' = [proc EXCEPT ![s] = Worker(IF Usable # <<>> THEN "sent" ELSE "handshake",
                                                TRUE, ~(Usable # <<>>), init)]
          \/ proc' = [proc EXCEPT ![s] = Worker("nolaunch", FALSE, FALSE, init)]
    <3> DEFINE first(s) == Parallel(i) /\ LeaderShouldInitialize(s)
    <3>1. \A s \in Slot : first(s) \in BOOLEAN
      BY DEF LeaderShouldInitialize
    <3> QED
      BY <1>5, <3>1 DEF ActivateChunk, Launchable, SlotsOf
  <2>2. \A t \in Slot : t # s => proc'[t] = proc[t]
    BY <2>1 DEF TypeOK
  <2>3. proc'[s].stage \in {"sent", "handshake"} \/ proc'[s].alive = FALSE
    <3>1. CASE proc' = [proc EXCEPT ![s] = Worker("nolaunch", FALSE, FALSE, init)]
      BY <3>1 DEF Worker, TypeOK
    <3>2. CASE proc' = [proc EXCEPT ![s] =
                          Worker(IF Usable # <<>> THEN "sent" ELSE "handshake",
                                 TRUE, ~(Usable # <<>>), init)]
      <4>1. proc'[s].stage = IF Usable # <<>> THEN "sent" ELSE "handshake"
        BY <3>2 DEF Worker, TypeOK
      <4> QED
        BY <4>1
    <3> QED
      BY <2>1, <3>1, <3>2
  <2> QED
    BY <2>2, <2>3 DEF Launch
<1>6. CASE Fold
  <2>1. \A k : EraseJob(k) => \A s \in Slot : proc'[s] = proc[s] \/ proc'[s] = NoProc
    BY DEF EraseJob
  <2>2. CASE FoldOrphan \/ FoldJobEnd \/ FoldEnd
    BY <1>1, <1>4, <2>1, <2>2 DEF FoldOrphan, FoldJobEnd, FoldEnd
  <2>3. CASE \E s \in Slot : FoldExhausted(s) \/ FoldSucceeded(s) \/ FoldFailed(s)
    BY <1>1, <1>4, <2>3 DEF FoldExhausted, FoldSucceeded, FoldFailed, TypeOK
  <2> QED
    BY <1>3, <1>6, <2>2, <2>3 DEF Fold
<1>7. CASE Dispatch
  BY <1>1, <1>5, <1>7 DEF Dispatch, DispatchStrict, GrantFirst, GrantSkip, GrantEnd,
     ShareChannel, DispatchEnd, ReapIdle, StartItem
<1>8. CASE User
  <2>1. ASSUME NEW i \in Item, StopJob(i)
        PROVE  \A s \in Slot : proc'[s] = proc[s] \/ proc'[s] = NoProc
    BY <2>1 DEF StopJob, EraseJob
  <2> QED
    BY <1>1, <1>4, <1>8, <2>1 DEF User, Enqueue, Pause, Start, RetryFailedParts, RemoveItem,
       PinTop, ApplySettings
<1>9. CASE Crash
  BY <1>9 DEF Crash, Launch, NoProc, Worker
<1>10. CASE \/ PumpBegin \/ (\E s \in Slot : DelayElapses(s)) \/ UNCHANGED vars
            \/ \E k \in DOMAIN idle : PooledLinkLost(k)
  BY <1>1, <1>10 DEF PumpBegin, DelayElapses, vars, PooledLinkLost
<1> QED
  BY <1>2, <1>6, <1>7, <1>8, <1>9, <1>10 DEF Next, Pump

\* The chunks can be counted.
LEMMA SlotFinite == IsFiniteSet(Slot)
<1>1. IsFiniteSet(Item) /\ IsFiniteSet(1..MaxParts)
  BY SchedulerAssumption, FS_Interval
<1>2. IsFiniteSet(Item \X (1..MaxParts))
  BY <1>1, FS_Product
<1> QED
  BY <1>2, FS_Subset DEF Slot

\* So can the channels in use and pooled.
LEMMA ChannelCount ==
  TypeOK => /\ IsFiniteSet(Busy) /\ Cardinality(Busy) \in Nat /\ Len(idle) \in Nat
            /\ Channels \in Nat /\ limits.conn \in Nat
<1> SUFFICES ASSUME TypeOK
             PROVE  /\ IsFiniteSet(Busy) /\ Cardinality(Busy) \in Nat /\ Len(idle) \in Nat
                    /\ Channels \in Nat /\ limits.conn \in Nat
  OBVIOUS
<1>1. IsFiniteSet(Busy)
  BY SlotFinite, FS_Subset DEF Busy
<1>2. Cardinality(Busy) \in Nat
  BY <1>1, FS_CardinalityType
<1>3. Len(idle) \in Nat
  BY LenProperties DEF TypeOK
<1>4. limits.conn \in Nat
  BY ConstantTypes DEF TypeOK
<1> QED
  BY <1>1, <1>2, <1>3, <1>4 DEF Channels

\* Also after a step.
LEMMA ChannelCountNext ==
  ASSUME TypeOK'
  PROVE  Cardinality(Busy') \in Nat /\ Len(idle') \in Nat /\ Channels' \in Nat
<1>1. IsFiniteSet(Busy')
  BY SlotFinite, FS_Subset DEF Busy
<1>2. Cardinality(Busy') \in Nat
  BY <1>1, FS_CardinalityType
<1>3. Len(idle') \in Nat
  BY LenProperties DEF TypeOK
<1> QED
  BY <1>2, <1>3 DEF Channels

\* The channels grow only up to the limit.
Budget == Channels' > Channels => Channels' <= limits.conn

\* A step that starts no worker and pools none opens no channel.
LEMMA FewerChannels ==
  ASSUME TypeOK, TypeOK', Len(idle') <= Len(idle),
         \A s \in Slot : proc'[s] = proc[s] \/ proc'[s] = NoProc \/ s \in Busy
  PROVE  Budget
<1>1. Busy' \subseteq Busy
  BY DEF Busy, NoProc, Worker
<1>2. Cardinality(Busy') <= Cardinality(Busy)
  BY <1>1, ChannelCount, FS_Subset
<1>3. Channels' <= Channels
  BY <1>2, ChannelCount, ChannelCountNext DEF Channels
<1> QED
  BY <1>3, ChannelCount, ChannelCountNext DEF Budget

\* The pool without its dead end is no longer than the pool.
LEMMA UsableLength == TypeOK => Usable \in Seq(BOOLEAN) /\ Len(Usable) <= Len(idle)
<1> SUFFICES ASSUME TypeOK PROVE Usable \in Seq(BOOLEAN) /\ Len(Usable) <= Len(idle)
  OBVIOUS
<1> DEFINE live == {k \in DOMAIN idle : \E m \in k..Len(idle) : idle[m]}
           n == Cardinality(live)
<1>1. idle \in Seq(BOOLEAN) /\ Len(idle) \in Nat /\ DOMAIN idle = 1..Len(idle)
  BY LenProperties DEF TypeOK
<1>2. n \in Nat /\ n <= Len(idle)
  <2>1. live \subseteq 1..Len(idle)
    BY <1>1
  <2> HIDE DEF live
  <2>2. IsFiniteSet(1..Len(idle)) /\ Cardinality(1..Len(idle)) = Len(idle)
    BY <1>1, FS_Interval
  <2> QED
    BY <2>1, <2>2, FS_Subset, FS_CardinalityType
<1>3. Usable = SubSeq(idle, 1, n)
  BY DEF Usable
<1> HIDE DEF n
<1>4. Len(SubSeq(idle, 1, n)) = n
  BY <1>1, <1>2, SubSeqProperties
<1> QED
  BY <1>1, <1>2, <1>3, <1>4, UsableType

\* Trimming makes the pool no longer.
LEMMA TrimmedLength ==
  ASSUME NEW pool \in Seq(BOOLEAN), NEW busy \in Nat, limits \in Limits
  PROVE  Len(Trimmed(pool, busy)) <= Len(pool)
<1>1. limits.conn \in Nat /\ Len(pool) \in Nat
  BY ConstantTypes, LenProperties
<1>2. CASE pool = <<>> \/ busy + Len(pool) <= limits.conn
  BY <1>1, <1>2 DEF Trimmed
<1>3. CASE ~(pool = <<>> \/ busy + Len(pool) <= limits.conn)
  <2> DEFINE n == IF busy >= limits.conn THEN 0 ELSE limits.conn - busy
  <2>1. n \in Nat /\ n <= Len(pool)
    BY <1>1, <1>3
  <2>2. Trimmed(pool, busy) = SubSeq(pool, 1, n)
    BY <1>3 DEF Trimmed
  <2> HIDE DEF n
  <2>3. Len(SubSeq(pool, 1, n)) = n
    BY <1>1, <2>1, SubSeqProperties
  <2> QED
    BY <2>1, <2>2, <2>3
<1> QED
  BY <1>2, <1>3

\* A chunk that gets a worker takes a pooled one, or a channel the limit has room for.
LEMMA ActivateChunkBudget ==
  ASSUME TypeOK, TypeOK', NEW i \in Item, ActivateChunk(i) PROVE Budget
<1>1. PICK s \in Slot :
        /\ \A t \in Slot : t # s => proc'[t] = proc[t]
        /\ idle' = IF Usable # <<>> THEN SubSeq(Usable, 1, Len(Usable) - 1) ELSE <<>>
  <2> DEFINE reused == Usable # <<>>
  <2>1. PICK s \in Slot :
          /\ \E w : proc' = [proc EXCEPT ![s] = w]
          /\ idle' = IF reused THEN SubSeq(Usable, 1, Len(Usable) - 1) ELSE <<>>
    <3> HIDE DEF reused
    <3> QED
      BY DEF ActivateChunk, Launchable, SlotsOf, reused
  <2> QED
    BY <2>1 DEF TypeOK
<1>2. Cardinality(Busy') <= Cardinality(Busy) + 1
  <2>1. Busy' \subseteq Busy \cup {s}
    BY <1>1 DEF Busy
  <2>2. IsFiniteSet(Busy \cup {s}) /\ Cardinality(Busy \cup {s}) \in Nat
        /\ Cardinality(Busy \cup {s}) <= Cardinality(Busy) + 1
    <3>1. IsFiniteSet(Busy) /\ Cardinality(Busy) \in Nat
      BY ChannelCount
    <3>2. /\ IsFiniteSet(Busy \cup {s})
          /\ Cardinality(Busy \cup {s}) = IF s \in Busy THEN Cardinality(Busy)
                                          ELSE Cardinality(Busy) + 1
      BY <3>1, FS_AddElement
    <3> QED
      BY <3>1, <3>2
  <2>3. Cardinality(Busy') <= Cardinality(Busy \cup {s})
    BY <2>1, <2>2, FS_Subset
  <2> QED
    BY <2>1, <2>2, <2>3, ChannelCount, ChannelCountNext, FS_CardinalityType
<1>3. CASE Usable # <<>>
  <2>1. Len(Usable) \in Nat \ {0} /\ Usable \in Seq(BOOLEAN)
    BY <1>3, UsableLength, LenProperties, EmptySeq
  <2> DEFINE q == Usable
             n == Len(q) - 1
  <2>2. q \in Seq(BOOLEAN) /\ n \in Nat /\ n <= Len(q) /\ n + 1 <= Len(idle)
    BY <2>1, UsableLength, ChannelCount
  <2>3. idle' = SubSeq(q, 1, n)
    BY <1>1, <1>3
  <2> HIDE DEF q, n
  <2>4. Len(idle') = n
    BY <2>2, <2>3, SubSeqProperties, LenProperties
  <2> QED
    BY <1>2, <2>2, <2>4, ChannelCount, ChannelCountNext DEF Budget, Channels
<1>4. CASE Usable = <<>>
  <2>1. Len(idle') = 0
    BY <1>1, <1>4
  <2>2. Cardinality(Busy) < limits.conn
    BY DEF ActivateChunk, Available, HasChannel
  <2> QED
    BY <1>2, <2>1, <2>2, ChannelCount, ChannelCountNext DEF Budget, Channels
<1> QED
  BY <1>3, <1>4

\* A worker that is done is pooled only if the limit has room for it.
LEMMA FoldSucceededBudget ==
  ASSUME TypeOK, TypeOK', NEW s \in Slot, FoldSucceeded(s) PROVE Budget
<1>1. Busy' = Busy \ {s}
  BY DEF FoldSucceeded, Busy, NoProc, Worker, TypeOK
<1>2. CASE PoolRoom(s)
  <2>1. Len(idle') = Len(idle) + 1
    BY <1>2 DEF FoldSucceeded, TypeOK
  <2>2. Cardinality(Busy') + Len(idle) < limits.conn
    BY <1>1, <1>2 DEF PoolRoom
  <2> QED
    BY <2>1, <2>2, ChannelCount, ChannelCountNext DEF Budget, Channels
<1>3. CASE ~PoolRoom(s)
  <2>1. idle' = idle
    BY <1>3 DEF FoldSucceeded
  <2>2. \A t \in Slot : proc'[t] = proc[t] \/ proc'[t] = NoProc \/ t \in Busy
    BY DEF FoldSucceeded, TypeOK
  <2> QED
    BY <2>1, <2>2, ChannelCount, FewerChannels
<1> QED
  BY <1>2, <1>3

\* Reaping and trimming the pool.
LEMMA ReapIdleBudget == ASSUME TypeOK, TypeOK', ReapIdle PROVE Budget
<1>1. PICK kept \in SUBSET DOMAIN idle :
        idle' = IF Pooling
                THEN Trimmed([k \in 1..Cardinality(kept) |-> TRUE], Cardinality(Busy))
                ELSE <<>>
  <2>1. ASSUME NEW expired \in SUBSET DOMAIN idle
        PROVE  {k \in DOMAIN idle : idle[k]} \ expired \in SUBSET DOMAIN idle
    OBVIOUS
  <2> QED
    BY <2>1 DEF ReapIdle
<1> DEFINE n == Cardinality(kept)
           pool == [k \in 1..n |-> TRUE]
<1>2. n \in Nat /\ n <= Len(idle)
  <2>1. DOMAIN idle = 1..Len(idle) /\ Len(idle) \in Nat
    BY LenProperties DEF TypeOK
  <2>2. IsFiniteSet(1..Len(idle)) /\ Cardinality(1..Len(idle)) = Len(idle)
    BY <2>1, FS_Interval
  <2> QED
    BY <2>1, <2>2, FS_Subset, FS_CardinalityType
<1>3. pool \in Seq(BOOLEAN)
  BY RefilledType DEF TypeOK
<1>4. idle' = IF Pooling THEN Trimmed(pool, Cardinality(Busy)) ELSE <<>>
  BY <1>1, Zenon
<1> HIDE DEF n
<1>5. Len(pool) = n
  BY <1>2, <1>3
<1> HIDE DEF pool
<1>6. Len(Trimmed(pool, Cardinality(Busy))) <= n
  BY <1>3, <1>5, TrimmedLength, ChannelCount DEF TypeOK
<1>7. Len(idle') <= Len(idle)
  <2>1. CASE Pooling
    <3>1. idle' = Trimmed(pool, Cardinality(Busy))
      BY <1>4, <2>1
    <3>2. Len(idle') <= n
      BY <1>6, <3>1
    <3> QED
      BY <1>2, <3>2, ChannelCount
  <2>2. CASE ~Pooling
    BY <1>4, <2>2, ChannelCount
  <2> QED
    BY <2>1, <2>2
<1>8. proc' = proc
  BY DEF ReapIdle
<1> QED
  BY <1>7, <1>8, FewerChannels

\* Every step stays within the budget.
LEMMA NextBudget == TypeOK /\ TypeOK' /\ Launch /\ [Next]_vars => Budget
<1> SUFFICES ASSUME TypeOK, TypeOK', Launch, [Next]_vars PROVE Budget
  OBVIOUS
<1>0. Len(idle) \in Nat
  BY ChannelCount
<1>1. CASE UNCHANGED <<proc, idle>>
  BY <1>0, <1>1, FewerChannels
<1>2. ASSUME NEW s \in Slot, Helper(s) PROVE Budget
  <2>1. proc[s].alive /\ HelperFrame
    BY <1>2 DEF Helper, HelperConnect, HelperOpen, HelperWrite, HelperReport, HelperDone,
                HelperFail, LinkLost
  <2>2. idle' = idle
    BY <2>1 DEF HelperFrame
  <2>3. \A t \in Slot : t # s => proc'[t] = proc[t]
    <3>1. proc \in [Slot -> WorkerRecord]
      BY DEF TypeOK
    <3>2. CASE LinkLost(s)
      BY <3>1, <3>2 DEF LinkLost
    <3> QED
      BY <1>2, <3>1, <3>2 DEF Helper, HelperConnect, HelperOpen, HelperWrite, HelperReport,
                              HelperDone, HelperFail
  <2>4. s \in Busy
    BY <2>1 DEF Launch, Busy
  <2> QED
    BY <1>0, <2>4, <2>2, <2>3, FewerChannels
<1>3. CASE \E k \in DOMAIN idle : PooledLinkLost(k)
  <2>1. proc' = proc /\ Len(idle') = Len(idle)
    BY <1>3 DEF PooledLinkLost, TypeOK
  <2> QED
    BY <1>0, <2>1, FewerChannels
<1>4. ASSUME idle' = idle, \A s \in Slot : proc'[s] = proc[s] \/ proc'[s] = NoProc PROVE Budget
  BY <1>0, <1>4, FewerChannels
<1>5. CASE Fold
  <2>1. ASSUME NEW s \in Slot, FoldRunning(s) PROVE Budget
    <3>1. \A t \in Slot : proc'[t] = proc[t] \/ t \in Busy
      BY <2>1 DEF FoldRunning, Busy, TypeOK
    <3>2. idle' = idle
      BY <2>1 DEF FoldRunning
    <3> QED
      BY <1>0, <3>1, <3>2, FewerChannels
  <2>2. CASE \E s \in Slot : FoldExhausted(s) \/ FoldFailed(s)
    BY <1>4, <2>2 DEF FoldExhausted, FoldFailed, TypeOK
  <2>3. CASE FoldEnd
    <3>1. proc' = proc /\ idle' = Trimmed(idle, Cardinality(Busy))
      BY <2>3 DEF FoldEnd
    <3>2. Len(idle') <= Len(idle)
      BY <3>1, TrimmedLength, ChannelCount DEF TypeOK
    <3> QED
      BY <3>1, <3>2, FewerChannels
  <2>4. CASE FoldOrphan \/ FoldJobEnd
    BY <1>4, <2>4 DEF FoldOrphan, FoldJobEnd, EraseJob
  <2> QED
    BY <1>5, <2>1, <2>2, <2>3, <2>4, FoldSucceededBudget DEF Fold
<1>6. CASE Dispatch
  <2>1. CASE GrantEnd \/ DispatchEnd
    <3>1. proc' = proc /\ (idle' = Usable \/ idle' = idle)
      BY <2>1 DEF GrantEnd, DispatchEnd
    <3> QED
      BY <1>0, <3>1, UsableLength, FewerChannels
  <2>2. ASSUME NEW i, StartItem(i) PROVE Budget
    BY <1>1, <2>2 DEF StartItem
  <2>3. CASE DispatchStrict
    <3>0. DOMAIN order = 1..Len(order)
      BY LenProperties DEF TypeOK
    <3>1. PICK k \in 1..Len(order) : ActivateChunk(order[k]) \/ StartItem(order[k])
      BY <2>3, <3>0 DEF DispatchStrict
    <3> QED
      BY <2>2, <3>1, OrderItemType, ActivateChunkBudget
  <2>4. CASE GrantFirst
    <3>1. at.job \in 1..Len(order)
      BY <2>4, LenProperties DEF GrantFirst, TypeOK
    <3>2. ActivateChunk(order[at.job]) \/ StartItem(order[at.job])
      BY <2>4 DEF GrantFirst
    <3> QED
      BY <2>2, <3>1, <3>2, OrderItemType, ActivateChunkBudget
  <2>5. CASE ShareChannel
    <3>1. Len(jobs) \in Nat
      BY LenProperties DEF TypeOK
    <3>2. PICK n \in 0..(Len(jobs) - 1) : ActivateChunk(jobs[Turn(n)])
      BY <2>5 DEF ShareChannel
    <3>3. n \in Nat /\ Len(jobs) > 0
      BY <3>1
    <3>4. jobs[Turn(n)] \in Item
      BY <3>3, TurnType
    <3> QED
      BY <3>2, <3>4, ActivateChunkBudget
  <2>6. CASE GrantSkip
    BY <1>1, <2>6 DEF GrantSkip
  <2> QED
    BY <1>6, <2>1, <2>3, <2>4, <2>5, <2>6, ReapIdleBudget DEF Dispatch
<1>7. CASE User
  <2>1. ASSUME NEW i \in Item, StopJob(i)
        PROVE  \A s \in Slot : proc'[s] = proc[s] \/ proc'[s] = NoProc
    BY <2>1 DEF StopJob, EraseJob
  <2>2. ASSUME NEW i \in Item, Enqueue(i) \/ Start(i) \/ RetryFailedParts(i) \/ PinTop(i)
        PROVE  Budget
    BY <1>1, <2>2 DEF Enqueue, Start, RetryFailedParts, PinTop
  <2>3. ASSUME NEW i \in Item, Pause(i) \/ RemoveItem(i) PROVE Budget
    BY <1>4, <2>1, <2>3 DEF Pause, RemoveItem
  <2>4. ASSUME NEW l \in Limits, ApplySettings(l) PROVE Budget
    <3>1. proc' = proc /\ idle' = IF Len(idle) > l.conn THEN SubSeq(idle, 1, l.conn) ELSE idle
      BY <2>4 DEF ApplySettings
    <3>2. l.conn \in Nat /\ idle \in Seq(BOOLEAN)
      BY ConstantTypes DEF TypeOK
    <3>3. Len(idle) > l.conn => Len(SubSeq(idle, 1, l.conn)) = l.conn
      BY <1>0, <3>2, SubSeqProperties
    <3>4. Len(idle') <= Len(idle)
      BY <1>0, <3>1, <3>2, <3>3
    <3> QED
      BY <3>1, <3>4, FewerChannels
  <2> QED
    BY <1>7, <2>2, <2>3, <2>4 DEF User
<1>8. CASE Crash
  <2>1. Len(idle') = 0 /\ \A s \in Slot : proc'[s] = NoProc
    BY <1>8 DEF Crash
  <2> QED
    BY <1>0, <2>1, FewerChannels
<1>9. CASE PumpBegin \/ (\E s \in Slot : DelayElapses(s)) \/ UNCHANGED vars
  BY <1>1, <1>9 DEF PumpBegin, DelayElapses, vars
<1> QED
  BY <1>2, <1>3, <1>5, <1>6, <1>7, <1>8, <1>9 DEF Next, Pump

\* The channels in use and pooled never grow past the user's limit, for any number
\* of files and chunks, any limits the user may choose and change to at any time.
THEOREM ChannelsAreBounded == Spec => ChannelBudget
<1>1. Init => Launch
  BY DEF Init, Launch, NoProc, Worker
<1>2. TypeOK /\ TypeOK' /\ Launch /\ [Next]_vars
        => [Channels' > Channels => Channels' <= limits.conn]_<<proc, idle>>
  BY NextBudget DEF Budget
<1> QED
  BY <1>1, <1>2, TypeCorrect, NextLaunch, PTL DEF Spec, ChannelBudget

-----------------------------------------------------------------------------
(* The ration of reconnects.  The number of attempts is compared with the    *)
(* user's limit when the pump folds, and spent when it dispatches; in        *)
(* between nothing compares it again.                                        *)

\* The pump that is running has looked at the slot, and may give it a worker.
Looked(s) ==
  /\ s[2] <= split[s[1]]
  /\ \/ pc \in {"dispatch", "grant", "share"} /\ HasJob(s[1])
     \/ /\ pc = "fold"
        /\ \E k \in DOMAIN jobs :
             jobs[k] = s[1] /\ (k < at.job \/ (k = at.job /\ s[2] < at.part))

\* The slot has a reconnect left, or waits beyond this pump.
HasTries(sl) ==
  sl.phase = "retry_wait" =>
    \/ sl.armed /\ sl.due # "this_pump"
    \/ limits.tries = 0 \/ sl.attempts < limits.tries

\* A slot that the pump has looked at has one.
Rationed == \A s \in Slot : Looked(s) => HasTries(slot[s])

\* No slot spends a reconnect that it does not have.
Ration ==
  \A s \in Slot : slot'[s].attempts > slot[s].attempts =>
    limits.tries = 0 \/ slot'[s].attempts <= limits.tries

\* Steps that keep the position of the pump, the jobs and the settings.
LEMMA RationFrame ==
  ASSUME Rationed, UNCHANGED <<jobs, split, limits, pc, at>>,
         \A s \in Slot : HasTries(slot[s]) => HasTries(slot'[s])
  PROVE  Rationed'
BY DEF Rationed, Looked, HasTries, HasJob

\* Steps that leave the pump where no worker is given.
LEMMA RationOutside == ASSUME pc' \notin {"fold", "dispatch", "grant", "share"} PROVE Rationed'
BY DEF Rationed, Looked

\* A fresh slot waits for nothing, and has used no attempt.
LEMMA FreshHasTries == \A n : HasTries(FreshSlot(n)) /\ FreshSlot(n).attempts = 0
BY DEF HasTries, FreshSlot

\* The pump begins with the first job and has looked at no slot.
LEMMA PumpBeginRation == ASSUME TypeOK, PumpBegin PROVE Rationed'
<1>1. pc' = "fold" /\ at'.job = 1 /\ at'.part = 1 /\ jobs' = jobs
  BY DEF PumpBegin
<1>2. DOMAIN jobs \subseteq Nat \ {0}
  BY LenProperties DEF TypeOK
<1>3. \A s \in Slot : s[2] \in Nat \ {0}
  BY SlotType, ConstantTypes
<1> QED
  BY <1>1, <1>2, <1>3 DEF Rationed, Looked

\* The fold of one slot passes over the slots before it, which wait for nothing or
\* have tries left, and leaves a slot that has.
LEMMA FoldingRation ==
  ASSUME TypeOK, Rationed, NEW s \in Slot, Folding(s), UNCHANGED <<jobs, split, limits, pc>>,
         \A t \in Slot : t # s => slot'[t] = slot[t], HasTries(slot'[s])
  PROVE  Rationed'
<1>1. /\ pc = "fold" /\ at.job <= Len(jobs) /\ \A t \in ToFold(JobItem) : s[2] <= t[2]
      /\ at'.job = at.job /\ at'.part = s[2] + 1 /\ s[1] = JobItem
  BY DEF Folding, ToFold, SlotsOf, TypeOK
<1>2. SUFFICES ASSUME NEW t \in Slot, t # s, Looked(t)' PROVE HasTries(slot[t])
  BY DEF Rationed, HasTries
<1>3. PICK k \in DOMAIN jobs :
        jobs[k] = t[1] /\ (k < at.job \/ (k = at.job /\ t[2] < s[2] + 1))
  BY <1>1, <1>2 DEF Looked
<1>4. t[2] <= split[t[1]]
  BY <1>2 DEF Looked
<1>5. CASE k < at.job \/ (k = at.job /\ t[2] < at.part)
  BY <1>1, <1>3, <1>4, <1>5 DEF Rationed, Looked
<1>6. CASE k = at.job /\ ~(t[2] < at.part)
  <2>1. t[1] = s[1] /\ t[2] \in Int /\ s[2] \in Int /\ at.part \in Int
    BY <1>1, <1>3, <1>6, SlotType DEF JobItem, TypeOK
  <2>2. t[2] # s[2]
    BY <1>2, <2>1 DEF Slot
  <2>3. t[2] >= at.part /\ t[2] < s[2]
    <3>1. at.job \in Nat /\ ~(k < at.job)
      BY <1>6 DEF TypeOK
    <3>2. t[2] < s[2] + 1
      BY <1>3, <3>1
    <3> QED
      BY <1>6, <2>1, <2>2, <3>2
  <2>4. t \notin ToFold(JobItem)
    BY <1>1, <2>1, <2>3
  <2>5. t \in SlotsOf(JobItem)
    BY <1>1, <1>4, <2>1 DEF SlotsOf
  <2>6. ~OutOfTries(t)
    BY <2>3, <2>4, <2>5 DEF ToFold
  <2> QED
    BY <2>6 DEF OutOfTries, ShouldAutoRetry, HasTries
<1> QED
  BY <1>3, <1>5, <1>6

\* A failure is armed beyond this pump, or not at all, and counts no attempt.
LEMMA ArmFailureHasTries ==
  ASSUME NEW sl \in SlotRecord, NEW tries \in Nat
  PROVE  /\ HasTries(ArmFailure(sl, tries))
         /\ ArmFailure(sl, tries).attempts <= sl.attempts
<1> DEFINE free == [sl EXCEPT !.counted = FALSE, !.reused = FALSE]
           n == IF sl.attempts > 0 THEN sl.attempts - 1 ELSE sl.attempts
           a == [free EXCEPT !.attempts = n, !.phase = "retry_wait", !.armed = TRUE,
                             !.due = "next_pump"]
           b == [free EXCEPT !.phase = "idle", !.origin = "none"]
           c == [free EXCEPT !.phase = "retry_wait", !.armed = TRUE, !.due = "after_delay",
                             !.ripe = FALSE]
           d == [free EXCEPT !.phase = "failed"]
<1>0. free \in SlotRecord /\ free.attempts = sl.attempts
  BY DEF SlotRecord
<1>1. ArmFailure(sl, tries) \in {a, b, c, d}
  <2>1. a = [free EXCEPT !.attempts = IF sl.attempts > 0 THEN @ - 1 ELSE @,
                         !.phase = "retry_wait", !.armed = TRUE, !.due = "next_pump"]
    BY <1>0
  <2> HIDE DEF a, b, c, d
  <2> DEFINE old == StaleReuse(sl)
             again == ShouldAutoRetry(sl.origin, sl.attempts, tries)
  <2>2. CASE old /\ sl.counted
    BY <2>1, <2>2 DEF ArmFailure
  <2>3. CASE old /\ ~sl.counted
    BY <2>3 DEF ArmFailure, b
  <2>4. CASE ~old /\ again
    BY <2>4 DEF ArmFailure, c
  <2>5. CASE ~old /\ ~again
    BY <2>5 DEF ArmFailure, d
  <2> QED
    BY <2>2, <2>3, <2>4, <2>5
<1>2. n \in Nat /\ n <= sl.attempts /\ sl.attempts \in Nat
  BY DEF SlotRecord
<1> HIDE DEF free, n
<1>3. a.armed /\ a.due # "this_pump" /\ a.attempts = n
  BY <1>0 DEF SlotRecord
<1>4. b.phase # "retry_wait" /\ b.attempts = sl.attempts
  BY <1>0 DEF SlotRecord
<1>5. c.armed /\ c.due # "this_pump" /\ c.attempts = sl.attempts
  BY <1>0 DEF SlotRecord
<1>6. d.phase # "retry_wait" /\ d.attempts = sl.attempts
  BY <1>0 DEF SlotRecord
<1> HIDE DEF a, b, c, d
<1> QED
  BY <1>1, <1>2, <1>3, <1>4, <1>5, <1>6 DEF HasTries

\* The folds of one slot keep the ration.
LEMMA FoldSlotRation ==
  ASSUME TypeOK, Rationed, NEW s \in Slot,
         FoldExhausted(s) \/ FoldRunning(s) \/ FoldSucceeded(s) \/ FoldFailed(s)
  PROVE  Rationed' /\ Ration
<1>1. /\ Folding(s) /\ UNCHANGED <<jobs, split, limits, pc>>
      /\ slot \in [Slot -> SlotRecord] /\ slot[s] \in SlotRecord /\ proc[s] \in WorkerRecord
  BY DEF FoldExhausted, FoldRunning, FoldSucceeded, FoldFailed, TypeOK
<1>2. PICK v : slot' = [slot EXCEPT ![s] = v] /\ HasTries(v) /\ v.attempts <= slot[s].attempts
  <2>0. slot[s].attempts \in Nat
    BY <1>1 DEF SlotRecord
  <2>1. CASE FoldExhausted(s)
    <3> DEFINE v == [slot[s] EXCEPT !.phase = "failed"]
    <3>1. v.phase = "failed" /\ v.attempts = slot[s].attempts
      BY <1>1 DEF SlotRecord
    <3>2. slot' = [slot EXCEPT ![s] = v]
      BY <2>1 DEF FoldExhausted
    <3> HIDE DEF v
    <3>3. HasTries(v) /\ v.attempts <= slot[s].attempts
      BY <2>0, <3>1 DEF HasTries
    <3> QED
      BY <3>2, <3>3, Zenon
  <2>2. CASE FoldRunning(s)
    <3>1. Polled(s).phase = "running" /\ slot' = [slot EXCEPT ![s] = Polled(s)]
      BY <1>1, <2>2, PolledType DEF FoldRunning
    <3>2. Polled(s).attempts = slot[s].attempts
      BY <1>1 DEF Polled, SlotRecord
    <3>3. HasTries(Polled(s)) /\ Polled(s).attempts <= slot[s].attempts
      BY <2>0, <3>1, <3>2 DEF HasTries
    <3> QED
      BY <3>1, <3>3, Zenon
  <2>3. CASE FoldSucceeded(s)
    <3> DEFINE v == [FreshSlot(0) EXCEPT !.phase = "succeeded", !.done = Full(s),
                                         !.opened = TRUE]
    <3>1. v.phase = "succeeded" /\ v.attempts = 0
      BY DEF FreshSlot
    <3>2. slot' = [slot EXCEPT ![s] = v]
      BY <2>3 DEF FoldSucceeded
    <3> HIDE DEF v
    <3>3. HasTries(v) /\ v.attempts <= slot[s].attempts
      BY <2>0, <3>1 DEF HasTries
    <3> QED
      BY <3>2, <3>3, Zenon
  <2>4. CASE FoldFailed(s)
    <3> DEFINE seen == [Polled(s) EXCEPT !.origin = Outcome(proc[s])]
    <3>1. Polled(s) \in SlotRecord /\ Polled(s).attempts = slot[s].attempts
      BY <1>1, PolledType DEF Polled, SlotRecord
    <3>2. seen \in SlotRecord /\ seen.attempts = slot[s].attempts
      BY <2>4, <3>1 DEF FoldFailed, SlotRecord, Origins
    <3>3. slot' = [slot EXCEPT ![s] = ArmFailure(seen, limits.tries)]
      BY <2>4 DEF FoldFailed
    <3> HIDE DEF seen
    <3>4. limits.tries \in Nat
      BY ConstantTypes DEF TypeOK
    <3> QED
      BY <3>2, <3>3, <3>4, ArmFailureHasTries
  <2> QED
    BY <2>1, <2>2, <2>3, <2>4
<1>3. slot'[s] = v /\ \A t \in Slot : t # s => slot'[t] = slot[t]
  BY <1>1, <1>2
<1>4. HasTries(slot'[s])
  BY <1>2, <1>3
<1>5. Rationed'
  BY <1>1, <1>3, <1>4, FoldingRation
<1>6. \A t \in Slot : slot[t].attempts \in Nat
  BY <1>1 DEF SlotRecord
<1>7. /\ slot'[s].attempts <= slot[s].attempts
      /\ \A t \in Slot : t # s => slot'[t].attempts = slot[t].attempts
  BY <1>2, <1>3
<1>8. v.attempts \in Int
  <2>1. slot'[s] \in SlotRecord
    BY <1>1, FoldExhaustedTypes, FoldRunningTypes, FoldSucceededTypes, FoldFailedTypes
       DEF TypeOK
  <2> QED
    BY <1>3, <2>1 DEF SlotRecord
<1> QED
  BY <1>3, <1>5, <1>6, <1>7, <1>8 DEF Ration

\* A step that counts no attempt spends none.
LEMMA RationQuiet ==
  ASSUME TypeOK,
         \A s \in Slot : slot'[s].attempts = slot[s].attempts \/ slot'[s].attempts = 0
  PROVE  Ration
<1>1. \A s \in Slot : slot[s].attempts \in Nat
  BY DEF TypeOK, SlotRecord
<1> QED
  BY <1>1 DEF Ration

\* An erased job leaves its place, at which nothing has been looked at, to the next.
LEMMA EraseJobRation ==
  ASSUME TypeOK, Rationed, pc = "fold", at.job \in 1..Len(jobs), EraseJob(at.job),
         at' = [at EXCEPT !.part = 1], UNCHANGED <<pc, limits>>
  PROVE  Rationed' /\ Ration
<1>1. PICK i \in Item : i = jobs[at.job]
  BY ElementOfSeq DEF TypeOK
<1>2. /\ jobs \in Seq(Item) /\ Len(jobs) \in Nat
      /\ DOMAIN jobs = 1..Len(jobs) /\ split \in [Item -> 1..MaxParts]
      /\ at'.job = at.job /\ at'.part = 1
  BY LenProperties DEF TypeOK
<1>3. /\ jobs' = RemoveAt(jobs, at.job)
      /\ split' = [split EXCEPT ![i] = 1]
      /\ \A s \in Slot : slot'[s] = IF s[1] = i THEN FreshSlot(0) ELSE slot[s]
  BY <1>1 DEF EraseJob
<1>4. Ration
  BY <1>3, RationQuiet, FreshHasTries
<1>5. ASSUME NEW s \in Slot, Looked(s)', s[1] # i PROVE Looked(s)
  <2>1. PICK k \in DOMAIN jobs' : jobs'[k] = s[1] /\ (k < at.job \/ (k = at.job /\ s[2] < 1))
    BY <1>2, <1>5 DEF Looked
  <2>2. k < at.job
    BY <2>1, SlotType, ConstantTypes
  <2>3. k \in 1..(Len(jobs) - 1)
    <3>1. /\ RemoveAt(jobs, at.job) \in Seq(Item)
          /\ Len(RemoveAt(jobs, at.job)) = Len(jobs) - 1
      BY <1>2, RemoveAtElements
    <3>2. DOMAIN jobs' = 1..(Len(jobs) - 1)
      BY <1>3, <3>1, LenProperties
    <3> QED
      BY <2>1, <3>2
  <2>4. jobs[k] = s[1] /\ k \in DOMAIN jobs
    <3>1. RemoveAt(jobs, at.job)[k] = jobs[k]
      BY <1>2, <2>2, <2>3, RemoveAtElements
    <3>2. k \in 1..Len(jobs)
      BY <1>2, <2>3
    <3> QED
      BY <1>2, <1>3, <2>1, <3>1, <3>2
  <2>5. s[2] <= split[s[1]]
    BY <1>2, <1>3, <1>5, SlotType DEF Looked
  <2> QED
    BY <2>2, <2>4, <2>5 DEF Looked
<1>6. \A s \in Slot : Looked(s)' => HasTries(slot'[s])
  BY <1>3, <1>5, FreshHasTries DEF Rationed
<1>7. \A s \in Slot : HasTries(slot'[s]) => HasTries(slot[s])'
  BY DEF HasTries
<1> QED
  BY <1>4, <1>6, <1>7 DEF Rationed

\* Orphaned jobs are erased.
LEMMA FoldOrphanRation == ASSUME TypeOK, Rationed, FoldOrphan PROVE Rationed' /\ Ration
<1>1. at.job \in 1..Len(jobs)
  BY LenProperties DEF FoldOrphan, TypeOK
<1> QED
  BY <1>1, EraseJobRation DEF FoldOrphan

\* The last chunks of a job that go on were looked at, or have nothing to fold.
LEMMA FoldJobEndRation == ASSUME TypeOK, Rationed, FoldJobEnd PROVE Rationed' /\ Ration
<1>1. at.job \in 1..Len(jobs) /\ pc = "fold" /\ UNCHANGED <<pc, limits>>
  BY LenProperties DEF FoldJobEnd, TypeOK
<1>2. CASE EraseJob(at.job) /\ at' = [at EXCEPT !.part = 1]
  BY <1>1, <1>2, EraseJobRation
<1>3. CASE at' = [job |-> at.job + 1, part |-> 1] /\ UNCHANGED <<jobs, split, slot>>
  <2>1. at'.job = at.job + 1 /\ at'.part = 1 /\ ToFold(JobItem) = {}
    BY <1>3 DEF FoldJobEnd
  <2>2. ASSUME NEW s \in Slot, Looked(s)' PROVE HasTries(slot[s])
    <3>1. PICK k \in DOMAIN jobs :
            jobs[k] = s[1] /\ (k < at.job + 1 \/ (k = at.job + 1 /\ s[2] < 1))
      BY <1>1, <1>3, <2>1, <2>2 DEF Looked
    <3>2. s[2] <= split[s[1]] /\ ~(s[2] < 1) /\ k \in Nat /\ at.job \in Nat /\ s[2] \in Nat
      <4>1. DOMAIN jobs = 1..Len(jobs) /\ at.job \in Nat
        BY LenProperties DEF TypeOK
      <4>2. s[2] <= split[s[1]]
        BY <1>3, <2>2 DEF Looked
      <4> QED
        BY <3>1, <4>1, <4>2, SlotType, ConstantTypes
    <3>3. CASE k < at.job
      BY <1>1, <3>1, <3>2, <3>3 DEF Rationed, Looked
    <3>4. CASE k = at.job
      <4>1. s[1] = JobItem /\ s \in SlotsOf(JobItem)
        BY <3>1, <3>2, <3>4 DEF JobItem, SlotsOf
      <4>2. CASE s[2] < at.part
        BY <1>1, <3>1, <3>2, <3>4, <4>2 DEF Rationed, Looked
      <4>3. CASE s[2] >= at.part
        BY <2>1, <4>1, <4>3 DEF ToFold, OutOfTries, ShouldAutoRetry, HasTries
      <4>4. at.part \in Nat
        BY DEF TypeOK
      <4> QED
        BY <3>2, <4>2, <4>3, <4>4
    <3> QED
      BY <3>1, <3>2, <3>3, <3>4
  <2>3. Rationed'
    BY <1>1, <1>3, <2>2 DEF Rationed, HasTries
  <2>4. Ration
    BY <1>3, RationQuiet
  <2> QED
    BY <2>3, <2>4
<1>4. \/ EraseJob(at.job) /\ at' = [at EXCEPT !.part = 1]
      \/ at' = [job |-> at.job + 1, part |-> 1] /\ UNCHANGED <<jobs, split, slot>>
  BY DEF FoldJobEnd
<1> QED
  BY <1>2, <1>3, <1>4

\* At the end of the folds every slot of a job was looked at.
LEMMA FoldEndRation == ASSUME TypeOK, Rationed, FoldEnd PROVE Rationed' /\ Ration
<1>1. /\ pc = "fold" /\ at.job > Len(jobs) /\ at.job \in Nat /\ Len(jobs) \in Nat
      /\ DOMAIN jobs = 1..Len(jobs) /\ UNCHANGED <<jobs, split, slot, limits>>
      /\ pc' \in {"grant", "dispatch"}
  BY LenProperties DEF FoldEnd, jobVars, TypeOK
<1>2. ASSUME NEW s \in Slot, Looked(s)' PROVE Looked(s)
  <2>1. PICK k \in DOMAIN jobs : jobs[k] = s[1]
    BY <1>1, <1>2 DEF Looked, HasJob, Contains
  <2>2. k < at.job
    BY <1>1
  <2> QED
    BY <1>1, <1>2, <2>1, <2>2 DEF Looked
<1>3. Rationed'
  BY <1>1, <1>2 DEF Rationed, HasTries
<1> QED
  BY <1>1, <1>3, RationQuiet

\* A new job has fresh slots.
LEMMA StartItemRation ==
  ASSUME TypeOK, Rationed, pc \in {"dispatch", "grant"}, NEW i \in Item, StartItem(i)
  PROVE  Rationed' /\ Ration
<1>1. /\ jobs' = Append(jobs, i) /\ UNCHANGED <<pc, limits>>
      /\ jobs \in Seq(Item) /\ split \in [Item -> 1..MaxParts]
      /\ \A s \in Slot : s[1] # i => split'[s[1]] = split[s[1]]
  BY SlotType DEF StartItem, pumpVars, TypeOK
<1>2. PICK keep \in BOOLEAN :
        slot' = [s \in Slot |-> IF s[1] # i THEN slot[s]
                                ELSE FreshSlot(IF keep THEN claim[s] ELSE 0)]
  BY DEF StartItem
<1>3. \A s \in Slot : IF s[1] # i THEN slot'[s] = slot[s]
                      ELSE slot'[s] = FreshSlot(IF keep THEN claim[s] ELSE 0)
  BY <1>2
<1>4. ASSUME NEW x, x # i, Contains(jobs', x) PROVE Contains(jobs, x)
  <2>1. /\ Len(Append(jobs, i)) = Len(jobs) + 1 /\ Len(jobs) \in Nat
        /\ Append(jobs, i)[Len(jobs) + 1] = i
        /\ \A j \in 1..Len(jobs) : Append(jobs, i)[j] = jobs[j]
    BY <1>1
  <2>2. PICK j \in 1..(Len(jobs) + 1) : Append(jobs, i)[j] = x
    BY <1>1, <1>4, <2>1 DEF Contains
  <2> QED
    BY <1>4, <2>1, <2>2 DEF Contains
<1>5. \A s \in Slot : s[1] # i /\ Looked(s)' => Looked(s)
  BY <1>1, <1>4 DEF Looked, HasJob
<1>6. \A s \in Slot : Looked(s)' => HasTries(slot'[s])
  BY <1>3, <1>5, FreshHasTries DEF Rationed
<1>7. \A s \in Slot : HasTries(slot'[s]) => HasTries(slot[s])'
  BY <1>1 DEF HasTries
<1>8. Ration
  BY <1>3, FreshHasTries, RationQuiet
<1> QED
  BY <1>6, <1>7, <1>8 DEF Rationed

\* A slot that may be dispatched has a try left, and spends it.
LEMMA ActivateChunkRation ==
  ASSUME TypeOK, Rationed, pc \in {"dispatch", "grant", "share"}, NEW i \in Item,
         ActivateChunk(i)
  PROVE  Ration /\ \A s \in Slot : HasTries(slot[s]) => HasTries(slot'[s])
<1> DEFINE reused == Usable # <<>>
<1>1. PICK s \in Launchable(i) : slot' = [slot EXCEPT ![s] = Launched(slot[s], reused)]
  BY DEF ActivateChunk
<1>2. /\ s \in Slot /\ Dispatchable(slot[s]) /\ Looked(s) /\ slot[s] \in SlotRecord
  BY DEF Launchable, SlotsOf, ActivateChunk, Looked, TypeOK
<1> HIDE DEF reused
<1>3. HasTries(slot[s])
  BY <1>2 DEF Rationed
<1>4. /\ Launched(slot[s], reused).phase = "running"
      /\ Launched(slot[s], reused).attempts =
           IF slot[s].phase = "retry_wait" THEN slot[s].attempts + 1 ELSE slot[s].attempts
  BY <1>2 DEF Launched, SlotRecord
<1>5. /\ slot'[s] = Launched(slot[s], reused)
      /\ \A t \in Slot : t # s => slot'[t] = slot[t]
  BY <1>1, <1>2 DEF TypeOK
<1>6. slot[s].phase = "retry_wait" => limits.tries = 0 \/ slot[s].attempts < limits.tries
  BY <1>2, <1>3 DEF HasTries, Dispatchable
<1>7. limits.tries \in Nat /\ \A t \in Slot : slot[t].attempts \in Nat
  BY ConstantTypes DEF TypeOK, SlotRecord
<1>8. Ration
  BY <1>4, <1>5, <1>6, <1>7 DEF Ration
<1> QED
  BY <1>4, <1>5, <1>8 DEF HasTries

\* The delay of a reconnect counts for nothing here.
LEMMA DelayElapsesRation ==
  ASSUME TypeOK, Rationed, NEW s \in Slot, DelayElapses(s) PROVE Rationed' /\ Ration
<1>1. /\ UNCHANGED <<jobs, split, limits, pc, at>>
      /\ slot' = [slot EXCEPT ![s] = [slot[s] EXCEPT !.ripe = TRUE]]
      /\ slot \in [Slot -> SlotRecord]
  BY DEF DelayElapses, pumpVars, TypeOK
<1>2. /\ slot'[s].phase = slot[s].phase /\ slot'[s].armed = slot[s].armed
      /\ slot'[s].due = slot[s].due /\ slot'[s].attempts = slot[s].attempts
      /\ \A t \in Slot : t # s => slot'[t] = slot[t]
  BY <1>1 DEF SlotRecord
<1>3. \A t \in Slot : HasTries(slot[t]) => HasTries(slot'[t])
  BY <1>2 DEF HasTries
<1>4. Rationed'
  BY <1>1, <1>3, RationFrame
<1>5. \A t \in Slot : slot'[t].attempts = slot[t].attempts
  BY <1>2
<1> QED
  BY <1>4, <1>5, RationQuiet

\* The dispatch steps.
LEMMA DispatchRation == ASSUME TypeOK, Rationed, Dispatch PROVE Rationed' /\ Ration
<1>1. ASSUME NEW i \in Item, ActivateChunk(i), pc \in {"dispatch", "grant", "share"},
             NEW a, at' = a
      PROVE  Rationed' /\ Ration
  <2>1. /\ UNCHANGED <<jobs, split, limits, pc>>
        /\ \A s \in Slot : HasTries(slot[s]) => HasTries(slot'[s])
        /\ Ration
    BY <1>1, ActivateChunkRation DEF ActivateChunk
  <2>2. \A s \in Slot : Looked(s)' => Looked(s)
    BY <1>1, <2>1 DEF Looked, HasJob
  <2> QED
    BY <2>1, <2>2 DEF Rationed, HasTries
<1>2. CASE DispatchStrict
  <2>1. DOMAIN order = 1..Len(order)
    BY LenProperties DEF TypeOK
  <2>2. PICK k \in 1..Len(order) : ActivateChunk(order[k]) \/ StartItem(order[k])
    BY <1>2, <2>1 DEF DispatchStrict
  <2>3. pc = "dispatch" /\ order[k] \in Item
    BY <1>2, OrderItemType DEF DispatchStrict
  <2> QED
    BY <1>1, <2>2, <2>3, StartItemRation
<1>3. CASE GrantFirst
  <2>1. at.job \in 1..Len(order)
    BY <1>3, LenProperties DEF GrantFirst, TypeOK
  <2>2. ActivateChunk(order[at.job]) \/ StartItem(order[at.job])
    BY <1>3 DEF GrantFirst
  <2>3. pc = "grant" /\ order[at.job] \in Item
    BY <1>3, <2>1, OrderItemType DEF GrantFirst
  <2> QED
    BY <1>1, <2>2, <2>3, StartItemRation
<1>4. CASE ShareChannel
  <2>1. Len(jobs) \in Nat
    BY LenProperties DEF TypeOK
  <2>2. PICK n \in 0..(Len(jobs) - 1) : ActivateChunk(jobs[Turn(n)])
    BY <1>4 DEF ShareChannel
  <2>3. n \in Nat /\ Len(jobs) > 0
    BY <2>1
  <2>4. jobs[Turn(n)] \in Item /\ pc = "share"
    BY <1>4, <2>3, TurnType DEF ShareChannel
  <2> QED
    BY <1>1, <2>2, <2>4
<1>5. CASE GrantSkip \/ GrantEnd
  <2>1. /\ UNCHANGED <<jobs, split, slot, limits>>
        /\ pc = "grant" /\ pc' \in {"grant", "share"}
    BY <1>5 DEF GrantSkip, GrantEnd, jobVars
  <2>2. \A s \in Slot : Looked(s)' => Looked(s)
    BY <2>1 DEF Looked, HasJob
  <2>3. Rationed'
    BY <2>1, <2>2 DEF Rationed, HasTries
  <2> QED
    BY <2>1, <2>3, RationQuiet
<1>6. CASE DispatchEnd \/ ReapIdle
  <2>1. slot' = slot /\ pc' \in {"reap", "ui"}
    BY <1>6 DEF DispatchEnd, ReapIdle, jobVars
  <2> QED
    BY <2>1, RationOutside, RationQuiet
<1> QED
  BY <1>2, <1>3, <1>4, <1>5, <1>6 DEF Dispatch

\* The user acts between two pumps; a retry by hand begins a new count.
LEMMA UserRation == ASSUME TypeOK, User PROVE Rationed' /\ Ration
<1>1. pc' = "ui"
  BY DEF User, Enqueue, Pause, Start, RetryFailedParts, RemoveItem, PinTop, ApplySettings,
         UserAct, pumpVars
<1>2. ASSUME NEW i \in Item, StopJob(i)
      PROVE  \A s \in Slot : slot'[s] = slot[s] \/ slot'[s] = FreshSlot(0)
  BY <1>2 DEF StopJob, EraseJob
<1>3. \A s \in Slot : slot'[s].attempts = slot[s].attempts \/ slot'[s].attempts = 0
  <2>1. ASSUME NEW i \in Item, Enqueue(i) \/ Start(i) \/ PinTop(i) PROVE slot' = slot
    BY <2>1 DEF Enqueue, Start, PinTop, jobVars
  <2>2. ASSUME NEW i \in Item, Pause(i) \/ RemoveItem(i)
        PROVE  slot' = slot \/ \A s \in Slot : slot'[s] = slot[s] \/ slot'[s] = FreshSlot(0)
    BY <1>2, <2>2 DEF Pause, RemoveItem, jobVars
  <2>3. ASSUME NEW i \in Item, RetryFailedParts(i)
        PROVE  \A s \in Slot : slot'[s] = slot[s] \/ slot'[s].attempts = 0
    <3>1. \A s \in Slot : ArmManualRetry(slot[s]).attempts = 0
      BY DEF ArmManualRetry, TypeOK, SlotRecord
    <3> QED
      BY <2>3, <3>1 DEF RetryFailedParts
  <2>4. ASSUME NEW l \in Limits, ApplySettings(l) PROVE slot' = slot
    BY <2>4 DEF ApplySettings, jobVars
  <2> QED
    BY <2>1, <2>2, <2>3, <2>4, FreshHasTries DEF User
<1> QED
  BY <1>1, <1>3, RationOutside, RationQuiet

\* Every step keeps the ration.
LEMMA NextRation == TypeOK /\ Rationed /\ [Next]_vars => Rationed' /\ Ration
<1> SUFFICES ASSUME TypeOK, Rationed, [Next]_vars PROVE Rationed' /\ Ration
  OBVIOUS
<1>1. CASE UNCHANGED <<jobs, split, slot, limits, pc, at>>
  BY <1>1, RationFrame, RationQuiet
<1>2. CASE \E s \in Slot : Helper(s)
  <2>1. HelperFrame
    BY <1>2 DEF Helper, HelperConnect, HelperOpen, HelperWrite, HelperReport, HelperDone,
                HelperFail, LinkLost
  <2> QED
    BY <1>1, <2>1 DEF HelperFrame, jobVars, pumpVars
<1>3. CASE PumpBegin
  <2>1. \A s \in Slot : slot'[s].attempts = slot[s].attempts
    BY <1>3 DEF PumpBegin, TypeOK, SlotRecord
  <2> QED
    BY <1>3, <2>1, PumpBeginRation, RationQuiet
<1>4. CASE Fold
  BY <1>4, FoldSlotRation, FoldOrphanRation, FoldJobEndRation, FoldEndRation DEF Fold
<1>5. CASE Crash
  <2>1. pc' = "ui" /\ \A s \in Slot : slot'[s] = FreshSlot(0)
    BY <1>5 DEF Crash
  <2> QED
    BY <2>1, FreshHasTries, RationOutside, RationQuiet
<1>6. CASE (\E k \in DOMAIN idle : PooledLinkLost(k)) \/ UNCHANGED vars
  BY <1>1, <1>6 DEF PooledLinkLost, vars, jobVars, pumpVars
<1> QED
  BY <1>2, <1>3, <1>4, <1>5, <1>6, DispatchRation, UserRation, DelayElapsesRation
     DEF Next, Pump

\* A chunk never runs on more counted reconnects than the user allows, whatever
\* fails, is retried by hand or is reused, and however the limit is changed.
THEOREM RetriesAreRationed == Spec => RetryRationed
<1>1. Init => Rationed
  BY RationOutside DEF Init, Rationed, Looked
<1>2. TypeOK /\ Rationed /\ [Next]_vars =>
        [\A s \in Slot : slot'[s].attempts > slot[s].attempts =>
           limits.tries = 0 \/ slot'[s].attempts <= limits.tries]_slot
  BY NextRation DEF Ration
<1>3. TypeOK /\ Rationed /\ [Next]_vars => Rationed'
  BY NextRation
<1> QED
  BY <1>1, <1>2, <1>3, TypeCorrect, PTL DEF Spec, RetryRationed
=============================================================================
