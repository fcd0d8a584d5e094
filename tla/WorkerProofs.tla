---------------------------- MODULE WorkerProofs ----------------------------
(* Invariance proofs for the two components that leave their work to       *)
(* others, threads or child processes, and ask from time to time how it    *)
(* goes: LocalDelete and HashQueue, for any number of batches and items.   *)
EXTENDS LocalDelete, HashQueue, FiniteSetTheorems, SequenceTheorems, TLAPS

-----------------------------------------------------------------------------
(* LocalDelete: reports are final, and failures are told once.             *)

\* `running' counts the threads that are not over; what poll() read of it stays
\* true once it is 0, because only poll()'s own thread starts new ones.
RunningIsActive ==
  /\ Active \in SUBSET Batch
  /\ running = Cardinality(Active)
  /\ pc # "ui" /\ saw = 0 => Active = {}
  /\ pc = "report" => saw = 0

\* A thread that has not left its loop has a path to remove.
PathsLeft == \A b \in Batch : stage[b] \notin {"leave", "over"} => left[b] > 0

DeleteInv == TypeOK /\ PathsLeft /\ RunningIsActive /\ ReportIsFinal /\ FailuresToldOnce

\* A set of threads can be counted, and it is empty when the count is 0.
LEMMA ActiveCount ==
  /\ IsFiniteSet(Active) /\ Cardinality(Active) \in Nat
  /\ Cardinality(Active) = 0 <=> Active = {}
<1>1. IsFiniteSet(Active)
  BY DeleteAssumption, FS_Subset DEF Active
<1> QED
  BY <1>1, FS_CardinalityType, FS_EmptySet

\* A thread that starts is one more.
LEMMA StartCounts ==
  ASSUME NEW b \in Batch, TypeOK, DeleteLocalAsync(b)
  PROVE  Active' = Active \cup {b} /\ Cardinality(Active') = Cardinality(Active) + 1
<1>1. Active' = Active \cup {b} /\ b \notin Active
  BY DEF DeleteLocalAsync, Active, TypeOK
<1> QED
  BY <1>1, ActiveCount, FS_AddElement

\* A thread that ends is one less.
LEMMA EndCounts ==
  ASSUME NEW b \in Batch, TypeOK, SubRunning(b)
  PROVE  Active' = Active \ {b} /\ Cardinality(Active') = Cardinality(Active) - 1
<1>1. Active' = Active \ {b} /\ b \in Active
  BY DEF SubRunning, Active, TypeOK
<1> QED
  BY <1>1, ActiveCount, FS_RemoveElement

\* The other steps of a thread start and end none.
LEMMA SameActive ==
  ASSUME NEW b \in Batch, TypeOK, RemoveAll(b) \/ AddFail(b) \/ AddDone(b)
  PROVE  Active' = Active /\ b \in Active
BY DEF RemoveAll, AddFail, AddDone, Active, TypeOK

\* Initially nothing runs.
LEMMA InitDelete == Init => DeleteInv
<1> SUFFICES ASSUME Init PROVE DeleteInv
  OBVIOUS
<1>1. Active = {}
  BY DEF Init, Active
<1>2. TypeOK
  BY DeleteAssumption DEF Init, TypeOK
<1> QED
  BY <1>1, <1>2, FS_EmptySet, DeleteAssumption
  DEF Init, DeleteInv, PathsLeft, RunningIsActive, ReportIsFinal, FailuresToldOnce

\* A new batch starts between two calls of poll().
LEMMA DeleteLocalAsyncInv ==
  ASSUME DeleteInv, NEW b \in Batch, DeleteLocalAsync(b) PROVE DeleteInv'
<1>1. TypeOK' /\ PathsLeft'
  BY DEF DeleteInv, TypeOK, PathsLeft, DeleteLocalAsync, ui, ghosts
<1>2. Active' = Active \cup {b} /\ Cardinality(Active') = Cardinality(Active) + 1
  BY StartCounts DEF DeleteInv
<1>3. pc' = "ui" /\ running' = running + 1
  BY DEF DeleteLocalAsync, ui
<1>4. RunningIsActive'
  BY <1>2, <1>3 DEF DeleteInv, RunningIsActive
<1> QED
  BY <1>1, <1>3, <1>4 DEF DeleteInv, ReportIsFinal, FailuresToldOnce, DeleteLocalAsync, ghosts

\* A thread that deletes is active, so poll() is not about to report.
LEMMA ThreadInv ==
  ASSUME DeleteInv, NEW b \in Batch, Thread(b) PROVE DeleteInv'
<1> USE DEF DeleteInv
<1>1. CASE RemoveAll(b) \/ AddFail(b) \/ AddDone(b)
  <2>1. Active' = Active /\ b \in Active
    BY <1>1, SameActive
  <2>2. TypeOK' /\ PathsLeft'
    <3>1. CASE RemoveAll(b)
      BY <3>1 DEF TypeOK, PathsLeft, RemoveAll, shared, ui, ghosts
    <3>2. CASE AddFail(b)
      BY <3>2 DEF TypeOK, PathsLeft, AddFail, ui
    <3>3. CASE AddDone(b)
      BY <3>3 DEF TypeOK, PathsLeft, AddDone, ui, ghosts
    <3> QED
      BY <1>1, <3>1, <3>2, <3>3
  <2>3. UNCHANGED ui /\ running' = running
    BY <1>1 DEF RemoveAll, AddFail, AddDone, shared
  <2>4. pc # "report"
    BY <2>1 DEF ReportIsFinal
  <2>5. FailuresToldOnce'
    BY <1>1 DEF TypeOK, FailuresToldOnce, RemoveAll, AddFail, AddDone, shared, ghosts
  <2> QED
    BY <2>1, <2>2, <2>3, <2>4, <2>5 DEF RunningIsActive, ReportIsFinal, ui
<1>2. CASE SubRunning(b)
  <2>1. Active' = Active \ {b} /\ Cardinality(Active') = Cardinality(Active) - 1
    BY <1>2, EndCounts
  <2>2. b \in Active
    BY <1>2 DEF SubRunning, Active, TypeOK
  <2>3. running > 0
    BY <2>2, ActiveCount DEF RunningIsActive, TypeOK
  <2>4. TypeOK' /\ PathsLeft'
    BY <1>2, <2>3 DEF TypeOK, PathsLeft, SubRunning, ui, ghosts
  <2>5. pc # "report"
    BY <2>2 DEF ReportIsFinal
  <2>6. UNCHANGED <<ui, ghosts, fails>> /\ running' = running - 1
    BY <1>2 DEF SubRunning
  <2> QED
    BY <2>1, <2>4, <2>5, <2>6 DEF RunningIsActive, ReportIsFinal, FailuresToldOnce, ui, ghosts
<1> QED
  BY <1>1, <1>2 DEF Thread

\* What poll() read of `running' is true of the threads, or not 0.
LEMMA PollInv ==
  ASSUME DeleteInv, Poll PROVE DeleteInv'
<1> USE DEF DeleteInv
<1>1. CASE ReadRunning
  <2>1. Active' = Active
    BY <1>1 DEF ReadRunning, Active
  <2>2. TypeOK' /\ PathsLeft'
    BY <1>1 DEF TypeOK, PathsLeft, ReadRunning, shared, ghosts
  <2>3. RunningIsActive'
    BY <1>1, <2>1, ActiveCount DEF RunningIsActive, ReadRunning, shared
  <2> QED
    BY <1>1, <2>2, <2>3 DEF ReadRunning, ReportIsFinal, FailuresToldOnce, shared, ghosts
<1>2. CASE ReadDone
  <2>1. Active' = Active
    BY <1>2 DEF ReadDone, Active
  <2>2. TypeOK' /\ PathsLeft'
    BY <1>2 DEF TypeOK, PathsLeft, ReadDone, shared, ghosts
  <2>3. RunningIsActive'
    BY <1>2, <2>1 DEF RunningIsActive, ReadDone, shared
  <2> QED
    BY <1>2, <2>1, <2>2, <2>3 DEF ReadDone, RunningIsActive, ReportIsFinal, FailuresToldOnce,
                                  shared, ghosts
<1>3. CASE Report
  <2>1. Active' = Active
    BY <1>3 DEF Report, Active
  <2>2. TypeOK' /\ PathsLeft'
    BY <1>3 DEF TypeOK, PathsLeft, Report, Started
  <2>3. RunningIsActive'
    BY <1>3, <2>1 DEF RunningIsActive, Report
  <2> QED
    BY <1>3, <2>2, <2>3 DEF Report, ReportIsFinal, FailuresToldOnce, TypeOK
<1> QED
  BY <1>1, <1>2, <1>3 DEF Poll

\* Every step keeps the invariant.
LEMMA NextDelete == DeleteInv /\ [Next]_vars => DeleteInv'
<1> SUFFICES ASSUME DeleteInv, [Next]_vars PROVE DeleteInv'
  OBVIOUS
<1>1. CASE UNCHANGED vars
  BY <1>1 DEF vars, shared, ui, ghosts, DeleteInv, TypeOK, PathsLeft, RunningIsActive,
              ReportIsFinal, FailuresToldOnce, Active
<1> QED
  BY <1>1, DeleteLocalAsyncInv, ThreadInv, PollInv DEF Next

\* Every variable keeps its type; the counters never go below 0.
THEOREM TypeCorrect == Spec => []TypeOK
<1>1. DeleteInv => TypeOK
  BY DEF DeleteInv
<1> QED
  BY InitDelete, NextDelete, <1>1, PTL DEF Spec

\* A report of poll() comes after the last item of every batch that was started: for any
\* number of batches and paths.
THEOREM ReportsAreFinal == Spec => []ReportIsFinal
<1>1. DeleteInv => ReportIsFinal
  BY DEF DeleteInv
<1> QED
  BY InitDelete, NextDelete, <1>1, PTL DEF Spec

\* Each failure is told once, although a thread may count one between any two steps of
\* poll(): for any number of batches and paths.
THEOREM FailuresAreTold == Spec => []FailuresToldOnce
<1>1. DeleteInv => FailuresToldOnce
  BY DEF DeleteInv
<1> QED
  BY InitDelete, NextDelete, <1>1, PTL DEF Spec

-----------------------------------------------------------------------------
(* HashQueue: verdicts are those of the item's own child, and workers      *)
(* serve one item each.                                                    *)

ItemsOK ==
  /\ hashSeq \in Nat
  /\ status \in [Item -> {"none", "queued", "hashing", "succeeded", "failed"}]
  /\ wstate \in [Item -> {"init", "running", "ok", "err"}]
  /\ child \in [Item -> {"none", "work", "return", "gone"}]
  /\ wrote \in [Item -> {"nothing", "R", "E"}]
  /\ pipe \in [Item -> Seq({"R", "E"})] /\ lines \in [Item -> Seq({"R", "E"})]
  /\ alive \in [Item -> BOOLEAN]

\* Nothing was ever started for the item.
Untouched(i) ==
  /\ wstate[i] = "init" /\ child[i] = "none" /\ wrote[i] = "nothing" /\ ~alive[i]
  /\ pipe[i] = <<>> /\ lines[i] = <<>>

FreshOK ==
  \A i \in Item : /\ i > hashSeq => status[i] = "none"
                  /\ i > hashSeq \/ status[i] = "queued" => Untouched(i)

\* What is on its way from a child is its verdict, and it has none while it works.
VerdictOK ==
  \A i \in Item : /\ \A k \in DOMAIN pipe[i] : pipe[i][k] = wrote[i]
                  /\ \A k \in DOMAIN lines[i] : lines[i][k] = wrote[i]
                  /\ child[i] = "work" => wrote[i] = "nothing"

\* The worker's state is that verdict, or the child has ended.
WorkerOK ==
  \A i \in Item : /\ wstate[i] = "ok" => wrote[i] = "R"
                  /\ wstate[i] = "err" => child[i] # "work"
                  /\ wstate[i] = "running" /\ ~alive[i] => child[i] # "work"

HashInv == ItemsOK /\ FreshOK /\ VerdictOK /\ WorkerOK /\ HonestVerdict

\* Initially nothing is queued.
LEMMA InitHash == HashInit => HashInv
<1> SUFFICES ASSUME HashInit PROVE HashInv
  OBVIOUS
<1>1. \A i \in Item : DOMAIN pipe[i] = {} /\ DOMAIN lines[i] = {}
  BY DEF HashInit
<1> QED
  BY <1>1 DEF HashInit, HashInv, ItemsOK, FreshOK, Untouched, VerdictOK, WorkerOK, HonestVerdict

\* A new item is one that nothing was started for, whatever was removed before.
LEMMA EnqueueInv == ASSUME HashInv, EnqueueHash PROVE HashInv'
<1>1. ItemsOK'
  <2>1. hashSeq' \in Nat /\ status' = [status EXCEPT ![hashSeq'] = "queued"]
    BY DEF HashInv, ItemsOK, EnqueueHash
  <2>2. status' \in [Item -> {"none", "queued", "hashing", "succeeded", "failed"}]
    BY <2>1 DEF HashInv, ItemsOK
  <2>3. UNCHANGED <<wstate, child, wrote, pipe, lines, alive>>
    BY DEF EnqueueHash, childVars
  <2> QED
    BY <2>1, <2>2, <2>3 DEF HashInv, ItemsOK
<1>2. FreshOK'
  <2>1. /\ hashSeq' = hashSeq + 1 /\ hashSeq' \in Item
        /\ status' = [status EXCEPT ![hashSeq'] = "queued"]
        /\ UNCHANGED <<wstate, child, wrote, alive, pipe, lines>>
    BY HashAssumption DEF HashInv, ItemsOK, EnqueueHash, childVars, Item
  <2>2. ASSUME NEW i \in Item, i > hashSeq' \/ status'[i] = "queued"
        PROVE  i > hashSeq \/ status[i] = "queued"
    BY <2>1, <2>2 DEF HashInv, ItemsOK, Item
  <2>3. \A i \in Item : i > hashSeq' \/ status'[i] = "queued" => Untouched(i)
    BY <2>2 DEF HashInv, FreshOK
  <2>4. \A i \in Item : i > hashSeq' => status'[i] = "none"
    BY <2>1 DEF HashInv, ItemsOK, FreshOK, Item
  <2> QED
    BY <2>1, <2>3, <2>4 DEF FreshOK, Untouched
<1>3. VerdictOK' /\ WorkerOK'
  BY DEF HashInv, VerdictOK, WorkerOK, EnqueueHash, childVars
<1>4. HonestVerdict'
  BY DEF HashInv, ItemsOK, HonestVerdict, EnqueueHash, childVars
<1> QED
  BY <1>1, <1>2, <1>3, <1>4 DEF HashInv

\* A removed item has no verdict.
LEMMA RemoveInv == ASSUME HashInv, NEW gone, HashRemove(gone) PROVE HashInv'
<1>1. \A i \in Item : status'[i] \in {"none", status[i]}
  BY DEF HashRemove
<1>2. ItemsOK'
  BY DEF HashInv, ItemsOK, HashRemove, childVars
<1> QED
  BY <1>1, <1>2
  DEF HashInv, FreshOK, Untouched, VerdictOK, WorkerOK, HonestVerdict, HashRemove, childVars

\* A child gives its verdict once.
LEMMA ChildWorksInv == ASSUME HashInv, NEW i \in Item, ChildWorks(i) PROVE HashInv'
<1>1. PICK said \in {"R", "E"} : /\ pipe' = [pipe EXCEPT ![i] = Append(@, said)]
                                 /\ wrote' = [wrote EXCEPT ![i] = said]
  BY DEF ChildWorks
<1>2. /\ child[i] = "work" /\ child' = [child EXCEPT ![i] = "return"]
      /\ UNCHANGED <<hashSeq, status, wstate, lines, alive>>
  BY DEF ChildWorks
<1>3. pipe[i] \in Seq({"R", "E"}) /\ lines[i] \in Seq({"R", "E"}) /\ wrote[i] = "nothing"
  BY <1>2 DEF HashInv, ItemsOK, VerdictOK
<1>4. DOMAIN pipe[i] = {} /\ DOMAIN lines[i] = {}
  <2>1. \A k \in DOMAIN pipe[i] : pipe[i][k] \in {"R", "E"} /\ pipe[i][k] = "nothing"
    BY <1>3 DEF HashInv, VerdictOK
  <2>2. \A k \in DOMAIN lines[i] : lines[i][k] \in {"R", "E"} /\ lines[i][k] = "nothing"
    BY <1>3 DEF HashInv, VerdictOK
  <2> QED
    BY <2>1, <2>2
<1>5. \A k \in DOMAIN Append(pipe[i], said) : Append(pipe[i], said)[k] = said
  BY <1>3, <1>4
<1>6. ItemsOK'
  BY <1>1, <1>2, <1>3 DEF HashInv, ItemsOK
<1>7. FreshOK'
  BY <1>1, <1>2 DEF HashInv, ItemsOK, FreshOK, Untouched
<1>8. VerdictOK'
  BY <1>1, <1>2, <1>4, <1>5 DEF HashInv, ItemsOK, VerdictOK
<1>9. WorkerOK' /\ HonestVerdict'
  BY <1>1, <1>2, <1>3 DEF HashInv, ItemsOK, WorkerOK, HonestVerdict
<1> QED
  BY <1>6, <1>7, <1>8, <1>9 DEF HashInv

\* A child that ends no longer works.
LEMMA ChildExitsInv == ASSUME HashInv, NEW i \in Item, ChildExits(i) PROVE HashInv'
BY DEF ChildExits, HashInv, ItemsOK, FreshOK, Untouched, VerdictOK, WorkerOK, HonestVerdict

\* The reader moves lines, and ends after the child.
LEMMA HashReaderInv == ASSUME HashInv, NEW i \in Item, HashReader(i) PROVE HashInv'
<1>1. alive[i] /\ UNCHANGED <<hashSeq, status, wstate, child, wrote>>
  BY DEF HashReader
<1>2. pipe[i] \in Seq({"R", "E"}) /\ lines[i] \in Seq({"R", "E"})
  BY DEF HashInv, ItemsOK
<1>3. CASE /\ pipe[i] # <<>> /\ UNCHANGED alive
           /\ lines' = [lines EXCEPT ![i] = Append(@, Head(pipe[i]))]
           /\ pipe' = [pipe EXCEPT ![i] = Tail(@)]
  <2>1. /\ Head(pipe[i]) = wrote[i] /\ Head(pipe[i]) \in {"R", "E"}
        /\ Tail(pipe[i]) \in Seq({"R", "E"})
        /\ \A k \in DOMAIN Tail(pipe[i]) : Tail(pipe[i])[k] = wrote[i]
    BY <1>2, <1>3 DEF HashInv, VerdictOK
  <2>2. \A k \in DOMAIN Append(lines[i], Head(pipe[i])) :
          Append(lines[i], Head(pipe[i]))[k] = wrote[i]
    BY <1>2, <2>1 DEF HashInv, VerdictOK
  <2>3. ItemsOK'
    BY <1>1, <1>2, <1>3, <2>1 DEF HashInv, ItemsOK
  <2>4. FreshOK' /\ VerdictOK'
    BY <1>1, <1>3, <2>1, <2>2 DEF HashInv, ItemsOK, FreshOK, Untouched, VerdictOK
  <2> QED
    BY <1>1, <1>3, <2>3, <2>4 DEF HashInv, WorkerOK, HonestVerdict
<1>4. CASE /\ child[i] = "gone" /\ alive' = [alive EXCEPT ![i] = FALSE]
           /\ UNCHANGED <<lines, pipe>>
  BY <1>1, <1>4 DEF HashInv, ItemsOK, FreshOK, Untouched, VerdictOK, WorkerOK, HonestVerdict
<1> QED
  BY <1>3, <1>4 DEF HashReader

\* drain() takes what the child said.
LEMMA PollDrainInv == ASSUME HashInv, PollDrain PROVE HashInv'
<1> DEFINE said == ToSet(lines[Worker])
<1>1. /\ wstate' = [wstate EXCEPT ![Worker] =
                      IF @ # "running" THEN @
                      ELSE IF "R" \in said THEN "ok" ELSE IF "E" \in said THEN "err" ELSE @]
      /\ lines' = [lines EXCEPT ![Worker] = <<>>]
      /\ UNCHANGED <<hashSeq, status, child, wrote, pipe, alive>>
  BY DEF PollDrain, childVars
<1>2. ASSUME NEW i \in Item, i = Worker PROVE said \subseteq {wrote[i]}
  BY <1>2 DEF HashInv, VerdictOK, ToSet
<1>3. ASSUME NEW i \in Item
      PROVE  /\ wstate'[i] \in {wstate[i], "ok", "err"}
             /\ wstate'[i] # wstate[i] =>
                  /\ wstate[i] = "running"
                  /\ wstate'[i] = "ok" => wrote[i] = "R"
                  /\ wstate'[i] = "err" => wrote[i] = "E"
             /\ lines'[i] \in {lines[i], <<>>}
  <2>1. CASE i = Worker
    <3>1. said \subseteq {wrote[i]}
      BY <1>2, <2>1
    <3> HIDE DEF said
    <3>2. /\ wstate'[i] = IF wstate[i] # "running" THEN wstate[i]
                          ELSE IF "R" \in said THEN "ok"
                          ELSE IF "E" \in said THEN "err" ELSE wstate[i]
          /\ lines'[i] = <<>>
      BY <1>1, <2>1 DEF HashInv, ItemsOK
    <3> QED
      BY <3>1, <3>2
  <2>2. CASE i # Worker
    BY <1>1, <2>2 DEF HashInv, ItemsOK
  <2> QED
    BY <2>1, <2>2
<1>4. ItemsOK'
  <2>1. wstate' \in [Item -> {"init", "running", "ok", "err"}]
    BY <1>1, <1>3 DEF HashInv, ItemsOK
  <2>2. ASSUME NEW i \in Item PROVE lines'[i] \in Seq({"R", "E"})
    <3>1. lines[i] \in Seq({"R", "E"}) /\ <<>> \in Seq({"R", "E"})
      BY DEF HashInv, ItemsOK
    <3> QED
      BY <1>3, <3>1
  <2>3. lines' \in [Item -> Seq({"R", "E"})]
    <3>1. lines' = [i \in Item |-> lines'[i]]
      BY <1>1 DEF HashInv, ItemsOK
    <3> QED
      BY <2>2, <3>1
  <2> QED
    BY <1>1, <2>1, <2>3 DEF HashInv, ItemsOK
<1>5. FreshOK'
  BY <1>1, <1>3 DEF HashInv, FreshOK, Untouched
<1>6. VerdictOK'
  <2>1. ASSUME NEW i \in Item PROVE \A k \in DOMAIN lines'[i] : lines'[i][k] = wrote[i]
    BY <1>3 DEF HashInv, VerdictOK
  <2> QED
    BY <1>1, <2>1 DEF HashInv, VerdictOK
<1>7. WorkerOK'
  BY <1>1, <1>3 DEF HashInv, VerdictOK, WorkerOK
<1> QED
  BY <1>1, <1>4, <1>5, <1>6, <1>7 DEF HashInv, HonestVerdict

\* An item is decided by the state of its worker.
LEMMA PollAliveInv == ASSUME HashInv, PollAlive PROVE HashInv'
<1>1. /\ wstate' = [wstate EXCEPT ![Worker] =
                      IF @ = "running" /\ ~alive[Worker] THEN "err" ELSE @]
      /\ status' = [status EXCEPT ![Worker] =
                      CASE ~Queued(Worker) \/ @ # "hashing" -> @
                        [] OTHER -> CASE wstate'[Worker] = "ok"  -> "succeeded"
                                      [] wstate'[Worker] = "err" -> "failed"
                                      [] OTHER                   -> @]
      /\ UNCHANGED <<hashSeq, child, wrote, pipe, lines, alive>>
  BY DEF PollAlive, childVars
<1>2. ASSUME NEW i \in Item
      PROVE  /\ wstate'[i] # wstate[i] =>
                  wstate[i] = "running" /\ ~alive[i] /\ wstate'[i] = "err"
             /\ status'[i] # status[i] =>
                  /\ status[i] = "hashing"
                  /\ \/ status'[i] = "succeeded" /\ wstate'[i] = "ok"
                     \/ status'[i] = "failed" /\ wstate'[i] = "err"
  <2>1. CASE i = Worker
    BY <1>1, <2>1 DEF HashInv, ItemsOK
  <2>2. CASE i # Worker
    BY <1>1, <2>2 DEF HashInv, ItemsOK
  <2> QED
    BY <2>1, <2>2
<1>3. ItemsOK'
  <2>1. \A i \in Item : /\ wstate'[i] \in {"init", "running", "ok", "err"}
                        /\ status'[i] \in {"none", "queued", "hashing", "succeeded", "failed"}
    BY <1>2 DEF HashInv, ItemsOK
  <2>2. wstate' \in [Item -> {"init", "running", "ok", "err"}]
    BY <1>1, <2>1 DEF HashInv, ItemsOK
  <2>3. status' \in [Item -> {"none", "queued", "hashing", "succeeded", "failed"}]
    BY <1>1, <2>1 DEF HashInv, ItemsOK
  <2> QED
    BY <1>1, <2>2, <2>3 DEF HashInv, ItemsOK
<1>4. FreshOK'
  BY <1>1, <1>2 DEF HashInv, FreshOK, Untouched
<1>5. WorkerOK'
  BY <1>1, <1>2 DEF HashInv, WorkerOK
<1>6. HonestVerdict'
  BY <1>1, <1>2, <1>5 DEF HashInv, WorkerOK, HonestVerdict
<1> QED
  BY <1>1, <1>3, <1>4, <1>5, <1>6 DEF HashInv, VerdictOK

\* Only items that nothing was started for are started.
LEMMA PumpStartInv == ASSUME HashInv, PumpStart PROVE HashInv'
<1>1. PICK begun, failing :
        /\ begun \subseteq Waiting /\ failing \subseteq begun
        /\ status' = [i \in Item |-> IF i \in begun THEN "hashing" ELSE status[i]]
        /\ wstate' = [i \in Item |-> IF i \in failing THEN "err"
                                     ELSE IF i \in begun THEN "running"
                                     ELSE IF i \in Dropped THEN "init" ELSE wstate[i]]
        /\ child' = [i \in Item |-> IF i \in Dropped THEN "none"
                                    ELSE IF i \in begun \ failing THEN "work" ELSE child[i]]
        /\ alive' = [i \in Item |-> IF i \in begun \ failing THEN TRUE
                                    ELSE alive[i] /\ i \notin Dropped]
        /\ pipe' = [i \in Item |-> IF i \in Dropped THEN <<>> ELSE pipe[i]]
        /\ lines' = [i \in Item |-> IF i \in Dropped THEN <<>> ELSE lines[i]]
  <2> DEFINE kept == Only(workers, Item \ Dropped)
             b    == StartedNow(kept)
  <2>1. b \subseteq Waiting
    BY DEF StartedNow
  <2>2. PICK f \in SUBSET b :
          /\ status' = [i \in Item |-> IF i \in b THEN "hashing" ELSE status[i]]
          /\ wstate' = [i \in Item |-> IF i \in f THEN "err"
                                       ELSE IF i \in b THEN "running"
                                       ELSE IF i \in Dropped THEN "init" ELSE wstate[i]]
          /\ child' = [i \in Item |-> IF i \in Dropped THEN "none"
                                      ELSE IF i \in b \ f THEN "work" ELSE child[i]]
          /\ alive' = AliveNext(b, f)
          /\ pipe' = [i \in Item |-> IF i \in Dropped THEN <<>> ELSE pipe[i]]
          /\ lines' = [i \in Item |-> IF i \in Dropped THEN <<>> ELSE lines[i]]
    BY Zenon DEF PumpStart
  <2> HIDE DEF b
  <2> QED
    BY <2>1, <2>2, Zenon DEF AliveNext
<1>2. UNCHANGED <<hashSeq, wrote>>
  BY DEF PumpStart
<1>3. \A i \in begun : status[i] = "queued"
  BY <1>1, Zenon DEF Waiting
<1>4. \A i \in Item : i \in begun => Untouched(i)
  BY <1>3, Zenon DEF HashInv, FreshOK
<1>5. ItemsOK'
  <2>1. ASSUME NEW i \in Item
        PROVE  /\ status'[i] \in {"none", "queued", "hashing", "succeeded", "failed"}
               /\ wstate'[i] \in {"init", "running", "ok", "err"}
               /\ child'[i] \in {"none", "work", "return", "gone"}
               /\ alive'[i] \in BOOLEAN
    BY <1>1 DEF HashInv, ItemsOK
  <2>2. ASSUME NEW i \in Item
        PROVE  pipe'[i] \in Seq({"R", "E"}) /\ lines'[i] \in Seq({"R", "E"})
    BY <1>1 DEF HashInv, ItemsOK
  <2>3. /\ status' \in [Item -> {"none", "queued", "hashing", "succeeded", "failed"}]
        /\ wstate' \in [Item -> {"init", "running", "ok", "err"}]
        /\ child' \in [Item -> {"none", "work", "return", "gone"}]
        /\ alive' \in [Item -> BOOLEAN]
    BY <1>1, <2>1
  <2>4. pipe' \in [Item -> Seq({"R", "E"})] /\ lines' \in [Item -> Seq({"R", "E"})]
    BY <1>1, <2>2
  <2> QED
    BY <1>2, <2>3, <2>4 DEF HashInv, ItemsOK
<1>6. FreshOK'
  <2>1. ASSUME NEW i \in Item, i > hashSeq \/ status'[i] = "queued" PROVE Untouched(i)'
    <3>1. i \notin begun /\ i \notin failing /\ Untouched(i)
      BY <1>1, <1>3, <1>4, <2>1 DEF HashInv, FreshOK
    <3> QED
      BY <1>1, <1>2, <3>1 DEF Untouched
  <2>2. \A i \in Item : i > hashSeq => status'[i] = "none"
    BY <1>1, <1>3 DEF HashInv, FreshOK
  <2> QED
    BY <1>2, <2>1, <2>2 DEF FreshOK
<1>7. VerdictOK'
  <2>1. ASSUME NEW i \in Item
        PROVE  /\ \A k \in DOMAIN pipe'[i] : pipe'[i][k] = wrote[i]
               /\ \A k \in DOMAIN lines'[i] : lines'[i][k] = wrote[i]
    BY <1>1 DEF HashInv, VerdictOK
  <2> QED
    BY <1>1, <1>2, <1>4, <2>1 DEF HashInv, VerdictOK, Untouched
<1>8. WorkerOK'
  BY <1>1, <1>2, <1>4 DEF HashInv, WorkerOK, Untouched
<1>9. HonestVerdict'
  BY <1>1, <1>2 DEF HashInv, HonestVerdict
<1> QED
  BY <1>5, <1>6, <1>7, <1>8, <1>9 DEF HashInv

\* Every step keeps the invariant.
LEMMA NextHash == HashInv /\ [HashNext]_hashVars => HashInv'
<1> SUFFICES ASSUME HashInv, [HashNext]_hashVars PROVE HashInv'
  OBVIOUS
<1>1. CASE UNCHANGED hashVars \/ PumpHash
  BY <1>1 DEF hashVars, childVars, PumpHash, HashInv, ItemsOK, FreshOK, Untouched, VerdictOK,
              WorkerOK, HonestVerdict
<1> QED
  BY <1>1, EnqueueInv, RemoveInv, ChildWorksInv, ChildExitsInv, HashReaderInv, PollDrainInv,
     PollAliveInv, PumpStartInv
  DEF HashNext, Pump

\* An item succeeds on the digest of its own child only, and fails on its error or after
\* its end, never while the child still works: however its lines, its end, the pumps and
\* removals interleave, for any number of items and workers.
THEOREM VerdictsAreHonest == HashSpec => []HonestVerdict
<1>1. HashInv => HonestVerdict
  BY DEF HashInv
<1> QED
  BY InitHash, NextHash, <1>1, PTL DEF HashSpec

-----------------------------------------------------------------------------
(* Sequences without duplicates, and what Only leaves of them.             *)

Distinct(s) == \A j, k \in DOMAIN s : s[j] = s[k] => j = k

\* There are n numbers up to n.
LEMMA UpTo == ASSUME NEW n \in Nat PROVE IsFiniteSet(1..n) /\ Cardinality(1..n) = n
<1>1. Cardinality(1..n) = IF 1 > n THEN 0 ELSE n - 1 + 1
  BY FS_Interval, 1 \in Int, n \in Int
<1>2. IsFiniteSet(1..n)
  BY FS_Interval, 1 \in Int, n \in Int
<1> QED
  BY <1>1, <1>2

\* How many of a finite set of positions come up to k.
Rank(at, k) == Cardinality({j \in at : j <= k})

\* A later position has a higher rank.
LEMMA RankGrows ==
  ASSUME NEW at, IsFiniteSet(at), at \subseteq Nat, NEW j \in at, NEW k \in at, j < k
  PROVE  Rank(at, j) < Rank(at, k)
<1> DEFINE upto(n) == {m \in at : m <= n}
<1>1. upto(k) \in SUBSET at /\ upto(j) \in SUBSET upto(k) /\ k \in upto(k) /\ k \notin upto(j)
  <2>1. \A m \in at : m \in Nat
    OBVIOUS
  <2>2. \A m \in at : m <= j => m <= k
    BY <2>1
  <2>3. k <= k /\ ~(k <= j)
    BY <2>1
  <2> QED
    BY <2>2, <2>3
<1>2. IsFiniteSet(upto(k)) /\ IsFiniteSet(upto(j))
  BY <1>1, FS_Subset
<1>3. /\ Cardinality(upto(j)) <= Cardinality(upto(k))
      /\ Cardinality(upto(j)) # Cardinality(upto(k))
      /\ Cardinality(upto(j)) \in Nat /\ Cardinality(upto(k)) \in Nat
  BY <1>1, <1>2, FS_Subset, FS_CardinalityType
<1> QED
  BY <1>3 DEF Rank

\* Every rank is that of one position.
LEMMA RankOf ==
  ASSUME NEW at, IsFiniteSet(at), at \subseteq Nat
  PROVE  /\ Cardinality(at) \in Nat
         /\ \A j, k \in at : Rank(at, j) = Rank(at, k) => j = k
         /\ \A k \in at : Rank(at, k) \in 1..Cardinality(at)
         /\ \A n \in 1..Cardinality(at) : \E k \in at : Rank(at, k) = n
<1>1. \A j, k \in at : Rank(at, j) = Rank(at, k) => j = k
  <2>1. ASSUME NEW k \in at PROVE Rank(at, k) \in Nat
    <3>1. {m \in at : m <= k} \in SUBSET at
      OBVIOUS
    <3> QED
      BY <3>1, FS_Subset, FS_CardinalityType DEF Rank
  <2>2. ASSUME NEW j \in at, NEW k \in at, j < k PROVE Rank(at, j) # Rank(at, k)
    <3>1. Rank(at, j) < Rank(at, k)
      BY <2>2, RankGrows
    <3> QED
      BY <2>1, <3>1
  <2>3. \A j, k \in at : j = k \/ j < k \/ k < j
    OBVIOUS
  <2> QED
    BY <2>2, <2>3
<1>2. Cardinality(at) \in Nat
  BY FS_CardinalityType
<1>3. ASSUME NEW k \in at PROVE Rank(at, k) \in 1..Cardinality(at)
  <2>1. {j \in at : j <= k} \in SUBSET at /\ k \in {j \in at : j <= k}
    <3>1. k \in Nat
      OBVIOUS
    <3> QED
      BY <3>1
  <2>2. /\ IsFiniteSet({j \in at : j <= k}) /\ Rank(at, k) \in Nat
        /\ Rank(at, k) <= Cardinality(at) /\ Rank(at, k) # 0
    BY <2>1, FS_Subset, FS_CardinalityType, FS_EmptySet DEF Rank
  <2> QED
    BY <1>2, <2>2
<1> DEFINE f == [k \in at |-> Rank(at, k)]
<1>4. f \in Injection(at, 1..Cardinality(at))
  BY <1>1, <1>3 DEF Injection, IsInjective
<1>5. /\ IsFiniteSet(1..Cardinality(at)) /\ Cardinality(1..Cardinality(at)) = Cardinality(at)
  BY <1>2, UpTo
<1>6. f \in Surjection(at, 1..Cardinality(at))
  BY <1>4, <1>5, FS_Injection
<1>7. \A n \in 1..Cardinality(at) : \E k \in at : Rank(at, k) = n
  BY <1>6 DEF Surjection
<1> QED
  BY <1>1, <1>2, <1>3, <1>7

\* The positions of a sequence are finitely many.
LEMMA Positions ==
  ASSUME NEW S, NEW s \in Seq(S), NEW at \in SUBSET DOMAIN s
  PROVE  IsFiniteSet(at) /\ at \subseteq Nat /\ Cardinality(at) <= Len(s)
<1>1. DOMAIN s = 1..Len(s) /\ Len(s) \in Nat
  OBVIOUS
<1>2. IsFiniteSet(1..Len(s)) /\ Cardinality(1..Len(s)) = Len(s)
  BY <1>1, UpTo
<1>3. at \in SUBSET (1..Len(s))
  BY <1>1
<1> QED
  BY <1>1, <1>2, <1>3, FS_Subset

\* A sequence over a set is one over a greater set.
LEMMA SeqGrows == ASSUME NEW A, NEW B, A \subseteq B, NEW s \in Seq(A) PROVE s \in Seq(B)
OBVIOUS

\* Where the elements of s that are in some are.
At(s, some) == {k \in DOMAIN s : s[k] \in some}

\* What is left of a sequence is those of its elements, once each if they were there once.
LEMMA OnlyKeeps ==
  ASSUME NEW S, NEW s \in Seq(S), NEW some
  PROVE  /\ Only(s, some) \in Seq(S)
         /\ Len(Only(s, some)) = Cardinality(At(s, some))
         /\ Len(Only(s, some)) <= Len(s)
         /\ ToSet(Only(s, some)) = ToSet(s) \cap some
         /\ Distinct(s) => Distinct(Only(s, some))
<1> DEFINE at == {k \in DOMAIN s : s[k] \in some}
           pos(n) == CHOOSE k \in at : Rank(at, k) = n
<1>1. IsFiniteSet(at) /\ at \subseteq Nat /\ Cardinality(at) <= Len(s)
  <2>1. at \in SUBSET DOMAIN s
    OBVIOUS
  <2> QED
    BY <2>1, Positions
<1>2. Only(s, some) = [n \in 1..Cardinality(at) |-> s[pos(n)]]
  BY DEF Only, Rank
<1>3. \A k \in at : k \in DOMAIN s /\ s[k] \in S /\ s[k] \in some
  OBVIOUS
<1>4. \A k \in DOMAIN s : s[k] \in some => k \in at
  OBVIOUS
<1> HIDE DEF at
<1>5. /\ Cardinality(at) \in Nat
      /\ \A n \in 1..Cardinality(at) : pos(n) \in at /\ Rank(at, pos(n)) = n
      /\ \A k \in at : Rank(at, k) \in 1..Cardinality(at) /\ pos(Rank(at, k)) = k
  BY <1>1, RankOf
<1> HIDE DEF pos
<1>6. Only(s, some) \in Seq(S) /\ Len(Only(s, some)) = Cardinality(at)
  BY <1>2, <1>3, <1>5
<1>7. ToSet(Only(s, some)) = ToSet(s) \cap some
  <2>1. DOMAIN Only(s, some) = 1..Cardinality(at)
    BY <1>2
  <2>2. ASSUME NEW n \in 1..Cardinality(at) PROVE Only(s, some)[n] \in ToSet(s) \cap some
    BY <1>2, <1>3, <1>5, <2>2 DEF ToSet
  <2>3. ASSUME NEW k \in DOMAIN s, s[k] \in some
        PROVE  \E n \in 1..Cardinality(at) : Only(s, some)[n] = s[k]
    BY <1>2, <1>4, <1>5, <2>3
  <2> QED
    BY <2>1, <2>2, <2>3 DEF ToSet
<1>8. ASSUME Distinct(s) PROVE Distinct(Only(s, some))
  BY <1>2, <1>3, <1>5, <1>8 DEF Distinct
<1> QED
  BY <1>1, <1>6, <1>7, <1>8 DEF at, At

-----------------------------------------------------------------------------
(* Who serves which item.                                                  *)

QueueType ==
  /\ hashSeq \in 0..MaxItems
  /\ hashQueue \in Seq(1..hashSeq) /\ Distinct(hashQueue)
  /\ workers \in Seq(1..hashSeq) /\ Distinct(workers) /\ Len(workers) <= MaxHashJobs
  /\ pump \in 0..Len(workers) + 1 /\ drained \in BOOLEAN

\* A worker's item has been started, and an item that was started and not dropped has one.
ServedOK ==
  \A i \in Item : /\ i \in ToSet(workers) => status[i] # "queued"
                  /\ status[i] = "hashing" /\ Queued(i) => i \in ToSet(workers)
                  /\ child[i] # "none" => i \in ToSet(workers)

ServiceInv == HashInv /\ QueueType /\ ServedOK

\* Queued, by the set of the queue's elements.
LEMMA QueuedIsIn == \A i : Queued(i) <=> i \in ToSet(hashQueue)
BY DEF Queued, ToSet

\* Items have a number, up to the last one given.
LEMMA Numbered ==
  ASSUME QueueType
  PROVE  /\ 1..hashSeq \subseteq Item /\ hashSeq \in Nat /\ MaxItems \in Nat
         /\ ToSet(workers) \subseteq 1..hashSeq /\ ToSet(hashQueue) \subseteq 1..hashSeq
BY HashAssumption DEF QueueType, Item, ToSet

\* There are at most as many children as workers.
LEMMA ServiceIsOne == ServiceInv => HashTypeOK /\ OneWorkerEach
<1> SUFFICES ASSUME ServiceInv PROVE HashTypeOK /\ OneWorkerEach
  OBVIOUS
<1>1. HashTypeOK
  <2>1. workers \in Seq(Item)
    BY Numbered DEF ServiceInv, QueueType
  <2> QED
    BY <2>1 DEF ServiceInv, QueueType, HashInv, ItemsOK, HashTypeOK
<1>2. Cardinality({i \in Item : child[i] \in {"work", "return"}}) <= MaxHashJobs
  <2> DEFINE busy == {i \in Item : child[i] \in {"work", "return"}}
             at   == {k \in DOMAIN workers : child[workers[k]] \in {"work", "return"}}
  <2>1. busy \subseteq {workers[k] : k \in at}
    BY DEF ServiceInv, ServedOK, ToSet
  <2>2. IsFiniteSet(at) /\ Cardinality(at) <= Len(workers) /\ Cardinality(at) \in Nat
    <3>1. at \in SUBSET DOMAIN workers
      OBVIOUS
    <3> QED
      BY <3>1, Positions, FS_CardinalityType DEF ServiceInv, QueueType
  <2> DEFINE f == [k \in at |-> workers[k]]
  <2>3. f \in Surjection(at, busy)
    <3>1. \A k \in at : workers[k] \in busy
      BY Numbered DEF ServiceInv, ToSet
    <3> QED
      BY <2>1, <3>1 DEF Surjection
  <2>4. IsFiniteSet(busy) /\ Cardinality(busy) <= Cardinality(at)
    BY <2>2, <2>3, FS_Surjection
  <2>5. Cardinality(busy) \in Nat
    BY <2>4, FS_CardinalityType
  <2>6. Len(workers) \in Nat /\ Len(workers) <= MaxHashJobs /\ MaxHashJobs \in Nat
    BY HashAssumption DEF ServiceInv, QueueType
  <2> HIDE DEF busy, at
  <2>7. Cardinality(busy) <= MaxHashJobs
    BY <2>2, <2>4, <2>5, <2>6
  <2> QED
    BY <2>7 DEF busy
<1>3. OneWorkerEach
  BY <1>2 DEF ServiceInv, QueueType, Distinct, ServedOK, OneWorkerEach
<1> QED
  BY <1>1, <1>3

-----------------------------------------------------------------------------
\* A new item has a new number.
LEMMA EnqueueServed == ASSUME ServiceInv, EnqueueHash PROVE QueueType' /\ ServedOK'
<1>1. /\ hashSeq' = hashSeq + 1 /\ hashSeq < MaxItems
      /\ hashQueue' = Append(hashQueue, hashSeq')
      /\ status' = [status EXCEPT ![hashSeq'] = "queued"]
      /\ UNCHANGED <<workers, child, pump, drained>>
  BY DEF EnqueueHash, childVars
<1>2. /\ hashSeq \in Nat /\ MaxItems \in Nat
      /\ \A k \in DOMAIN hashQueue : hashQueue[k] \in 1..hashSeq
      /\ \A k \in DOMAIN workers : workers[k] \in 1..hashSeq
      /\ 1..hashSeq \subseteq 1..hashSeq'
      /\ hashSeq' \notin 1..hashSeq /\ hashSeq' \in Item
  <2>1. hashSeq \in Nat /\ MaxItems \in Nat
    BY Numbered DEF ServiceInv
  <2>2. \A k \in DOMAIN hashQueue : hashQueue[k] \in 1..hashSeq
    BY DEF ServiceInv, QueueType
  <2>3. \A k \in DOMAIN workers : workers[k] \in 1..hashSeq
    BY DEF ServiceInv, QueueType
  <2>4. 1..hashSeq \subseteq 1..hashSeq' /\ hashSeq' \notin 1..hashSeq /\ hashSeq' \in Item
    BY <1>1, <2>1 DEF Item
  <2> QED
    BY <2>1, <2>2, <2>3, <2>4
<1>3. QueueType'
  <2>1. hashQueue \in Seq(1..hashSeq') /\ workers \in Seq(1..hashSeq')
    BY <1>2, SeqGrows DEF ServiceInv, QueueType
  <2>2. hashQueue' \in Seq(1..hashSeq') /\ hashSeq' \in 0..MaxItems
    BY <1>1, <1>2, <2>1
  <2>3. Distinct(hashQueue')
    <3>1. /\ DOMAIN hashQueue' = DOMAIN hashQueue \cup {Len(hashQueue) + 1}
          /\ \A k \in DOMAIN hashQueue : hashQueue'[k] = hashQueue[k]
          /\ hashQueue'[Len(hashQueue) + 1] = hashSeq'
      BY <1>1, <2>1
    <3> QED
      BY <1>2, <3>1 DEF ServiceInv, QueueType, Distinct
  <2> QED
    BY <1>1, <2>1, <2>2, <2>3 DEF ServiceInv, QueueType
<1>4. ASSUME NEW i \in Item
      PROVE  /\ i \in ToSet(workers') => status'[i] # "queued"
             /\ status'[i] = "hashing" /\ Queued(i)' => i \in ToSet(workers')
             /\ child'[i] # "none" => i \in ToSet(workers')
  <2>1. CASE i = hashSeq'
    <3>1. status'[i] = "queued" /\ i \notin ToSet(workers) /\ child[i] = "none"
      BY <1>1, <1>2, <2>1 DEF ServiceInv, HashInv, ItemsOK, FreshOK, Untouched, ToSet
    <3> QED
      BY <1>1, <3>1
  <2>2. CASE i # hashSeq'
    <3>1. status'[i] = status[i]
      BY <1>1, <2>2 DEF ServiceInv, HashInv, ItemsOK
    <3>2. Queued(i)' => Queued(i)
      BY <1>1, <1>2, <2>2 DEF Queued, ServiceInv, QueueType
    <3> QED
      BY <1>1, <3>1, <3>2 DEF ServiceInv, ServedOK
  <2> QED
    BY <2>1, <2>2
<1> QED
  BY <1>3, <1>4 DEF ServedOK

\* Removal starts nothing, and an item that stays queued keeps its worker.
LEMMA RemoveServed == ASSUME ServiceInv, NEW gone, HashRemove(gone) PROVE QueueType' /\ ServedOK'
<1>1. /\ hashQueue' = Only(hashQueue, Item \ gone)
      /\ \A i \in Item : status'[i] \in {"none", status[i]}
      /\ UNCHANGED <<hashSeq, workers, child, pump, drained>>
  BY DEF HashRemove, childVars
<1>2. /\ hashQueue' \in Seq(1..hashSeq) /\ Distinct(hashQueue')
      /\ ToSet(hashQueue') \subseteq ToSet(hashQueue)
  <2>1. hashQueue \in Seq(1..hashSeq) /\ Distinct(hashQueue)
    BY DEF ServiceInv, QueueType
  <2> DEFINE rest == Only(hashQueue, Item \ gone)
  <2>2. /\ rest \in Seq(1..hashSeq) /\ Distinct(rest)
        /\ ToSet(rest) = ToSet(hashQueue) \cap (Item \ gone)
    BY <2>1, OnlyKeeps
  <2>3. hashQueue' = rest
    BY <1>1
  <2> HIDE DEF rest
  <2> QED
    BY <2>2, <2>3 DEF Distinct, ToSet
<1>3. QueueType'
  BY <1>1, <1>2 DEF ServiceInv, QueueType
<1>4. \A i : Queued(i)' => Queued(i)
  BY <1>2 DEF Queued, ToSet
<1> QED
  BY <1>1, <1>3, <1>4 DEF ServiceInv, ServedOK

\* What a child, a reader or a poll does leaves the queue and the workers alone.
LEMMA OthersServed ==
  ASSUME ServiceInv, UNCHANGED <<hashSeq, hashQueue, workers>>,
         pump' \in 0..Len(workers) + 1, drained' \in BOOLEAN,
         \A i \in Item : /\ status'[i] # status[i] => status'[i] \in {"succeeded", "failed"}
                         /\ child'[i] # "none" => child[i] # "none"
  PROVE  QueueType' /\ ServedOK'
<1>1. \A i : Queued(i)' <=> Queued(i)
  BY DEF Queued
<1> QED
  BY <1>1 DEF ServiceInv, QueueType, ServedOK

\* ... so do these.
LEMMA ChildServed ==
  ASSUME ServiceInv, NEW i \in Item, ChildWorks(i) \/ ChildExits(i) \/ HashReader(i)
  PROVE  QueueType' /\ ServedOK'
<1>1. /\ UNCHANGED <<hashSeq, hashQueue, workers, status, pump, drained>>
  BY DEF ChildWorks, ChildExits, HashReader
<1>2. \A j \in Item : child'[j] # "none" => child[j] # "none"
  BY DEF ChildWorks, ChildExits, HashReader, ServiceInv, HashInv, ItemsOK
<1> QED
  BY <1>1, <1>2, OthersServed DEF ServiceInv, QueueType

\* A poll decides an item or leaves it.
LEMMA PollServed ==
  ASSUME ServiceInv, PumpHash \/ PollDrain \/ PollAlive PROVE QueueType' /\ ServedOK'
<1>1. UNCHANGED <<hashSeq, hashQueue, workers, child>>
  BY DEF PumpHash, PollDrain, PollAlive, childVars
<1>2. Len(workers) \in Nat /\ pump \in 0..Len(workers) + 1 /\ drained \in BOOLEAN
  BY DEF ServiceInv, QueueType
<1>3. drained' \in BOOLEAN
  BY <1>2, Zenon DEF PumpHash, PollDrain, PollAlive
<1>4. pump' \in 0..Len(workers) + 1
  <2>1. CASE PumpHash
    BY <1>2, <2>1 DEF PumpHash
  <2>2. CASE PollDrain
    <3>1. pump' = pump
      BY <2>2, Zenon DEF PollDrain
    <3> QED
      BY <1>2, <3>1
  <2>3. CASE PollAlive
    <3>1. pump' = pump + 1 /\ pump \in 1..Len(workers)
      BY <2>3, Zenon DEF PollAlive, AtWorker
    <3> QED
      BY <1>2, <3>1
  <2> QED
    BY <2>1, <2>2, <2>3
<1>5. \A i \in Item : status'[i] # status[i] => status'[i] \in {"succeeded", "failed"}
  <2>1. CASE UNCHANGED status
    BY <2>1
  <2>2. CASE PollAlive
    BY <2>2 DEF PollAlive, ServiceInv, HashInv, ItemsOK
  <2> QED
    BY <2>1, <2>2 DEF PumpHash, PollDrain
<1> QED
  BY <1>1, <1>3, <1>4, <1>5, OthersServed

\* The items of a sequence without duplicates that few enough others are ahead of are few.
LEMMA RoomForAll ==
  ASSUME QueueType, NEW room \in Nat,
         NEW begun \in SUBSET Waiting,
         \A i \in begun : Cardinality(Ahead(Waiting, i)) < room
  PROVE  Cardinality(At(hashQueue, begun)) <= room
<1> DEFINE at == {k \in DOMAIN hashQueue : hashQueue[k] \in begun}
           all == {k \in DOMAIN hashQueue : hashQueue[k] \in Waiting}
           before(k) == Ahead(Waiting, hashQueue[k])
<1>1. IsFiniteSet(Waiting)
  <2>1. IsFiniteSet(1..hashSeq) /\ Waiting \in SUBSET (1..hashSeq)
    BY Numbered, UpTo DEF Waiting
  <2> QED
    BY <2>1, FS_Subset
<1>2. \A k \in at : before(k) \in SUBSET Waiting
  BY DEF Ahead
<1>3. \A k \in at : IsFiniteSet(before(k)) /\ Cardinality(before(k)) \in Nat
  BY <1>1, <1>2, FS_Subset, FS_CardinalityType
<1>4. ASSUME NEW j \in at, NEW k \in at, j < k
      PROVE  Cardinality(before(j)) # Cardinality(before(k))
  <2>1. DOMAIN hashQueue \subseteq Nat /\ Distinct(hashQueue)
    BY DEF QueueType
  <2>2. before(j) \in SUBSET before(k)
    <3> SUFFICES ASSUME NEW x \in before(j) PROVE x \in before(k)
      OBVIOUS
    <3>1. PICK m, n \in DOMAIN hashQueue : m < n /\ hashQueue[m] = x /\ hashQueue[n] = hashQueue[j]
      BY DEF Ahead
    <3>2. n = j /\ m < k
      BY <1>4, <2>1, <3>1 DEF Distinct
    <3> QED
      BY <3>1, <3>2 DEF Ahead
  <2>3. hashQueue[j] \in before(k)
    BY <1>4 DEF Ahead
  <2>4. hashQueue[j] \notin before(j)
    <3> SUFFICES ASSUME NEW m \in DOMAIN hashQueue, NEW n \in DOMAIN hashQueue, m < n,
                        hashQueue[m] = hashQueue[j], hashQueue[n] = hashQueue[j]
                 PROVE  FALSE
      BY DEF Ahead
    <3> QED
      BY <2>1 DEF Distinct
  <2> HIDE DEF before
  <2> QED
    BY <1>3, <2>2, <2>3, <2>4, FS_Subset
<1>5. \A j, k \in at : Cardinality(before(j)) = Cardinality(before(k)) => j = k
  <2>1. \A j, k \in at : j = k \/ j < k \/ k < j
    BY DEF QueueType
  <2> QED
    BY <1>4, <2>1
<1>6. \A k \in at : Cardinality(before(k)) \in 1..room \cup {0} /\ Cardinality(before(k)) < room
  BY <1>3
<1> DEFINE f == [k \in at |-> Cardinality(before(k)) + 1]
<1> HIDE DEF before
<1>7. f \in Injection(at, 1..room)
  <2>1. \A k \in at : f[k] \in 1..room
    BY <1>3, <1>6
  <2>2. \A j, k \in at : f[j] = f[k] => j = k
    BY <1>3, <1>5
  <2> QED
    BY <2>1, <2>2 DEF Injection, IsInjective
<1>8. Cardinality(at) <= room
  BY <1>7, UpTo, FS_Injection
<1> QED
  BY <1>8 DEF At

\* Those that are started had no worker, and there are as many as there is room for.
LEMMA PumpStartServed == ASSUME ServiceInv, PumpStart PROVE QueueType' /\ ServedOK'
<1> DEFINE kept  == Only(workers, Item \ Dropped)
           begun == StartedNow(kept)
           fresh == Only(hashQueue, begun)
<1>1. PICK failing \in SUBSET begun :
        /\ workers' = kept \o fresh
        /\ status' = [i \in Item |-> IF i \in begun THEN "hashing" ELSE status[i]]
        /\ child' = [i \in Item |-> IF i \in Dropped THEN "none"
                                    ELSE IF i \in begun \ failing THEN "work" ELSE child[i]]
  BY Zenon DEF PumpStart
<1>2. UNCHANGED <<hashSeq, hashQueue, drained>> /\ pump' = 0
  BY DEF PumpStart
<1>3. /\ kept \in Seq(1..hashSeq) /\ Len(kept) <= Len(workers) /\ Distinct(kept)
      /\ ToSet(kept) = ToSet(workers) \cap (Item \ Dropped)
  BY OnlyKeeps DEF ServiceInv, QueueType
<1>4. /\ fresh \in Seq(1..hashSeq) /\ Distinct(fresh)
      /\ ToSet(fresh) = ToSet(hashQueue) \cap begun
      /\ Len(fresh) = Cardinality(At(hashQueue, begun))
  <2> HIDE DEF begun
  <2>1. hashQueue \in Seq(1..hashSeq) /\ Distinct(hashQueue)
    BY DEF ServiceInv, QueueType
  <2>2. /\ fresh \in Seq(1..hashSeq) /\ Distinct(fresh)
        /\ ToSet(fresh) = ToSet(hashQueue) \cap begun
    BY <2>1, OnlyKeeps
  <2>3. Len(fresh) = Cardinality(At(hashQueue, begun))
    BY <2>1, OnlyKeeps
  <2> QED
    BY <2>2, <2>3
<1> HIDE DEF kept
<1>5. begun \in SUBSET Waiting
  BY DEF StartedNow
<1>6. Len(kept) \in Nat /\ Len(workers) \in Nat /\ MaxHashJobs \in Nat /\ Len(kept) <= MaxHashJobs
  BY <1>3, HashAssumption DEF ServiceInv, QueueType
<1>7. Len(fresh) <= MaxHashJobs - Len(kept)
  <2> DEFINE room == MaxHashJobs - Len(kept)
  <2>1. room \in Nat
    BY <1>6
  <2>2. \A i \in begun : Cardinality(Ahead(Waiting, i)) < room
    <3>1. IsFiniteSet(Waiting)
      <4>1. IsFiniteSet(1..hashSeq) /\ Waiting \in SUBSET (1..hashSeq)
        BY Numbered, UpTo DEF Waiting, ServiceInv
      <4> QED
        BY <4>1, FS_Subset
    <3>2. \A i \in begun : Cardinality(Ahead(Waiting, i)) \in Nat
      <4>1. \A i \in begun : Ahead(Waiting, i) \in SUBSET Waiting
        BY DEF Ahead
      <4> QED
        BY <3>1, <4>1, FS_Subset, FS_CardinalityType
    <3> QED
      BY <1>6, <3>2 DEF StartedNow
  <2> HIDE DEF room, begun
  <2>3. Cardinality(At(hashQueue, begun)) <= room
    BY <1>5, <2>1, <2>2, RoomForAll DEF ServiceInv
  <2> QED
    BY <1>4, <2>3 DEF room
<1> HIDE DEF begun, fresh
<1>8. \A i \in begun : status[i] = "queued" /\ i \in ToSet(hashQueue) /\ i \in Item
  BY <1>5, Numbered DEF Waiting, ServiceInv
<1>9. ToSet(kept) \cap ToSet(fresh) = {}
  BY <1>3, <1>4, <1>8 DEF ServiceInv, ServedOK
<1>10. /\ workers' \in Seq(1..hashSeq) /\ Len(workers') = Len(kept) + Len(fresh)
       /\ \A k \in DOMAIN workers' :
            \/ k \in DOMAIN kept /\ workers'[k] = kept[k]
            \/ k - Len(kept) \in DOMAIN fresh /\ workers'[k] = fresh[k - Len(kept)]
       /\ \A k \in DOMAIN kept : k \in DOMAIN workers' /\ workers'[k] = kept[k]
       /\ \A k \in DOMAIN fresh : k + Len(kept) \in DOMAIN workers' /\ workers'[k + Len(kept)] = fresh[k]
  <2>1. PICK n \in Nat : n = Len(kept) /\ DOMAIN kept = 1..n
    BY <1>3
  <2>2. PICK m \in Nat : m = Len(fresh) /\ DOMAIN fresh = 1..m
    <3>1. fresh \in Seq(1..hashSeq)
      BY <1>4
    <3>2. Len(fresh) \in Nat /\ DOMAIN fresh = 1..Len(fresh)
      BY <3>1
    <3> QED
      BY <3>2
  <2>3. kept \o fresh \in Seq(1..hashSeq)
    BY <1>3, <1>4
  <2>4. /\ Len(kept \o fresh) = n + m /\ DOMAIN (kept \o fresh) = 1..(n + m)
        /\ \A k \in 1..(n + m) : (kept \o fresh)[k] = IF k <= n THEN kept[k] ELSE fresh[k - n]
    <3>1. kept \in Seq(1..hashSeq) /\ fresh \in Seq(1..hashSeq)
      BY <1>3, <1>4
    <3> QED
      BY <2>1, <2>2, <3>1
  <2>5. \A k \in 1..(n + m) : (k \in 1..n /\ k <= n) \/ (k - n \in 1..m /\ ~(k <= n))
    OBVIOUS
  <2>6. \A k \in 1..m : k + n \in 1..(n + m) /\ ~(k + n <= n) /\ k + n - n = k
    OBVIOUS
  <2>7. \A k \in 1..n : k \in 1..(n + m) /\ k <= n
    OBVIOUS
  <2> QED
    BY <1>1, <2>1, <2>2, <2>3, <2>4, <2>5, <2>6, <2>7
<1>11. ToSet(workers') = ToSet(kept) \cup ToSet(fresh)
  BY <1>10 DEF ToSet
<1>12. Distinct(workers')
  <2> SUFFICES ASSUME NEW j \in DOMAIN workers', NEW k \in DOMAIN workers', workers'[j] = workers'[k]
               PROVE  j = k
    BY DEF Distinct
  <2>1. \A m \in DOMAIN kept : kept[m] \in ToSet(kept)
    BY DEF ToSet
  <2>2. \A m \in DOMAIN fresh : fresh[m] \in ToSet(fresh)
    BY DEF ToSet
  <2>3. CASE j \in DOMAIN kept /\ workers'[j] = kept[j]
    BY <1>3, <1>9, <1>10, <2>1, <2>2, <2>3 DEF Distinct
  <2>4. CASE j - Len(kept) \in DOMAIN fresh /\ workers'[j] = fresh[j - Len(kept)]
    <3>1. k - Len(kept) \in DOMAIN fresh /\ workers'[k] = fresh[k - Len(kept)]
      BY <1>9, <1>10, <2>1, <2>2, <2>4
    <3>2. j - Len(kept) = k - Len(kept)
      BY <1>4, <2>4, <3>1 DEF Distinct
    <3>3. j \in Nat /\ k \in Nat
      BY <1>10
    <3> QED
      BY <1>6, <3>2, <3>3
  <2> QED
    BY <1>10, <2>3, <2>4
<1>13. QueueType'
  <2>1. Len(fresh) \in Nat
    BY <1>4
  <2>2. Len(workers') <= MaxHashJobs /\ Len(workers') \in Nat
    BY <1>6, <1>7, <1>10, <2>1
  <2>3. pump' \in 0..Len(workers') + 1
    BY <1>2, <2>2
  <2> QED
    BY <1>2, <1>10, <1>12, <2>2, <2>3 DEF ServiceInv, QueueType
<1>14. ASSUME NEW i \in Item
       PROVE  /\ i \in ToSet(workers') => status'[i] # "queued"
              /\ status'[i] = "hashing" /\ Queued(i)' => i \in ToSet(workers')
              /\ child'[i] # "none" => i \in ToSet(workers')
  <2>1. Queued(i)' <=> Queued(i)
    BY <1>2 DEF Queued
  <2>2. Queued(i) <=> i \in ToSet(hashQueue)
    BY QueuedIsIn
  <2>3. /\ i \in ToSet(workers) => status[i] # "queued"
        /\ status[i] = "hashing" /\ Queued(i) => i \in ToSet(workers)
        /\ child[i] # "none" => i \in ToSet(workers)
    BY DEF ServiceInv, ServedOK
  <2>4. i \in Dropped <=> i \in ToSet(workers) /\ (~Queued(i) \/ Decided(i))
    BY DEF Dropped
  <2>5. /\ status'[i] = IF i \in begun THEN "hashing" ELSE status[i]
        /\ child'[i] = IF i \in Dropped THEN "none"
                       ELSE IF i \in begun \ failing THEN "work" ELSE child[i]
    BY <1>1
  <2>6. CASE i \in begun
    BY <1>4, <1>8, <1>11, <2>5, <2>6
  <2>7. CASE i \notin begun
    BY <1>3, <1>4, <1>11, <2>1, <2>3, <2>4, <2>5, <2>7 DEF Decided
  <2> QED
    BY <2>6, <2>7
<1> QED
  BY <1>13, <1>14 DEF ServedOK

\* Every step keeps it so.
LEMMA NextServed == ServiceInv /\ [HashNext]_hashVars => ServiceInv'
<1> SUFFICES ASSUME ServiceInv, [HashNext]_hashVars PROVE ServiceInv'
  OBVIOUS
<1>1. HashInv'
  BY NextHash DEF ServiceInv
<1>2. CASE UNCHANGED hashVars
  <2>1. \A i : Queued(i)' <=> Queued(i)
    BY <1>2 DEF Queued, hashVars
  <2> QED
    BY <1>1, <1>2, <2>1 DEF ServiceInv, QueueType, ServedOK, hashVars, childVars
<1>3. CASE HashNext
  BY <1>1, <1>3, EnqueueServed, RemoveServed, ChildServed, PollServed, PumpStartServed
  DEF HashNext, Pump, ServiceInv
<1> QED
  BY <1>2, <1>3

\* Initially nobody serves anything.
LEMMA InitServed == HashInit => ServiceInv
<1> SUFFICES ASSUME HashInit PROVE ServiceInv
  OBVIOUS
<1>1. HashInv
  BY InitHash
<1>2. QueueType
  <2>1. /\ hashSeq = 0 /\ hashQueue = <<>> /\ workers = <<>> /\ pump = 0 /\ drained = FALSE
        /\ MaxItems \in Nat /\ MaxHashJobs \in Nat
    BY HashAssumption DEF HashInit
  <2>2. PICK s \in Seq(1..0) : s = <<>> /\ Len(s) = 0 /\ DOMAIN s = {}
    <3>1. <<>> \in Seq(1..0) /\ Len(<<>>) = 0 /\ DOMAIN <<>> = {}
      BY EmptySeq
    <3> QED
      BY <3>1
  <2>3. hashQueue \in Seq(1..hashSeq) /\ DOMAIN hashQueue = {}
    BY <2>1, <2>2
  <2>4. workers \in Seq(1..hashSeq) /\ DOMAIN workers = {} /\ Len(workers) = 0
    BY <2>1, <2>2
  <2>5. Distinct(hashQueue) /\ Distinct(workers)
    BY <2>3, <2>4 DEF Distinct
  <2>6. drained \in BOOLEAN
    BY <2>1, Zenon
  <2>7. pump \in 0..Len(workers) + 1 /\ Len(workers) <= MaxHashJobs /\ hashSeq \in 0..MaxItems
    BY <2>1, <2>4
  <2> QED
    BY <2>3, <2>4, <2>5, <2>6, <2>7 DEF QueueType
<1>3. ServedOK
  BY DEF HashInit, ServedOK, ToSet, Queued
<1> QED
  BY <1>1, <1>2, <1>3 DEF ServiceInv

\* Workers serve items that were started, one each, and no more children than max_hash_jobs
\* run: however many items are queued, removed and decided while others are hashed.
THEOREM OneWorkerPerItem == HashSpec => []OneWorkerEach
BY InitServed, NextServed, ServiceIsOne, PTL DEF HashSpec

\* Every variable keeps its type, the pump's place among the workers included.
THEOREM HashTypes == HashSpec => []HashTypeOK
BY InitServed, NextServed, ServiceIsOne, PTL DEF HashSpec

=============================================================================
