------------------------ MODULE TransferContentProofs ------------------------
(* Proofs of what TransferScheduler promises about contents, for any files *)
(* and settings: what a state file claims is in the target, a target that  *)
(* counts as transferred is complete, nothing is truncated under another   *)
(* chunk, and the queue implements ResumableCopy.                          *)
EXTENDS TransferSchedulerProofs

\* No choice of the user switches between a single stream and several channels.  Without
\* it the claims are not sound: see the run `rechunk'.
Steady == \A l, m \in Limits : l.conn = 1 <=> m.conn = 1

\* The items that are transferred in chunks.
Chunked(i) == Parts[i] > 1 /\ \A l \in Limits : l.conn > 1

InJob(s) == HasJob(s[1]) /\ s[2] <= split[s[1]]

\* A job has its chunks, and a state file if there is more than one.
SplitOK(i) ==
  /\ split[i] = IF HasJob(i) /\ Chunked(i) THEN Parts[i] ELSE 1
  /\ ledger[i] # "none" => Chunked(i)
  /\ Parallel(i) => ledger[i] # "none"

\* What a worker has said of itself.
WorkerOK(s) ==
  /\ proc[s].sent <= proc[s].wrote
  /\ ~proc[s].info => proc[s].wrote = 0
  /\ proc[s].stage = "open" => proc[s].info
  /\ proc[s].alive /\ proc[s].stage \in {"handshake", "authed", "sent"} => ~proc[s].info
  /\ proc[s].stage \in {"none", "nolaunch"} => ~proc[s].alive
  /\ proc[s].init => /\ s[1] \in Upload /\ s[2] = 1
                     /\ Parallel(s[1]) /\ ~resume[s[1]]
                     /\ proc[s].alive /\ ~proc[s].info => ~slot[s].opened

\* A new parallel upload whose leader has not opened the target, as far as the UI knows.
Opening(i) == i \in Upload /\ Parallel(i) /\ ~resume[i] /\ ~slot[Leader(i)].opened

\* Until then nothing else is done.
LeaderFirst(s) ==
  Opening(s[1]) => /\ claim[s] = 0 /\ slot[s].done = 0 /\ slot[s].base = 0
                   /\ slot[s].phase # "succeeded"
                   /\ s[2] > 1 => proc[s] = NoProc

\* The target has what chunk s stands for.
Complete(s) ==
  \A t \in Slot : t[1] = s[1] /\ (t = s \/ ~Parallel(s[1])) => data[t] = PartSize

\* What a chunk counts as done is in the target.
DoneOK(s) ==
  /\ ~InJob(s) => slot[s].phase = "idle"
  /\ Parallel(s[1]) => /\ slot[s].done <= data[s]
                       /\ slot[s].base + proc[s].wrote <= data[s]
  /\ slot[s].phase = "succeeded" => Complete(s)
  /\ proc[s].stage = "ok" => Complete(s)

\* The units of chunk t among the first n units of the file.
Within(n, t) ==
  IF n <= (t[2] - 1) * PartSize THEN 0
  ELSE IF n >= t[2] * PartSize THEN PartSize ELSE n - (t[2] - 1) * PartSize

\* A single stream writes the file from its beginning.
StreamOK(s) ==
  proc[s].stage = "open" /\ ~Parallel(s[1]) =>
    \A t \in Slot : t[1] = s[1] => data[t] = Within(proc[s].wrote, t)

\* What the next session relies on, and what the user is told.
StoredOK(s) ==
  /\ ledger[s[1]] # "none" => claim[s] <= data[s]
  /\ status[s[1]] = "succeeded" => data[s] = PartSize

ChunkOK(s) == WorkerOK(s) /\ LeaderFirst(s) /\ DoneOK(s) /\ StreamOK(s) /\ StoredOK(s)

Content == (\A i \in Item : SplitOK(i)) /\ \A s \in Slot : ChunkOK(s)
CInv == Inv /\ Steady /\ Content

-----------------------------------------------------------------------------
(* Steps that leave the contents alone.                                    *)

\* Every item has a first chunk, and every chunk belongs to an item.
LEMMA Chunks ==
  /\ \A i \in Item : Leader(i) \in Slot /\ Leader(i)[1] = i /\ Leader(i)[2] = 1
  /\ \A s \in Slot : s[1] \in Item /\ s[2] \in 1..Parts[s[1]] /\ s = <<s[1], s[2]>>
<1>1. \A i \in Item : Parts[i] \in 1..MaxParts
  BY ConstantTypes
<1>2. \A i \in Item : <<i, 1>> \in Slot
  BY <1>1, ConstantTypes DEF Slot
<1> QED
  BY <1>1, <1>2, ConstantTypes DEF Slot, Leader

\* Nothing of item i changes that the invariant is about.
SameItem(i) ==
  /\ HasJob(i)' <=> HasJob(i)
  /\ split'[i] = split[i] /\ resume'[i] = resume[i] /\ ledger'[i] = ledger[i]
  /\ status'[i] = "succeeded" => status[i] = "succeeded"
  /\ \A s \in Slot : s[1] = i =>
       slot'[s] = slot[s] /\ proc'[s] = proc[s] /\ claim'[s] = claim[s] /\ data'[s] = data[s]

\* The items that a step is about; the others stay as they are.
LEMMA Others ==
  ASSUME Content, NEW I \in SUBSET Item, \A i \in Item \ I : SameItem(i),
         \A i \in I : SplitOK(i)', \A s \in Slot : s[1] \in I => ChunkOK(s)'
  PROVE  Content'
<1>1. ASSUME NEW i \in Item \ I PROVE SplitOK(i)'
  BY <1>1 DEF Content, SameItem, SplitOK, Parallel
<1>2. ASSUME NEW s \in Slot, s[1] \notin I PROVE ChunkOK(s)'
  <2>1. /\ SameItem(s[1]) /\ ChunkOK(s)
        /\ slot'[s] = slot[s] /\ proc'[s] = proc[s] /\ claim'[s] = claim[s]
        /\ data'[s] = data[s]
        /\ slot'[Leader(s[1])] = slot[Leader(s[1])]
    BY <1>2, Chunks DEF Content, SameItem
  <2>2. WorkerOK(s)' /\ LeaderFirst(s)' /\ StoredOK(s)'
    BY <2>1 DEF SameItem, ChunkOK, WorkerOK, LeaderFirst, Opening, StoredOK, Parallel
  <2>3. DoneOK(s)' /\ StreamOK(s)'
    BY <2>1 DEF SameItem, ChunkOK, DoneOK, InJob, Complete, StreamOK, Within, Parallel
  <2> QED
    BY <2>2, <2>3 DEF ChunkOK
<1>3. \A i \in Item : SplitOK(i)'
  BY <1>1
<1>4. \A s \in Slot : ChunkOK(s)'
  BY <1>2
<1> QED
  BY <1>3, <1>4 DEF Content

\* Steps that are about the queue, the pool or the pump only.
LEMMA QueueStep ==
  ASSUME Content, UNCHANGED <<jobs, split, resume, slot, proc, fileVars, data>>,
         \A i \in Item : status'[i] = "succeeded" => status[i] = "succeeded"
  PROVE  Content'
<1>1. \A i \in Item : SameItem(i)
  BY DEF SameItem, HasJob, fileVars
<1> DEFINE none == {}
<1>2. none \in SUBSET Item /\ Item \ none = Item /\ \A x : x \notin none
  OBVIOUS
<1> HIDE DEF none
<1> QED
  BY <1>1, <1>2, Others

\* Steps that are about item i only.
LEMMA OneItem ==
  ASSUME Content, NEW i \in Item, \A j \in Item : j # i => SameItem(j),
         SplitOK(i)', \A s \in Slot : s[1] = i => ChunkOK(s)'
  PROVE  Content'
<1> DEFINE one == {i}
<1>1. one \in SUBSET Item /\ (\A j \in Item \ one : j # i) /\ \A j : j \in one <=> j = i
  OBVIOUS
<1> HIDE DEF one
<1>2. \A j \in one : SplitOK(j)'
  BY <1>1
<1>3. \A s \in Slot : s[1] \in one => ChunkOK(s)'
  BY <1>1
<1> QED
  BY <1>1, <1>2, <1>3, Others

\* Steps that move chunks between phases, short of success.
LEMMA PhaseStep ==
  ASSUME CInv, UNCHANGED <<status, jobs, split, resume, proc, fileVars, data>>,
         \A s \in Slot :
           /\ slot'[s].done = slot[s].done /\ slot'[s].base = slot[s].base
           /\ slot'[s].opened = slot[s].opened
           /\ slot'[s].phase = slot[s].phase \/ (InJob(s) /\ slot'[s].phase # "succeeded")
  PROVE  Content'
<1>1. \A i \in Item : SplitOK(i)'
  BY DEF CInv, Content, SplitOK, HasJob, Parallel, fileVars
<1>2. ASSUME NEW s \in Slot PROVE ChunkOK(s)'
  <2>1. ChunkOK(s) /\ slot'[Leader(s[1])].opened = slot[Leader(s[1])].opened
    BY Chunks DEF CInv, Content
  <2>2. WorkerOK(s)' /\ LeaderFirst(s)' /\ StoredOK(s)'
    BY <2>1 DEF ChunkOK, WorkerOK, LeaderFirst, Opening, StoredOK, Parallel, fileVars
  <2>3. DoneOK(s)' /\ StreamOK(s)'
    BY <2>1 DEF ChunkOK, DoneOK, InJob, HasJob, Complete, StreamOK, Within, Parallel
  <2> QED
    BY <2>2, <2>3 DEF ChunkOK
<1> QED
  BY <1>1, <1>2 DEF Content

\* A pump begins, a delay elapses, the user retries, a chunk is out of tries.
LEMMA PhaseSteps ==
  ASSUME CInv,
         \/ PumpBegin
         \/ \E s \in Slot : DelayElapses(s) \/ FoldExhausted(s)
         \/ \E i \in Item : RetryFailedParts(i)
  PROVE  Content'
<1>1. \A s \in Slot : slot[s] \in SlotRecord
  BY DEF CInv, Inv, TypeOK
<1>2. CASE PumpBegin
  <2>1. ASSUME NEW s \in Slot
        PROVE  /\ slot'[s].done = slot[s].done /\ slot'[s].base = slot[s].base
               /\ slot'[s].opened = slot[s].opened /\ slot'[s].phase = slot[s].phase
    BY <1>1, <1>2 DEF PumpBegin, SlotRecord
  <2> QED
    BY <1>2, <2>1, PhaseStep DEF PumpBegin, queueVars, target
<1>3. CASE \E s \in Slot : DelayElapses(s)
  <2>1. PICK s \in Slot : DelayElapses(s)
    BY <1>3
  <2>2. ASSUME NEW t \in Slot
        PROVE  /\ slot'[t].done = slot[t].done /\ slot'[t].base = slot[t].base
               /\ slot'[t].opened = slot[t].opened /\ slot'[t].phase = slot[t].phase
    BY <1>1, <2>1 DEF DelayElapses, SlotRecord, CInv, Inv, TypeOK
  <2> QED
    BY <2>1, <2>2, PhaseStep DEF DelayElapses, queueVars, target
<1>4. CASE \E s \in Slot : FoldExhausted(s)
  <2>1. PICK s \in Slot : FoldExhausted(s)
    BY <1>4
  <2>2. at.job \in 1..Len(jobs) /\ JobItem \in Item /\ HasJob(JobItem)
    BY <2>1, JobItemType DEF FoldExhausted, Folding, CInv, Inv, HasJob, Contains, JobItem
  <2>3. InJob(s)
    BY <2>1, <2>2 DEF FoldExhausted, Folding, ToFold, SlotsOf, InJob
  <2>4. ASSUME NEW t \in Slot
        PROVE  /\ slot'[t].done = slot[t].done /\ slot'[t].base = slot[t].base
               /\ slot'[t].opened = slot[t].opened
               /\ slot'[t].phase = slot[t].phase \/ (t = s /\ slot'[t].phase = "failed")
    BY <1>1, <2>1 DEF FoldExhausted, SlotRecord, CInv, Inv, TypeOK
  <2> QED
    BY <2>1, <2>3, <2>4, PhaseStep DEF FoldExhausted, queueVars, target
<1>5. CASE \E i \in Item : RetryFailedParts(i)
  <2>1. PICK i \in Item : RetryFailedParts(i)
    BY <1>5
  <2>2. ASSUME NEW t \in Slot
        PROVE  /\ slot'[t].done = slot[t].done /\ slot'[t].base = slot[t].base
               /\ slot'[t].opened = slot[t].opened
               /\ \/ slot'[t].phase = slot[t].phase
                  \/ slot[t].phase # "idle" /\ slot'[t].phase = "retry_wait"
    BY <1>1, <2>1 DEF RetryFailedParts, RetryableConnection, ArmManualRetry, SlotRecord
  <2>3. \A t \in Slot : slot[t].phase # "idle" => InJob(t)
    BY DEF CInv, Content, ChunkOK, DoneOK
  <2> QED
    BY <2>1, <2>2, <2>3, PhaseStep DEF RetryFailedParts, queueVars, target
<1> QED
  BY <1>2, <1>3, <1>4, <1>5

\* The queue, the pool and the settings.
LEMMA QueueSteps ==
  ASSUME CInv,
         \/ FoldEnd \/ GrantSkip \/ GrantEnd \/ DispatchEnd \/ ReapIdle \/ UNCHANGED vars
         \/ \E k \in DOMAIN idle : PooledLinkLost(k)
         \/ \E l \in Limits : ApplySettings(l)
         \/ \E i \in Item : Enqueue(i) \/ Start(i) \/ PinTop(i)
  PROVE  Content'
<1>1. UNCHANGED <<jobs, split, resume, slot, proc, fileVars, data>>
  BY DEF FoldEnd, GrantSkip, GrantEnd, DispatchEnd, ReapIdle, vars, PooledLinkLost,
         ApplySettings, Enqueue, Start, PinTop, jobVars, target
<1>2. status' = status \/ \E i \in Item : status' = [status EXCEPT ![i] = "queued"]
  BY DEF FoldEnd, GrantSkip, GrantEnd, DispatchEnd, ReapIdle, vars, PooledLinkLost,
         ApplySettings, Enqueue, Start, PinTop, queueVars
<1>3. \A i \in Item : status'[i] = "succeeded" => status[i] = "succeeded"
  BY <1>2 DEF CInv, Inv, TypeOK
<1> QED
  BY <1>1, <1>3, QueueStep DEF CInv

-----------------------------------------------------------------------------
(* Jobs come and go.                                                       *)

\* Item i has no job; what is stored of it is as before.
Bare(i) ==
  /\ ~HasJob(i)' /\ split'[i] = 1
  /\ ledger'[i] # "none" => Chunked(i)
  /\ \A s \in Slot : s[1] = i =>
       /\ proc'[s] = NoProc /\ slot'[s].phase = "idle"
       /\ ledger'[i] # "none" => ledger[i] # "none"
       /\ claim'[s] = claim[s] /\ data'[s] = data[s]
       /\ status'[i] = "succeeded" => data[s] = PartSize

\* An item without a job keeps its part of the invariant.
LEMMA BareOK ==
  ASSUME CInv, NEW i \in Item, Bare(i)
  PROVE  SplitOK(i)' /\ \A s \in Slot : s[1] = i => ChunkOK(s)'
<1>1. SplitOK(i)'
  BY DEF Bare, SplitOK, Parallel
<1>2. ASSUME NEW s \in Slot, s[1] = i PROVE ChunkOK(s)'
  <2>1. proc'[s] = NoProc /\ slot'[s].phase = "idle" /\ ~Parallel(i)' /\ ChunkOK(s)
    BY <1>2 DEF Bare, Parallel, CInv, Content
  <2>2. WorkerOK(s)' /\ LeaderFirst(s)'
    BY <1>2, <2>1 DEF WorkerOK, LeaderFirst, Opening, NoProc, Worker
  <2>3. DoneOK(s)' /\ StreamOK(s)'
    BY <1>2, <2>1 DEF DoneOK, StreamOK, NoProc, Worker
  <2>4. StoredOK(s)'
    BY <1>2, <2>1 DEF Bare, StoredOK, ChunkOK
  <2> QED
    BY <2>2, <2>3, <2>4 DEF ChunkOK
<1> QED
  BY <1>1, <1>2

\* A fresh slot is idle.
LEMMA FreshSlotIdle ==
  /\ FreshSlot(0).phase = "idle" /\ FreshSlot(0).done = 0 /\ FreshSlot(0).base = 0
  /\ ~FreshSlot(0).opened
BY ConstantTypes DEF FreshSlot

\* Erasing a job leaves its item bare and the others alone.
LEMMA EraseJobBare ==
  ASSUME CInv, NEW k \in 1..Len(jobs), EraseJob(k), UNCHANGED <<claim, data>>,
         ledger'[jobs[k]] # "none" => ledger[jobs[k]] # "none",
         \A j \in Item : j # jobs[k] =>
           ledger'[j] = ledger[j] /\ (status'[j] = "succeeded" => status[j] = "succeeded"),
         status'[jobs[k]] = "succeeded" =>
           \A s \in Slot : s[1] = jobs[k] => data[s] = PartSize
  PROVE  Content'
<1>0. PICK i \in Item : i = jobs[k]
  BY ElementOfSeq DEF CInv, Inv, TypeOK
<1>1. i \in Item /\ i = jobs[k]
  BY <1>0
<1>2. Forgotten(i)
  BY <1>1, EraseJobForgets DEF CInv
<1>3. Bare(i)
  <2>1. ~HasJob(i)' /\ split'[i] = 1
    <3>1. ~HasJob(i)'
      BY <1>2 DEF Forgotten, HasJob
    <3>2. split'[i] = 1
      BY <1>1 DEF EraseJob, CInv, Inv, TypeOK
    <3> QED
      BY <3>1, <3>2
  <2>2. \A s \in Slot : s[1] = i => proc'[s] = NoProc /\ slot'[s].phase = "idle"
    BY <1>1, FreshSlotIdle DEF EraseJob
  <2>3. ledger[i] # "none" => Chunked(i)
    BY <1>1 DEF CInv, Content, SplitOK
  <2> QED
    BY <1>1, <2>1, <2>2, <2>3 DEF Bare
<1>4. ASSUME NEW j \in Item, j # i PROVE SameItem(j)
  <2>1. split'[j] = split[j] /\ resume'[j] = resume[j]
    BY <1>1, <1>4 DEF EraseJob, CInv, Inv, TypeOK
  <2>2. HasJob(j)' <=> HasJob(j)
    BY <1>2, <1>4 DEF Forgotten, HasJob
  <2> QED
    BY <1>1, <1>2, <1>4, <2>1, <2>2 DEF SameItem, Forgotten
<1> QED
  BY <1>1, <1>3, <1>4, BareOK, OneItem DEF CInv

\* Stopping the job of an item, if it has one.
LEMMA StopJobBare ==
  ASSUME CInv, NEW i \in Item, StopJob(i), UNCHANGED <<ledger, claim, data>>,
         \A j \in Item : status'[j] = "succeeded" => status[j] = "succeeded"
  PROVE  Content'
<1>1. CASE \E k \in DOMAIN jobs : jobs[k] = i /\ EraseJob(k)
  <2>1. PICK k \in 1..Len(jobs) : jobs[k] = i /\ EraseJob(k)
    <3>1. DOMAIN jobs = 1..Len(jobs)
      BY LenProperties DEF CInv, Inv, TypeOK
    <3> QED
      BY <1>1, <3>1
  <2>2. \A s \in Slot : s[1] = i /\ status[i] = "succeeded" => data[s] = PartSize
    BY DEF CInv, Content, ChunkOK, StoredOK
  <2> QED
    BY <2>1, <2>2, EraseJobBare
<1>2. CASE UNCHANGED <<jobs, cursor, split, resume, slot, proc>>
  BY <1>2, QueueStep DEF CInv, fileVars
<1> QED
  BY <1>1, <1>2 DEF StopJob

\* Pausing and removing an item.
LEMMA StopSteps ==
  ASSUME CInv, NEW i \in Item, Pause(i) \/ RemoveItem(i) PROVE Content'
<1>1. \A j \in Item : status'[j] = "succeeded" => status[j] = "succeeded"
  BY DEF Pause, RemoveItem, CInv, Inv, TypeOK
<1>2. UNCHANGED <<ledger, claim, data>>
  BY DEF Pause, RemoveItem, fileVars, target
<1>3. CASE StopJob(i)
  BY <1>1, <1>2, <1>3, StopJobBare
<1>4. CASE UNCHANGED <<jobVars, proc>>
  BY <1>1, <1>2, <1>4, QueueStep DEF jobVars, fileVars, CInv
<1> QED
  BY <1>3, <1>4 DEF Pause, RemoveItem

\* The pump meets the job of a removed item.
LEMMA FoldOrphanStep == ASSUME CInv, FoldOrphan PROVE Content'
<1>1. at.job \in 1..Len(jobs) /\ JobItem = jobs[at.job]
  BY JobItemType DEF FoldOrphan, CInv, Inv, JobItem
<1>2. /\ EraseJob(at.job) /\ UNCHANGED <<status, ledger, claim, data>>
  BY DEF FoldOrphan, queueVars, fileVars, target
<1>3. \A s \in Slot : s[1] = jobs[at.job] /\ status[jobs[at.job]] = "succeeded"
        => data[s] = PartSize
  BY DEF CInv, Content, ChunkOK, StoredOK
<1> QED
  BY <1>1, <1>2, <1>3, EraseJobBare

\* The application dies.
LEMMA CrashStep == ASSUME CInv, Crash PROVE Content'
<1>1. ASSUME NEW i \in Item PROVE Bare(i)
  <2>1. ~HasJob(i)' /\ split'[i] = 1
    BY DEF Crash, HasJob, Contains
  <2>2. \A s \in Slot : proc'[s] = NoProc /\ slot'[s].phase = "idle"
    BY FreshSlotIdle DEF Crash
  <2>3. status'[i] # "succeeded" /\ UNCHANGED <<ledger, claim, data>>
    BY DEF Crash, fileVars, target
  <2>4. ledger[i] # "none" => Chunked(i)
    BY DEF CInv, Content, SplitOK
  <2> QED
    BY <2>1, <2>2, <2>3, <2>4 DEF Bare
<1>2. \A i \in Item : SplitOK(i)'
  BY <1>1, BareOK
<1>3. \A s \in Slot : ChunkOK(s)'
  BY <1>1, BareOK, Chunks
<1> QED
  BY <1>2, <1>3 DEF Content
-----------------------------------------------------------------------------
(* The end of a job's fold, and new jobs and workers.                      *)

\* A job that is decided a success has all its chunks.
LEMMA VerdictSound ==
  ASSUME CInv, NEW i \in Item, HasJob(i), DecideParent(i) = "succeeded",
         NEW s \in Slot, s[1] = i
  PROVE  data[s] = PartSize
<1>1. ASSUME NEW t \in SlotsOf(i) PROVE slot[t].phase = "succeeded"
  <2>1. slot[t].phase \in Phases
    BY DEF SlotsOf, CInv, Inv, TypeOK, SlotRecord
  <2>2. \A u \in SlotsOf(i) : slot[u].phase \notin {"running", "retry_wait", "failed", "idle"}
    BY DEF DecideParent
  <2> QED
    BY <2>1, <2>2 DEF Phases
<1>2. CASE Parallel(i)
  <2>1. split[i] = Parts[i]
    BY <1>2 DEF CInv, Content, SplitOK, Parallel
  <2>2. s \in SlotsOf(i)
    BY <2>1 DEF SlotsOf, Slot
  <2> QED
    BY <1>1, <2>2 DEF CInv, Content, ChunkOK, DoneOK, Complete
<1>3. CASE ~Parallel(i)
  <2>1. Leader(i) \in Slot /\ Leader(i)[1] = i /\ Leader(i) \in SlotsOf(i)
    BY Chunks DEF SlotsOf, CInv, Inv, TypeOK
  <2>2. Complete(Leader(i))
    BY <1>1, <2>1 DEF CInv, Content, ChunkOK, DoneOK
  <2> QED
    BY <1>3, <2>1, <2>2 DEF Complete
<1> QED
  BY <1>2, <1>3

\* The pump decides a job.
LEMMA FoldJobEndStep == ASSUME CInv, FoldJobEnd PROVE Content'
<1>0. PICK i \in Item : i = JobItem /\ at.job \in 1..Len(jobs) /\ i = jobs[at.job]
  BY JobItemType DEF FoldJobEnd, CInv, Inv, JobItem
<1>1. /\ i \in Item /\ i = JobItem /\ i = jobs[at.job] /\ HasJob(i)
      /\ at.job \in 1..Len(jobs) /\ UNCHANGED <<claim, data>>
  BY <1>0 DEF FoldJobEnd, target, HasJob, Contains
<1>2. \A j \in Item : j # i => ledger'[j] = ledger[j]
  BY <1>1 DEF FoldJobEnd, CInv, Inv, TypeOK
<1>3. ledger'[i] # "none" => ledger[i] # "none"
  BY <1>1 DEF FoldJobEnd, MarksReady, CInv, Content, SplitOK, Inv, TypeOK
<1>4. CASE DecideParent(i) = "transferring"
  <2>1. UNCHANGED <<status, jobs, split, resume, slot, proc>>
    BY <1>1, <1>4 DEF FoldJobEnd
  <2>2. ledger'[i] = ledger[i] \/ (ledger[i] # "none" /\ ledger'[i] # "none")
    BY <1>1, <1>4 DEF FoldJobEnd, MarksReady, CInv, Content, SplitOK, Inv, TypeOK
  <2>3. SplitOK(i)'
    BY <2>1, <2>2 DEF CInv, Content, SplitOK, HasJob, Parallel
  <2>4. ASSUME NEW s \in Slot, s[1] = i PROVE ChunkOK(s)'
    <3>1. ChunkOK(s)
      BY DEF CInv, Content
    <3>2. WorkerOK(s)' /\ LeaderFirst(s)' /\ StoredOK(s)'
      BY <1>1, <2>1, <2>2, <2>4, <3>1
         DEF ChunkOK, WorkerOK, LeaderFirst, Opening, StoredOK, Parallel
    <3>3. DoneOK(s)' /\ StreamOK(s)'
      BY <1>1, <2>1, <3>1
         DEF ChunkOK, DoneOK, InJob, HasJob, Complete, StreamOK, Within, Parallel
    <3> QED
      BY <3>2, <3>3 DEF ChunkOK
  <2>5. \A j \in Item : j # i => SameItem(j)
    BY <1>1, <1>2, <2>1 DEF SameItem, HasJob
  <2> QED
    BY <2>3, <2>4, <2>5, OneItem DEF CInv
<1>5. CASE DecideParent(i) # "transferring"
  <2>1. EraseJob(at.job) /\ status' = [status EXCEPT ![i] = DecideParent(i)]
    BY <1>1, <1>5 DEF FoldJobEnd
  <2>2. \A j \in Item : j # i => status'[j] = status[j]
    BY <2>1 DEF CInv, Inv, TypeOK
  <2>3. status'[i] = DecideParent(i)
    BY <2>1 DEF CInv, Inv, TypeOK
  <2>4. status'[i] = "succeeded" => \A s \in Slot : s[1] = i => data[s] = PartSize
    BY <1>1, <2>3, VerdictSound
  <2> QED
    BY <1>1, <1>2, <1>3, <2>1, <2>2, <2>4, EraseJobBare
<1> QED
  BY <1>4, <1>5

\* A new job has the chunks that its item always has.
LEMMA PartCountSteady ==
  ASSUME CInv, NEW i \in Item PROVE PartCount(i) = IF Chunked(i) THEN Parts[i] ELSE 1
<1>1. limits \in Limits /\ \A l \in Limits : l.conn \in Nat \ {0}
  BY ConstantTypes DEF CInv, Inv, TypeOK
<1>2. \A l \in Limits : l.conn = 1 <=> limits.conn = 1
  BY <1>1 DEF CInv, Steady
<1>3. Parts[i] \in Nat \ {0}
  BY ConstantTypes
<1> QED
  BY <1>1, <1>2, <1>3 DEF PartCount, Chunked

\* What an item without a job has in its chunks.
LEMMA NoJobNoWorker ==
  ASSUME CInv, NEW s \in Slot, ~HasJob(s[1]) PROVE proc[s] = NoProc
BY DEF CInv, Inv, Agree, NoOrphanWorker

\* A job appended to the others.
LEMMA AppendedJob ==
  ASSUME Inv, NEW i \in Item, jobs' = Append(jobs, i)
  PROVE  HasJob(i)' /\ \A j \in Item : j # i => (HasJob(j)' <=> HasJob(j))
<1>1. jobs \in Seq(Item)
  BY DEF Inv, TypeOK
<1>2. /\ Len(jobs) \in Nat /\ Len(jobs') = Len(jobs) + 1 /\ jobs'[Len(jobs) + 1] = i
      /\ \A j \in 1..Len(jobs) : jobs'[j] = jobs[j]
  BY <1>1
<1>3. HasJob(i)'
  BY <1>2 DEF HasJob, Contains
<1>4. ASSUME NEW j \in Item, j # i PROVE HasJob(j)' <=> HasJob(j)
  BY <1>2, <1>4 DEF HasJob, Contains
<1> QED
  BY <1>3, <1>4

\* The dispatcher makes a job.
LEMMA StartItemStep ==
  ASSUME CInv, NEW i \in Item, ~HasJob(i), StartItem(i) PROVE Content'
<1>1. PICK keep \in BOOLEAN :
        /\ keep => PartCount(i) > 1 /\ ledger[i] # "none"
        /\ resume' = [resume EXCEPT ![i] = keep]
        /\ slot' = [s \in Slot |-> IF s[1] # i THEN slot[s]
                                   ELSE FreshSlot(IF keep THEN claim[s] ELSE 0)]
        /\ \/ /\ PartCount(i) = 1 \/ keep
              /\ UNCHANGED <<ledger, claim, stale>>
           \/ /\ PartCount(i) > 1 /\ ~keep
              /\ ledger' = [ledger EXCEPT ![i] = IF i \in Upload THEN "waiting" ELSE "ready"]
              /\ claim' = [s \in Slot |-> IF s[1] = i THEN 0 ELSE claim[s]]
  BY DEF StartItem
<1>2. UNCHANGED <<status, proc, data>>
  BY DEF StartItem
<1>3. /\ split'[i] = PartCount(i) /\ resume'[i] = keep
      /\ \A j \in Item : j # i => split'[j] = split[j] /\ resume'[j] = resume[j]
  BY <1>1 DEF StartItem, CInv, Inv, TypeOK
<1>4. PartCount(i) = (IF Chunked(i) THEN Parts[i] ELSE 1) /\ Parts[i] \in Nat \ {0}
  BY PartCountSteady, ConstantTypes
<1>5. HasJob(i)' /\ \A j \in Item : j # i => (HasJob(j)' <=> HasJob(j))
  BY AppendedJob DEF StartItem, CInv
<1>6. \A j \in Item : j # i => ledger'[j] = ledger[j]
  BY <1>1 DEF CInv, Inv, TypeOK
<1>7. \A s \in Slot : s[1] # i => slot'[s] = slot[s] /\ claim'[s] = claim[s]
  BY <1>1 DEF CInv, Inv, TypeOK
<1>8. \A j \in Item : j # i => SameItem(j)
  BY <1>2, <1>3, <1>5, <1>6, <1>7 DEF SameItem
<1>9. /\ ledger'[i] # "none" => ledger[i] # "none" \/ (PartCount(i) > 1 /\ ~keep)
      /\ PartCount(i) > 1 => ledger'[i] # "none"
  BY <1>1, <1>4 DEF CInv, Inv, TypeOK
<1>10. SplitOK(i)'
  BY <1>3, <1>4, <1>5, <1>9 DEF CInv, Content, SplitOK, Parallel, Chunked
<1>11. ASSUME NEW s \in Slot, s[1] = i PROVE ChunkOK(s)'
  <2> DEFINE d == IF keep THEN claim[s] ELSE 0
  <2>1. claim[s] \in Nat /\ data[s] \in 0..PartSize /\ PartSize \in Nat \ {0}
        /\ (ledger[i] # "none" => claim[s] <= data[s])
        /\ (status[i] = "succeeded" => data[s] = PartSize)
    BY <1>11, ConstantTypes DEF CInv, Inv, TypeOK, Content, ChunkOK, StoredOK
  <2>2. proc'[s] = NoProc
    BY <1>2, <1>11, NoJobNoWorker
  <2>3. /\ slot'[s].phase = (IF d >= PartSize THEN "succeeded" ELSE "idle")
        /\ slot'[s].done = d /\ slot'[s].base = 0
    BY <1>1, <1>11 DEF FreshSlot
  <2>4. d \in Nat /\ d <= data[s] /\ (d > 0 => keep) /\ (~keep => d = 0)
    BY <1>1, <2>1
  <2>5. /\ claim'[s] \in {0, claim[s]} /\ (PartCount(i) > 1 /\ ~keep => claim'[s] = 0)
        /\ claim'[s] = claim[s] => claim[s] = 0 \/ ledger'[i] = ledger[i] \/ claim'[s] = 0
    BY <1>1, <1>11, <2>1 DEF CInv, Inv, TypeOK
  <2> HIDE DEF d
  <2>6. Parallel(i)' <=> PartCount(i) > 1
    BY <1>3 DEF Parallel
  <2>7. WorkerOK(s)' /\ StreamOK(s)'
    BY <2>2 DEF WorkerOK, StreamOK, NoProc, Worker
  <2>8. LeaderFirst(s)'
    BY <1>3, <1>11, <2>1, <2>2, <2>3, <2>4, <2>5, <2>6 DEF LeaderFirst, Opening
  <2>9. StoredOK(s)'
    BY <1>2, <1>11, <2>1, <2>5 DEF StoredOK
  <2>10. DoneOK(s)'
    <3>1. ~InJob(s)' => slot'[s].phase = "idle"
      <4>1. s[2] \in 1..Parts[i]
        BY <1>11, Chunks
      <4>2. SUFFICES ASSUME ~InJob(s)' PROVE slot'[s].phase = "idle"
        OBVIOUS
      <4>3. PartCount(i) # Parts[i]
        BY <1>3, <1>5, <1>11, <4>1, <4>2 DEF InJob
      <4>4. ~keep
        BY <1>1, <1>4, <4>3
      <4> QED
        BY <2>1, <2>3, <2>4, <4>4
    <3>2. Parallel(s[1])' => /\ slot'[s].done <= data'[s]
                             /\ slot'[s].base + proc'[s].wrote <= data'[s]
      BY <1>2, <2>1, <2>2, <2>3, <2>4 DEF NoProc, Worker
    <3>3. slot'[s].phase = "succeeded" => Complete(s)'
      <4> SUFFICES ASSUME slot'[s].phase = "succeeded" PROVE Complete(s)'
        OBVIOUS
      <4>1. d >= PartSize /\ keep /\ data[s] = PartSize
        BY <2>1, <2>3, <2>4
      <4>2. Parallel(i)'
        BY <1>1, <2>6, <4>1
      <4> QED
        BY <1>2, <1>11, <4>1, <4>2 DEF Complete
    <3> QED
      BY <2>2, <3>1, <3>2, <3>3 DEF DoneOK, NoProc, Worker
  <2> QED
    BY <2>7, <2>8, <2>9, <2>10 DEF ChunkOK
<1> QED
  BY <1>8, <1>10, <1>11, OneItem DEF CInv

\* A chunk gets a worker: the leader first.
LEMMA ActivateChunkStep ==
  ASSUME CInv, NEW i \in Item, ActivateChunk(i) PROVE Content'
<1>1. PICK s \in Launchable(i), w \in {Worker("sent", TRUE, FALSE, TRUE),
                                        Worker("sent", TRUE, FALSE, FALSE),
                                        Worker("handshake", TRUE, TRUE, TRUE),
                                        Worker("handshake", TRUE, TRUE, FALSE),
                                        Worker("nolaunch", FALSE, FALSE, TRUE),
                                        Worker("nolaunch", FALSE, FALSE, FALSE)} :
        /\ slot' = [slot EXCEPT ![s] = Launched(slot[s], Usable # <<>>)]
        /\ proc' = [proc EXCEPT ![s] = w]
        /\ w.init => Parallel(i) /\ LeaderShouldInitialize(s)
  <2>1. PICK s \in Launchable(i) :
          LET reused == Usable # <<>>
              init == Parallel(i) /\ LeaderShouldInitialize(s)
          IN  /\ slot' = [slot EXCEPT ![s] = Launched(slot[s], reused)]
              /\ \/ proc' = [proc EXCEPT ![s] = Worker(IF reused THEN "sent" ELSE "handshake",
                                                       TRUE, ~reused, init)]
                 \/ ~reused /\ proc' = [proc EXCEPT ![s] = Worker("nolaunch", FALSE, FALSE, init)]
    BY DEF ActivateChunk
  <2> DEFINE reused == Usable # <<>>
             init == Parallel(i) /\ LeaderShouldInitialize(s)
  <2>2. reused \in BOOLEAN /\ init \in BOOLEAN
    BY DEF LeaderShouldInitialize
  <2>3. \A g, a, c : Worker(g, a, c, init).init = init
    BY DEF Worker
  <2>4. PICK w \in {Worker("sent", TRUE, FALSE, init), Worker("handshake", TRUE, TRUE, init),
                    Worker("nolaunch", FALSE, FALSE, init)} : proc' = [proc EXCEPT ![s] = w]
    <3>1. CASE reused
      BY <2>1, <3>1, Zenon
    <3>2. CASE ~reused
      BY <2>1, <3>2, Zenon
    <3> QED
      BY <3>1, <3>2
  <2>5. w.init = init
    BY <2>3, <2>4
  <2> HIDE DEF reused
  <2>6. slot' = [slot EXCEPT ![s] = Launched(slot[s], Usable # <<>>)]
    BY <2>1
  <2>7. w.init => Parallel(i) /\ LeaderShouldInitialize(s)
    BY <2>5
  <2> HIDE DEF init
  <2>8. CASE init = TRUE
    BY <2>4, <2>6, <2>7, <2>8
  <2>9. CASE init = FALSE
    BY <2>4, <2>6, <2>7, <2>9
  <2> QED
    BY <2>2, <2>8, <2>9
<1>2. /\ w.stage \in {"sent", "handshake", "nolaunch"} /\ ~w.info /\ w.wrote = 0 /\ w.sent = 0
      /\ w.stage = "nolaunch" => ~w.alive
  BY DEF Worker
<1>3. /\ UNCHANGED <<jobs, split, resume, ledger, claim, data>> /\ HasJob(i)
      /\ \A j \in Item : status'[j] = "succeeded" => status[j] = "succeeded"
  BY DEF ActivateChunk, fileVars, target, CInv, Inv, TypeOK
<1>4. s \in Slot /\ s[1] = i /\ s \in SlotsOf(i) /\ slot[s] \in SlotRecord
  BY DEF Launchable, SlotsOf, CInv, Inv, TypeOK
<1>5. \A t \in Slot : t # s => slot'[t] = slot[t] /\ proc'[t] = proc[t]
  BY <1>1 DEF CInv, Inv, TypeOK
<1>6. /\ slot'[s].phase = "running" /\ slot'[s].done = slot[s].done
      /\ slot'[s].base = slot[s].done /\ slot'[s].opened = slot[s].opened
  <2>1. slot'[s] = Launched(slot[s], Usable # <<>>)
    BY <1>1, <1>4 DEF CInv, Inv, TypeOK
  <2> QED
    BY <1>4, <2>1 DEF Launched, SlotRecord
<1>7. proc'[s] = w
  BY <1>1, <1>4 DEF CInv, Inv, TypeOK
<1>8. InJob(s)
  BY <1>3, <1>4 DEF InJob, SlotsOf
<1>9. s[2] > 1 => ~Opening(i)
  <2>1. s[2] \in Nat \ {0}
    BY <1>4, SlotType
  <2>2. s[2] = 1 \/ FollowersReady(i)
    BY DEF Launchable
  <2>3. Opening(i) => slot[Leader(i)].phase # "succeeded"
    BY Chunks DEF CInv, Content, ChunkOK, LeaderFirst
  <2> QED
    BY <2>1, <2>2, <2>3 DEF FollowersReady, Opening
<1>10. ASSUME NEW t \in Slot, t[1] = i PROVE ChunkOK(t)'
  <2>1. ChunkOK(t)
    BY DEF CInv, Content
  <2>2. Opening(i)' <=> Opening(i)
    BY <1>3, <1>5, <1>6, Chunks DEF Opening, Parallel
  <2>3. WorkerOK(t)'
    <3>1. CASE t = s
      BY <1>1, <1>2, <1>3, <1>4, <1>6, <1>7, <3>1
         DEF WorkerOK, LeaderShouldInitialize, Parallel
    <3>2. CASE t # s
      BY <1>3, <1>5, <2>1, <3>2 DEF ChunkOK, WorkerOK, Parallel
    <3> QED
      BY <3>1, <3>2
  <2>4. LeaderFirst(t)'
    <3> SUFFICES ASSUME Opening(i)' PROVE LeaderFirst(t)'
      BY <1>10 DEF LeaderFirst
    <3>1. Opening(t[1])
      BY <1>10, <2>2
    <3>2. CASE t = s
      BY <1>3, <1>4, <1>6, <1>9, <2>1, <3>1, <3>2 DEF ChunkOK, LeaderFirst
    <3>3. CASE t # s
      BY <1>3, <1>5, <2>1, <3>1, <3>3 DEF ChunkOK, LeaderFirst
    <3> QED
      BY <3>2, <3>3
  <2>5. DoneOK(t)'
    <3>1. CASE t = s
      <4>1. slot[t].done \in Nat /\ data[t] \in Nat
        BY <1>4, <3>1 DEF SlotRecord, CInv, Inv, TypeOK
      <4>2. InJob(t)'
        BY <1>3, <1>8, <3>1 DEF InJob, HasJob
      <4> QED
        BY <1>2, <1>3, <1>6, <1>7, <2>1, <3>1, <4>1, <4>2 DEF ChunkOK, DoneOK, Parallel
    <3>2. CASE t # s
      BY <1>3, <1>5, <2>1, <3>2 DEF ChunkOK, DoneOK, InJob, HasJob, Parallel, Complete
    <3> QED
      BY <3>1, <3>2
  <2>6. StreamOK(t)'
    <3>1. CASE t = s
      BY <1>2, <1>7, <3>1 DEF StreamOK
    <3>2. CASE t # s
      BY <1>3, <1>5, <2>1, <3>2 DEF ChunkOK, StreamOK, Parallel, Within
    <3> QED
      BY <3>1, <3>2
  <2>7. StoredOK(t)'
    BY <1>3, <1>10, <2>1 DEF ChunkOK, StoredOK
  <2> QED
    BY <2>3, <2>4, <2>5, <2>6, <2>7 DEF ChunkOK
<1>11. SplitOK(i)'
  BY <1>3 DEF CInv, Content, SplitOK, HasJob, Parallel
<1>12. \A j \in Item : j # i => SameItem(j)
  BY <1>3, <1>4, <1>5 DEF SameItem, HasJob
<1> QED
  BY <1>10, <1>11, <1>12, OneItem DEF CInv

\* The dispatcher's steps that start something.
LEMMA DispatchStarts ==
  ASSUME Inv, DispatchStrict \/ GrantFirst \/ ShareChannel
  PROVE  \E i \in Item : ActivateChunk(i) \/ (~HasJob(i) /\ StartItem(i))
<1>1. CASE DispatchStrict
  <2>1. PICK k \in 1..Len(order) :
          IF HasJob(order[k]) THEN ActivateChunk(order[k]) ELSE StartItem(order[k])
    <3>1. DOMAIN order = 1..Len(order)
      BY LenProperties DEF Inv, TypeOK
    <3> QED
      BY <1>1, <3>1 DEF DispatchStrict
  <2> QED
    BY <2>1, OrderItemType DEF Inv
<1>2. CASE GrantFirst
  <2>1. at.job \in 1..Len(order)
    BY <1>2, LenProperties DEF GrantFirst, Inv, TypeOK
  <2>2. PICK j \in Item : j = order[at.job]
    BY <2>1, OrderItemType DEF Inv
  <2> QED
    BY <1>2, <2>2 DEF GrantFirst
<1>3. CASE ShareChannel
  <2>1. Len(jobs) \in Nat
    BY LenProperties DEF Inv, TypeOK
  <2>2. PICK n \in 0..(Len(jobs) - 1) : ActivateChunk(jobs[Turn(n)])
    BY <1>3 DEF ShareChannel
  <2>3. jobs[Turn(n)] \in Item
    BY <2>1, TurnType DEF Inv
  <2> QED
    BY <2>2, <2>3
<1> QED
  BY <1>1, <1>2, <1>3

\* They keep the contents.
LEMMA DispatchStep == ASSUME CInv, DispatchStrict \/ GrantFirst \/ ShareChannel PROVE Content'
BY DispatchStarts, StartItemStep, ActivateChunkStep DEF CInv

-----------------------------------------------------------------------------
(* The fold of a worker, and the helpers.                                  *)

\* Steps that change one chunk's slot, worker and claim, and not the target.
LEMMA ChunkStep ==
  ASSUME CInv, NEW s \in Slot, UNCHANGED <<status, jobs, split, resume, ledger, data>>,
         \A t \in Slot : t # s =>
           slot'[t] = slot[t] /\ proc'[t] = proc[t] /\ claim'[t] = claim[t],
         slot[s].opened => slot'[s].opened,
         WorkerOK(s)', LeaderFirst(s)', DoneOK(s)', StreamOK(s)',
         ledger[s[1]] # "none" => claim'[s] <= data[s]
  PROVE  Content'
<1>1. s[1] \in Item
  BY SlotType
<1>2. SplitOK(s[1])'
  BY <1>1 DEF CInv, Content, SplitOK, HasJob, Parallel
<1>3. Opening(s[1])' => Opening(s[1])
  BY <1>1, Chunks DEF Opening, Parallel
<1>4. ASSUME NEW t \in Slot, t[1] = s[1], t # s PROVE ChunkOK(t)'
  <2>1. ChunkOK(t)
    BY DEF CInv, Content
  <2>2. WorkerOK(t)' /\ LeaderFirst(t)' /\ StoredOK(t)'
    BY <1>3, <1>4, <2>1 DEF ChunkOK, WorkerOK, LeaderFirst, StoredOK, Parallel
  <2>3. DoneOK(t)' /\ StreamOK(t)'
    BY <1>4, <2>1 DEF ChunkOK, DoneOK, InJob, HasJob, Complete, StreamOK, Within, Parallel
  <2> QED
    BY <2>2, <2>3 DEF ChunkOK
<1>5. ChunkOK(s)'
  <2>1. StoredOK(s)'
    BY DEF CInv, Content, ChunkOK, StoredOK
  <2> QED
    BY <2>1 DEF ChunkOK
<1>6. \A t \in Slot : t[1] = s[1] => ChunkOK(t)'
  BY <1>4, <1>5
<1>7. \A j \in Item : j # s[1] => SameItem(j)
  BY DEF SameItem, HasJob
<1>8. PICK i \in Item : i = s[1]
  BY <1>1
<1> QED
  BY <1>2, <1>6, <1>7, <1>8, OneItem DEF CInv

\* What poll() takes over from a worker is in the target.
LEMMA PolledSound ==
  ASSUME CInv, NEW s \in Slot
  PROVE  /\ Polled(s) \in SlotRecord
         /\ Polled(s).base = slot[s].base /\ Polled(s).phase = slot[s].phase
         /\ slot[s].opened => Polled(s).opened
         /\ ~proc[s].lost /\ proc[s].info => Polled(s).opened
         /\ Polled(s).opened => proc[s].info \/ slot[s].opened
         /\ ~Polled(s).opened => Polled(s).done \in {slot[s].done, slot[s].base}
         /\ Parallel(s[1]) => Polled(s).done <= data[s]
<1>1. slot[s] \in SlotRecord /\ proc[s] \in WorkerRecord /\ data[s] \in Nat
  BY DEF CInv, Inv, TypeOK
<1>2. /\ proc[s].sent <= proc[s].wrote /\ (~proc[s].info => proc[s].wrote = 0)
      /\ Parallel(s[1]) => /\ slot[s].done <= data[s]
                           /\ slot[s].base + proc[s].wrote <= data[s]
  BY DEF CInv, Content, ChunkOK, WorkerOK, DoneOK
<1>3. Polled(s) \in SlotRecord
  BY <1>1, PolledType
<1>4. CASE proc[s].lost
  BY <1>1, <1>2, <1>3, <1>4 DEF Polled
<1>5. CASE ~proc[s].lost
  <2> DEFINE n == slot[s].base + proc[s].sent
             o == slot[s].opened \/ proc[s].info
  <2>1. n \in Nat /\ (Parallel(s[1]) => n <= data[s]) /\ (~o => n = slot[s].base)
    BY <1>1, <1>2 DEF SlotRecord, WorkerRecord
  <2>2. Polled(s) = [slot[s] EXCEPT !.done = n, !.opened = o]
    BY <1>1, <1>5 DEF Polled, SlotRecord
  <2>3. /\ (slot[s].opened => o) /\ (proc[s].info => o)
        /\ (o => proc[s].info \/ slot[s].opened)
    OBVIOUS
  <2> HIDE DEF n, o
  <2>4. /\ Polled(s).base = slot[s].base /\ Polled(s).phase = slot[s].phase
        /\ Polled(s).done = n /\ Polled(s).opened = o
    BY <1>1, <2>2 DEF SlotRecord
  <2> QED
    BY <1>3, <2>1, <2>3, <2>4
<1> QED
  BY <1>4, <1>5

\* A failure keeps a chunk's progress, and is no success.
LEMMA ArmFailureKeeps ==
  ASSUME NEW sl \in SlotRecord, NEW tries
  PROVE  LET r == ArmFailure(sl, tries)
         IN  /\ r.done = sl.done /\ r.base = sl.base /\ r.opened = sl.opened
             /\ r.phase \in {"idle", "retry_wait", "failed"}
<1> DEFINE free == [sl EXCEPT !.counted = FALSE, !.reused = FALSE]
           stale0 == StaleReuse(sl)
           again == ShouldAutoRetry(sl.origin, sl.attempts, tries)
<1>1. /\ DOMAIN free = DOMAIN sl /\ free.done = sl.done /\ free.base = sl.base
      /\ free.opened = sl.opened
      /\ {"done", "base", "opened", "phase", "attempts", "armed", "due", "origin", "ripe"}
           \subseteq DOMAIN free
  BY DEF SlotRecord
<1> HIDE DEF free
<1>2. CASE stale0 /\ sl.counted
  <2>1. ArmFailure(sl, tries) =
          [free EXCEPT !.attempts = IF sl.attempts > 0 THEN free.attempts - 1 ELSE free.attempts,
                       !.phase = "retry_wait", !.armed = TRUE, !.due = "next_pump"]
    BY <1>2 DEF ArmFailure, free
  <2> QED
    BY <1>1, <2>1
<1>3. CASE stale0 /\ ~sl.counted
  <2>1. ArmFailure(sl, tries) = [free EXCEPT !.phase = "idle", !.origin = "none"]
    BY <1>3 DEF ArmFailure, free
  <2> QED
    BY <1>1, <2>1
<1>4. CASE ~stale0 /\ again
  <2>1. ArmFailure(sl, tries) = [free EXCEPT !.phase = "retry_wait", !.armed = TRUE,
                                             !.due = "after_delay", !.ripe = FALSE]
    BY <1>4 DEF ArmFailure, free
  <2> QED
    BY <1>1, <2>1
<1>5. CASE ~stale0 /\ ~again
  <2>1. ArmFailure(sl, tries) = [free EXCEPT !.phase = "failed"]
    BY <1>5 DEF ArmFailure, free
  <2> QED
    BY <1>1, <2>1
<1> QED
  BY <1>2, <1>3, <1>4, <1>5

\* The fold looks at a chunk of a job.
LEMMA FoldedChunk ==
  ASSUME CInv, NEW s \in Slot, Folding(s) PROVE InJob(s) /\ HasJob(s[1])
<1>1. at.job \in 1..Len(jobs) /\ JobItem = jobs[at.job]
  BY JobItemType DEF Folding, CInv, Inv, JobItem
<1>2. HasJob(JobItem) /\ s \in SlotsOf(JobItem)
  BY <1>1 DEF Folding, ToFold, HasJob, Contains
<1> QED
  BY <1>2 DEF SlotsOf, InJob

\* Before the leader has opened the target nothing can be polled from any chunk.
LEMMA PolledFirst ==
  ASSUME CInv, NEW s \in Slot, Opening(s[1]), s[2] = 1 => ~Polled(s).opened
  PROVE  Polled(s).done = 0 /\ slot[s].base = 0
<1>1. ChunkOK(s) /\ slot[s] \in SlotRecord /\ slot[s].done = 0 /\ slot[s].base = 0
  BY DEF CInv, Content, Inv, TypeOK, ChunkOK, LeaderFirst
<1>2. CASE s[2] = 1
  BY <1>1, <1>2, PolledSound
<1>3. CASE s[2] # 1
  <2>1. proc[s] = NoProc
    <3>1. s[2] \in Nat \ {0}
      BY SlotType
    <3> QED
      BY <1>1, <1>3, <3>1 DEF ChunkOK, LeaderFirst
  <2>2. Polled(s).done = 0 + 0
    BY <1>1, <2>1 DEF Polled, NoProc, Worker, SlotRecord
  <2> QED
    BY <1>1, <2>2
<1> QED
  BY <1>2, <1>3

\* What a worker has written is recorded, and its reply to `open' acted upon.
LEMMA FoldRunningStep ==
  ASSUME CInv, NEW s \in Slot, FoldRunning(s) PROVE Content'
<1> DEFINE p == Polled(s)
<1>1. /\ Folding(s) /\ slot[s].phase = "running" /\ Outcome(proc[s]) = "none"
      /\ UNCHANGED <<status, jobs, split, resume, ledger, data>>
      /\ slot' = [slot EXCEPT ![s] = p] /\ Claimed(s, p.done)
  BY DEF FoldRunning, queueVars, target
<1>2. /\ InJob(s) /\ HasJob(s[1]) /\ ChunkOK(s) /\ slot[s] \in SlotRecord
      /\ proc[s] \in WorkerRecord /\ s[1] \in Item
  BY <1>1, FoldedChunk, SlotType DEF CInv, Content, Inv, TypeOK
<1>3. /\ p \in SlotRecord /\ p.base = slot[s].base /\ p.phase = "running"
      /\ slot[s].opened => p.opened
      /\ p.opened => proc[s].info \/ slot[s].opened
      /\ Parallel(s[1]) => p.done <= data[s]
  BY <1>1, PolledSound
<1>4. Opening(s[1]) /\ (s[2] = 1 => ~p.opened) => p.done = 0
  BY PolledFirst
<1> HIDE DEF p
<1>5. /\ ~proc[s].lost /\ proc[s].alive
      /\ proc[s].stage \notin {"local", "nolaunch", "ok", "critical", "reject"}
  BY <1>1 DEF Outcome
<1>6. slot'[s] = p /\ \A t \in Slot : t # s => slot'[t] = slot[t]
  BY <1>1 DEF CInv, Inv, TypeOK
<1>7. /\ claim'[s] = IF Parallel(s[1]) THEN p.done ELSE claim[s]
      /\ \A t \in Slot : t # s => claim'[t] = claim[t]
  BY <1>1 DEF Claimed, CInv, Inv, TypeOK
<1>8. /\ \A t \in Slot : t # s => proc'[t] = proc[t]
      /\ proc'[s].alive = proc[s].alive /\ proc'[s].init = proc[s].init
      /\ proc'[s].info = proc[s].info /\ proc'[s].wrote = proc[s].wrote
      /\ proc'[s].sent = proc[s].sent
      /\ \/ proc'[s].stage = proc[s].stage
         \/ proc[s].stage = "authed" /\ proc'[s].stage = "sent"
  BY <1>2 DEF FoldRunning, CInv, Inv, TypeOK, WorkerRecord
<1>9. Opening(s[1])' => Opening(s[1]) /\ (s[2] = 1 => ~p.opened)
  <2>1. s[2] = 1 => Leader(s[1]) = s
    BY Chunks DEF Leader
  <2> QED
    BY <1>1, <1>2, <1>3, <1>6, <2>1, Chunks DEF Opening, Parallel
<1>10. WorkerOK(s)'
  BY <1>1, <1>2, <1>3, <1>5, <1>6, <1>8 DEF ChunkOK, WorkerOK, Parallel
<1>11. LeaderFirst(s)'
  <2> SUFFICES ASSUME Opening(s[1])' PROVE LeaderFirst(s)'
    BY DEF LeaderFirst
  <2>1. /\ p.done = 0 /\ claim[s] = 0 /\ slot[s].base = 0 /\ Opening(s[1])
        /\ s[2] > 1 => proc[s] = NoProc
    BY <1>2, <1>4, <1>9 DEF ChunkOK, LeaderFirst
  <2>2. ~(s[2] > 1)
    BY <1>5, <2>1, AliveIsProc
  <2> QED
    BY <1>3, <1>6, <1>7, <2>1, <2>2 DEF LeaderFirst
<1>12. DoneOK(s)'
  <2>1. InJob(s)'
    BY <1>1, <1>2 DEF InJob, HasJob
  <2>2. Parallel(s[1])' => slot'[s].done <= data'[s]
                           /\ slot'[s].base + proc'[s].wrote <= data'[s]
    BY <1>1, <1>2, <1>3, <1>6, <1>8 DEF ChunkOK, DoneOK, Parallel
  <2> QED
    BY <1>3, <1>5, <1>6, <1>8, <2>1, <2>2 DEF DoneOK
<1>13. StreamOK(s)'
  BY <1>1, <1>2, <1>8 DEF ChunkOK, StreamOK, Parallel, Within
<1>14. ledger[s[1]] # "none" => claim'[s] <= data[s]
  BY <1>2, <1>3, <1>7 DEF ChunkOK, StoredOK
<1> QED
  BY <1>1, <1>3, <1>6, <1>7, <1>8, <1>10, <1>11, <1>12, <1>13, <1>14, ChunkStep

\* A chunk without a worker whose progress is in the target.
LEMMA WorkerGone ==
  ASSUME CInv, NEW s \in Slot, InJob(s), UNCHANGED <<status, jobs, split, resume, ledger, data>>,
         \A t \in Slot : t # s =>
           slot'[t] = slot[t] /\ proc'[t] = proc[t] /\ claim'[t] = claim[t],
         proc'[s] = NoProc, slot[s].opened => slot'[s].opened,
         claim'[s] = IF Parallel(s[1]) THEN slot'[s].done ELSE claim[s],
         Parallel(s[1]) => slot'[s].done <= data[s] /\ slot'[s].base <= data[s],
         slot'[s].base \in Nat,
         slot'[s].phase = "succeeded" => Complete(s),
         Opening(s[1])' =>
           slot'[s].done = 0 /\ slot'[s].base = 0 /\ slot'[s].phase # "succeeded"
  PROVE  Content'
<1>1. ChunkOK(s)
  BY DEF CInv, Content
<1>2. /\ proc'[s].stage = "none" /\ ~proc'[s].alive /\ ~proc'[s].info /\ ~proc'[s].init
      /\ proc'[s].wrote = 0 /\ proc'[s].sent = 0
  BY DEF NoProc, Worker
<1>3. WorkerOK(s)' /\ StreamOK(s)'
  BY <1>2 DEF WorkerOK, StreamOK
<1>4. LeaderFirst(s)'
  BY DEF LeaderFirst, Opening, Parallel
<1>5. DoneOK(s)'
  <2>1. InJob(s)'
    BY DEF InJob, HasJob
  <2>2. slot'[s].phase = "succeeded" => Complete(s)'
    BY DEF Complete, Parallel
  <2> QED
    BY <1>2, <2>1, <2>2 DEF DoneOK, Parallel
<1>6. ledger[s[1]] # "none" => claim'[s] <= data[s]
  BY <1>1 DEF ChunkOK, StoredOK
<1> QED
  BY <1>3, <1>4, <1>5, <1>6, ChunkStep

\* A worker has reported success.
LEMMA FoldSucceededStep ==
  ASSUME CInv, NEW s \in Slot, FoldSucceeded(s) PROVE Content'
<1> DEFINE fresh == FreshSlot(0)
           n == Full(s)
           done == [fresh EXCEPT !.phase = "succeeded", !.done = n, !.opened = TRUE]
<1>1. /\ Folding(s) /\ Outcome(proc[s]) = "ok"
      /\ UNCHANGED <<status, jobs, split, resume, ledger, data>>
      /\ slot' = [slot EXCEPT ![s] = done] /\ Claimed(s, PartSize)
      /\ proc' = [proc EXCEPT ![s] = NoProc]
  BY DEF FoldSucceeded, queueVars, target
<1>2. InJob(s) /\ HasJob(s[1]) /\ ChunkOK(s) /\ s[1] \in Item
  BY <1>1, FoldedChunk, SlotType DEF CInv, Content
<1>3. proc[s].stage = "ok"
  BY <1>1 DEF Outcome
<1>4. Complete(s) /\ data[s] = PartSize /\ PartSize \in Nat
  BY <1>2, <1>3, ConstantTypes DEF ChunkOK, DoneOK, Complete
<1>5. fresh \in SlotRecord /\ fresh.base = 0
  BY FreshSlotType, FreshSlotIdle
<1>6. Parallel(s[1]) => n = PartSize
  BY DEF Full
<1> HIDE DEF fresh, n
<1>7. /\ done.phase = "succeeded" /\ done.done = n /\ done.base = 0 /\ done.opened = TRUE
  BY <1>5 DEF SlotRecord
<1> HIDE DEF done
<1>8. /\ slot'[s] = done /\ proc'[s] = NoProc
      /\ \A t \in Slot : t # s => slot'[t] = slot[t] /\ proc'[t] = proc[t]
  BY <1>1 DEF CInv, Inv, TypeOK
<1>9. /\ claim'[s] = IF Parallel(s[1]) THEN n ELSE claim[s]
      /\ \A t \in Slot : t # s => claim'[t] = claim[t]
  BY <1>1, <1>6 DEF Claimed, CInv, Inv, TypeOK
<1>10. ~Opening(s[1])'
  <2> SUFFICES ASSUME Opening(s[1])' PROVE FALSE
    OBVIOUS
  <2>1. CASE s[2] = 1
    BY <1>7, <1>8, <2>1, Chunks DEF Opening, Leader
  <2>2. CASE s[2] # 1
    <3>1. Opening(s[1]) /\ s[2] \in Nat \ {0}
      <4>1. slot'[Leader(s[1])] = slot[Leader(s[1])]
        BY <1>2, <1>8, <2>2, Chunks
      <4> QED
        BY <1>1, <4>1, SlotType DEF Opening, Parallel
    <3>2. proc[s] = NoProc
      BY <1>2, <2>2, <3>1 DEF ChunkOK, LeaderFirst
    <3> QED
      BY <1>3, <3>2 DEF NoProc, Worker
  <2> QED
    BY <2>1, <2>2
<1> QED
  BY <1>1, <1>2, <1>4, <1>6, <1>7, <1>8, <1>9, <1>10, WorkerGone

\* A worker has failed, or was lost.
LEMMA FoldFailedStep ==
  ASSUME CInv, NEW s \in Slot, FoldFailed(s) PROVE Content'
<1> DEFINE seen == [Polled(s) EXCEPT !.origin = Outcome(proc[s])]
           r == ArmFailure(seen, limits.tries)
<1>1. /\ Folding(s) /\ Outcome(proc[s]) \in {"connection", "reject", "local"}
      /\ UNCHANGED <<status, jobs, split, resume, ledger, data>>
      /\ slot' = [slot EXCEPT ![s] = r] /\ Claimed(s, Polled(s).done)
      /\ proc' = [proc EXCEPT ![s] = NoProc]
  BY DEF FoldFailed, queueVars, target
<1>2. /\ InJob(s) /\ HasJob(s[1]) /\ ChunkOK(s) /\ s[1] \in Item /\ slot[s] \in SlotRecord
      /\ proc[s] \in WorkerRecord /\ data[s] \in Nat
  BY <1>1, FoldedChunk, SlotType DEF CInv, Content, Inv, TypeOK
<1>3. /\ Polled(s) \in SlotRecord /\ Polled(s).base = slot[s].base
      /\ slot[s].opened => Polled(s).opened
      /\ Parallel(s[1]) => Polled(s).done <= data[s]
  BY PolledSound
<1>4. /\ seen \in SlotRecord /\ seen.base = Polled(s).base /\ seen.done = Polled(s).done
      /\ seen.opened = Polled(s).opened
  BY <1>1, <1>3 DEF SlotRecord, Origins
<1> HIDE DEF seen
<1>5. /\ r.done = Polled(s).done /\ r.base = slot[s].base /\ r.opened = Polled(s).opened
      /\ r.phase # "succeeded"
  BY <1>3, <1>4, ArmFailureKeeps
<1> HIDE DEF r
<1>6. /\ slot'[s] = r /\ proc'[s] = NoProc
      /\ \A t \in Slot : t # s => slot'[t] = slot[t] /\ proc'[t] = proc[t]
  BY <1>1, <1>2 DEF CInv, Inv, TypeOK
<1>7. /\ claim'[s] = IF Parallel(s[1]) THEN Polled(s).done ELSE claim[s]
      /\ \A t \in Slot : t # s => claim'[t] = claim[t]
  BY <1>1 DEF Claimed, CInv, Inv, TypeOK
<1>8. Opening(s[1])' => Opening(s[1]) /\ (s[2] = 1 => ~Polled(s).opened)
  <2>1. s[2] = 1 => Leader(s[1]) = s
    BY Chunks DEF Leader
  <2> QED
    BY <1>1, <1>2, <1>3, <1>5, <1>6, <2>1, Chunks DEF Opening, Parallel
<1>9. Opening(s[1])' => r.done = 0 /\ r.base = 0
  BY <1>5, <1>8, PolledFirst
<1>10. Parallel(s[1]) => slot[s].base <= data[s] /\ slot[s].base \in Nat
  BY <1>2 DEF ChunkOK, DoneOK, SlotRecord, WorkerRecord
<1>11. slot[s].base \in Nat
  BY <1>2 DEF SlotRecord
<1> QED
  BY <1>1, <1>2, <1>3, <1>5, <1>6, <1>7, <1>9, <1>10, <1>11, WorkerGone

\* Products of the chunk size.
LEMMA Multiples ==
  ASSUME NEW P \in Nat, NEW a \in Nat, NEW b \in Nat, a <= b
  PROVE  a * P \in Nat /\ a * P <= b * P /\ (b > 0 => (b - 1) * P = b * P - P)
<1>1. PICK d \in Nat : b = a + d
  <2>1. b - a \in Nat /\ b = a + (b - a)
    OBVIOUS
  <2> QED
    BY <2>1
<1>2. b * P = a * P + d * P /\ d * P \in Nat /\ a * P \in Nat /\ b * P \in Nat
  BY <1>1
<1>3. (b - 1) * P = b * P - P
  OBVIOUS
<1> QED
  BY <1>2, <1>3

\* A chunk with a worker is running, in a job of an item that is being transferred; if
\* the item is a single stream, it is its first.
LEMMA WorkerFacts ==
  ASSUME CInv, NEW s \in Slot, proc[s] # NoProc
  PROVE  /\ InJob(s) /\ HasJob(s[1]) /\ status[s[1]] = "transferring"
         /\ slot[s].phase = "running" /\ (~Parallel(s[1]) => s[2] = 1)
<1>1. HasJob(s[1]) /\ status[s[1]] = "transferring" /\ slot[s].phase = "running"
  BY DEF CInv, Inv, Agree, NoOrphanWorker
<1>2. InJob(s)
  BY <1>1 DEF CInv, Content, ChunkOK, DoneOK
<1>3. s[2] \in Nat \ {0} /\ split[s[1]] \in Nat \ {0}
  BY SlotType DEF CInv, Inv, TypeOK
<1> QED
  BY <1>1, <1>2, <1>3 DEF InJob, Parallel

\* Helper steps that leave the target alone.
LEMMA HelperTalks ==
  ASSUME CInv, NEW s \in Slot, proc[s].alive,
         UNCHANGED <<status, jobs, split, resume, slot, ledger, claim, data>>,
         \A t \in Slot : t # s => proc'[t] = proc[t],
         proc'[s].wrote \in Nat,
         proc'[s].sent <= proc'[s].wrote, proc'[s].wrote <= proc[s].wrote,
         ~proc'[s].info => proc'[s].wrote = 0,
         proc'[s].alive /\ ~proc'[s].info => ~proc[s].info,
         proc'[s].stage = "open" =>
           /\ proc'[s].info
           /\ Parallel(s[1]) \/ (proc[s].stage = "open" /\ proc'[s].wrote = proc[s].wrote),
         proc'[s].alive /\ proc'[s].stage \in {"handshake", "authed", "sent"} =>
           ~proc'[s].info,
         proc'[s].stage \notin {"none", "nolaunch"},
         proc'[s].init = proc[s].init,
         proc'[s].stage = "ok" => Complete(s)
  PROVE  Content'
<1>1. /\ ChunkOK(s) /\ proc[s] # NoProc
      /\ slot[s] \in SlotRecord /\ proc[s] \in WorkerRecord /\ data[s] \in Nat
  BY AliveIsProc DEF CInv, Content, Inv, TypeOK
<1>2. WorkerOK(s)'
  BY <1>1 DEF ChunkOK, WorkerOK, Parallel
<1>3. LeaderFirst(s)'
  BY <1>1 DEF ChunkOK, LeaderFirst, Opening, Parallel
<1>4. DoneOK(s)'
  <2>1. Parallel(s[1]) => slot[s].done <= data[s] /\ slot[s].base + proc'[s].wrote <= data[s]
    BY <1>1 DEF ChunkOK, DoneOK, SlotRecord, WorkerRecord
  <2>2. (~InJob(s) => slot[s].phase = "idle") /\ (slot[s].phase = "succeeded" => Complete(s))
    BY <1>1 DEF ChunkOK, DoneOK
  <2> QED
    BY <2>1, <2>2 DEF DoneOK, InJob, HasJob, Parallel, Complete
<1>5. StreamOK(s)'
  BY <1>1 DEF ChunkOK, StreamOK, Parallel, Within
<1>6. ledger[s[1]] # "none" => claim'[s] <= data[s]
  BY <1>1 DEF ChunkOK, StoredOK
<1> QED
  BY <1>2, <1>3, <1>4, <1>5, <1>6, ChunkStep

\* A helper that has moved all it was told to has filled its chunk, or the file.
LEMMA DoneIsComplete ==
  ASSUME CInv, NEW s \in Slot, proc[s].stage = "open", From(s) + proc[s].wrote = Full(s)
  PROVE  Complete(s)
<1>1. ChunkOK(s) /\ PartSize \in Nat \ {0} /\ \A t \in Slot : data[t] \in 0..PartSize
  BY ConstantTypes DEF CInv, Content, Inv, TypeOK
<1>2. CASE Parallel(s[1])
  <2>1. slot[s].base + proc[s].wrote = PartSize
    BY <1>2 DEF From, Full
  <2>2. PartSize <= data[s]
    BY <1>1, <1>2, <2>1 DEF ChunkOK, DoneOK
  <2>3. data[s] = PartSize
    BY <1>1, <2>2
  <2> QED
    BY <1>2, <2>3 DEF Complete
<1>3. CASE ~Parallel(s[1])
  <2>1. proc[s].wrote = Parts[s[1]] * PartSize
    <3>1. proc[s].wrote \in Nat
      BY DEF CInv, Inv, TypeOK, WorkerRecord
    <3> QED
      BY <1>3, <3>1 DEF From, Full
  <2>2. ASSUME NEW t \in Slot, t[1] = s[1] PROVE data[t] = PartSize
    <3>1. data[t] = Within(proc[s].wrote, t)
      BY <1>1, <1>3, <2>2 DEF ChunkOK, StreamOK
    <3>2. t[2] \in Nat \ {0} /\ Parts[t[1]] \in Nat /\ t[2] <= Parts[t[1]]
      BY Chunks, ConstantTypes
    <3>3. /\ t[2] * PartSize <= Parts[t[1]] * PartSize
          /\ (t[2] - 1) * PartSize = t[2] * PartSize - PartSize
          /\ t[2] * PartSize \in Nat /\ Parts[t[1]] * PartSize \in Nat
      BY <1>1, <3>2, Multiples
    <3> DEFINE a == (t[2] - 1) * PartSize
               b == t[2] * PartSize
               c == Parts[t[1]] * PartSize
    <3>4. Within(c, t) = IF c <= a THEN 0 ELSE IF c >= b THEN PartSize ELSE c - a
      BY DEF Within
    <3>5. a = b - PartSize /\ b <= c /\ b \in Nat /\ c \in Nat
      BY <3>3
    <3> HIDE DEF a, b, c
    <3>6. Within(c, t) = PartSize
      BY <1>1, <3>4, <3>5
    <3> QED
      BY <2>1, <2>2, <3>1, <3>6 DEF c
  <2> QED
    BY <2>2 DEF Complete
<1> QED
  BY <1>2, <1>3

\* A helper connects, reports, ends or is lost.
LEMMA HelperTalksStep ==
  ASSUME CInv, NEW s \in Slot,
         HelperConnect(s) \/ HelperReport(s) \/ HelperDone(s) \/ HelperFail(s) \/ LinkLost(s)
  PROVE  Content'
<1>1. /\ proc[s].alive /\ UNCHANGED <<status, jobs, split, resume, slot, ledger, claim, data>>
  BY DEF HelperConnect, HelperReport, HelperDone, HelperFail, LinkLost, HelperFrame,
         queueVars, jobVars, fileVars, target
<1>2. \A t \in Slot : t # s => proc'[t] = proc[t]
  BY DEF HelperConnect, HelperReport, HelperDone, HelperFail, LinkLost, CInv, Inv, TypeOK
<1>3. /\ ChunkOK(s) /\ proc[s] \in WorkerRecord
      /\ proc[s].sent <= proc[s].wrote /\ (~proc[s].info => proc[s].wrote = 0)
      /\ proc[s].stage = "open" => proc[s].info
      /\ proc[s].alive /\ proc[s].stage \in {"handshake", "authed", "sent"} => ~proc[s].info
      /\ proc[s].stage \notin {"none", "nolaunch"}
      /\ proc[s].stage = "ok" => Complete(s)
      /\ proc[s].sent \in Nat /\ proc[s].wrote \in Nat
      /\ ~proc[s].info => proc[s].sent = 0
  BY <1>1 DEF CInv, Content, Inv, TypeOK, ChunkOK, WorkerOK, DoneOK, WorkerRecord
<1>4. \A w : proc' = [proc EXCEPT ![s] = w] => proc'[s] = w
  BY DEF CInv, Inv, TypeOK
<1>5. CASE HelperConnect(s)
  <2>1. /\ proc'[s].stage = "authed" /\ proc'[s].alive = proc[s].alive
        /\ proc'[s].info = proc[s].info /\ proc'[s].init = proc[s].init
        /\ proc'[s].wrote = proc[s].wrote /\ proc'[s].sent = proc[s].sent
        /\ proc[s].stage = "handshake"
    BY <1>3, <1>5 DEF HelperConnect, CInv, Inv, TypeOK, WorkerRecord
  <2> QED
    BY <1>1, <1>2, <1>3, <2>1, HelperTalks
<1>6. CASE HelperReport(s)
  <2>1. /\ proc'[s].stage = proc[s].stage /\ proc'[s].alive = proc[s].alive
        /\ proc'[s].info = proc[s].info /\ proc'[s].init = proc[s].init
        /\ proc'[s].wrote = proc[s].wrote /\ proc'[s].sent = proc[s].wrote
        /\ proc[s].stage = "open"
    BY <1>3, <1>6 DEF HelperReport, CInv, Inv, TypeOK, WorkerRecord
  <2> QED
    BY <1>1, <1>2, <1>3, <2>1, HelperTalks
<1>7. CASE HelperDone(s)
  <2>1. proc'[s] = Ended(s, "ok", TRUE)
    BY <1>4, <1>7 DEF HelperDone
  <2>2. Complete(s)
    BY <1>7, DoneIsComplete DEF HelperDone
  <2>3. /\ proc'[s].stage = "ok" /\ proc'[s].alive = TRUE
        /\ proc'[s].info = proc[s].info /\ proc'[s].init = proc[s].init
        /\ proc'[s].wrote = proc[s].sent /\ proc'[s].sent = proc[s].sent
    BY <1>3, <2>1 DEF Ended, WorkerRecord
  <2> QED
    BY <1>1, <1>2, <1>3, <2>3, <2>2, HelperTalks
<1>8. CASE HelperFail(s)
  <2>1. PICK r \in {"reject", "critical", "local"} : proc' = [proc EXCEPT ![s] = Ended(s, r, TRUE)]
    BY <1>8 DEF HelperFail
  <2>2. proc'[s] = Ended(s, r, TRUE)
    BY <1>4, <2>1
  <2>3. /\ proc'[s].stage = r /\ proc'[s].alive = TRUE
        /\ proc'[s].info = proc[s].info /\ proc'[s].init = proc[s].init
        /\ proc'[s].wrote = proc[s].sent /\ proc'[s].sent = proc[s].sent
    BY <1>3, <2>2 DEF Ended, WorkerRecord
  <2> QED
    BY <1>1, <1>2, <1>3, <2>3, HelperTalks
<1>9. CASE LinkLost(s)
  <2> DEFINE final == proc[s].stage \in {"ok", "critical", "local"}
             g == IF final THEN proc[s].stage ELSE "sent"
             h == IF proc[s].stage = "local" THEN "local" ELSE "sent"
             w == [Worker(h, FALSE, proc[s].conn, proc[s].init) EXCEPT !.lost = TRUE]
  <2>1. \/ proc' = [proc EXCEPT ![s] = Ended(s, g, FALSE)]
        \/ proc' = [proc EXCEPT ![s] = w]
    <3>1. [proc EXCEPT ![s] = Ended(s, IF final THEN @.stage ELSE "sent", FALSE)]
            = [proc EXCEPT ![s] = Ended(s, g, FALSE)]
      BY DEF CInv, Inv, TypeOK
    <3>2. [proc EXCEPT ![s] =
             [Worker(IF @.stage = "local" THEN "local" ELSE "sent", FALSE, @.conn, @.init)
                EXCEPT !.lost = TRUE]] = [proc EXCEPT ![s] = w]
      BY DEF CInv, Inv, TypeOK
    <3> HIDE DEF w, g
    <3> QED
      BY <1>9, <3>1, <3>2 DEF LinkLost
  <2>2. g \notin {"none", "nolaunch", "open"} /\ (g = "ok" => Complete(s))
    BY <1>3
  <2>3. h \in {"local", "sent"}
    OBVIOUS
  <2>4. /\ w.stage = h /\ w.alive = FALSE /\ w.info = FALSE /\ w.init = proc[s].init
        /\ w.wrote = 0 /\ w.sent = 0
    BY DEF Worker
  <2>5. CASE proc'[s] = Ended(s, g, FALSE)
    <3> HIDE DEF g
    <3>1. /\ proc'[s].stage = g /\ proc'[s].alive = FALSE
          /\ proc'[s].info = proc[s].info /\ proc'[s].init = proc[s].init
          /\ proc'[s].wrote = proc[s].sent /\ proc'[s].sent = proc[s].sent
      BY <1>3, <2>5 DEF Ended, WorkerRecord
    <3> QED
      BY <1>1, <1>2, <1>3, <2>2, <3>1, HelperTalks
  <2>6. CASE proc'[s] = w
    <3> HIDE DEF w, h
    <3>1. 0 <= 0 /\ 0 <= proc[s].wrote
      BY <1>3
    <3> QED
      BY <1>1, <1>2, <1>3, <2>3, <2>4, <2>6, <3>1, HelperTalks
  <2> HIDE DEF w, g
  <2> QED
    BY <1>4, <2>1, <2>5, <2>6
<1> QED
  BY <1>5, <1>6, <1>7, <1>8, <1>9

\* An item that is not split has no state file, and its first chunk only works.
LEMMA StreamAlone ==
  ASSUME CInv, NEW i \in Item, HasJob(i), ~Parallel(i)
  PROVE  /\ ledger[i] = "none"
         /\ \A t \in Slot : t[1] = i /\ t[2] # 1 => proc[t] = NoProc /\ slot[t].phase = "idle"
<1>1. Parts[i] \in Nat \ {0} /\ split[i] \in Nat \ {0}
  BY ConstantTypes DEF CInv, Inv, TypeOK
<1>2. ledger[i] = "none"
  BY <1>1 DEF CInv, Content, SplitOK, Parallel, Chunked
<1>3. ASSUME NEW t \in Slot, t[1] = i, t[2] # 1 PROVE proc[t] = NoProc /\ slot[t].phase = "idle"
  <2>1. ~InJob(t)
    <3>1. t[2] \in Nat \ {0}
      BY SlotType
    <3> QED
      BY <1>1, <1>3, <3>1 DEF InJob, Parallel
  <2> QED
    BY <1>3, <2>1, WorkerFacts DEF CInv, Content, ChunkOK, DoneOK
<1> QED
  BY <1>2, <1>3

\* A target that is truncated: no chunk of the item has anything to lose.
LEMMA TruncatesSafely ==
  ASSUME CInv, NEW s \in Slot, proc[s].alive, proc[s].stage = "sent",
         ~Parallel(s[1]) \/ proc[s].init, NEW t \in Slot, t[1] = s[1]
  PROVE  /\ ledger[s[1]] # "none" => claim[t] = 0
         /\ t # s => proc[t] = NoProc
         /\ slot[t].phase # "succeeded"
         /\ Parallel(s[1]) => /\ Opening(s[1]) /\ claim[t] = 0
                              /\ slot[t].done = 0 /\ slot[t].base = 0
<1>1. proc[s] # NoProc /\ ChunkOK(s) /\ s[1] \in Item /\ s[2] \in Nat /\ t[2] \in Nat \ {0}
  BY AliveIsProc, SlotType DEF CInv, Content
<1>2. /\ HasJob(s[1]) /\ status[s[1]] = "transferring" /\ slot[s].phase = "running"
      /\ (~Parallel(s[1]) => s[2] = 1)
  BY <1>1, WorkerFacts
<1>3. s[2] = 1
  BY <1>1, <1>2 DEF ChunkOK, WorkerOK
<1>4. t # s => t[2] > 1
  BY <1>1, <1>3, Chunks
<1>5. CASE ~Parallel(s[1])
  BY <1>1, <1>2, <1>4, <1>5, StreamAlone
<1>6. CASE Parallel(s[1])
  <2>1. Opening(s[1])
    <3>1. s[1] \in Upload /\ ~resume[s[1]] /\ ~slot[s].opened /\ s = Leader(s[1])
      BY <1>1, <1>3, <1>6, Chunks DEF ChunkOK, WorkerOK, Leader
    <3> QED
      BY <1>6, <3>1 DEF Opening
  <2> QED
    BY <1>4, <1>6, <2>1 DEF CInv, Content, ChunkOK, LeaderFirst
<1> QED
  BY <1>5, <1>6

\* A step of a helper that changes the target of its item only.
LEMMA TargetStep ==
  ASSUME CInv, NEW s \in Slot, UNCHANGED <<status, jobs, split, resume, slot, ledger, claim>>,
         \A t \in Slot : t # s => proc'[t] = proc[t],
         \A t \in Slot : t[1] # s[1] => data'[t] = data[t],
         \A t \in Slot : t[1] = s[1] => ChunkOK(t)'
  PROVE  Content'
<1>1. PICK i \in Item : i = s[1]
  BY SlotType
<1>2. SplitOK(i)'
  BY DEF CInv, Content, SplitOK, HasJob, Parallel
<1>3. \A j \in Item : j # i => SameItem(j)
  BY <1>1 DEF SameItem, HasJob
<1> QED
  BY <1>1, <1>2, <1>3, OneItem DEF CInv

\* A helper opens its target.
LEMMA HelperOpenStep == ASSUME CInv, NEW s \in Slot, HelperOpen(s) PROVE Content'
<1>1. /\ proc[s].alive /\ proc[s].stage = "sent"
      /\ UNCHANGED <<status, jobs, split, resume, slot, ledger, claim>>
  BY DEF HelperOpen, HelperFrame, queueVars, jobVars, fileVars
<1>2. /\ ChunkOK(s) /\ proc[s] \in WorkerRecord /\ proc[s] # NoProc
      /\ ~proc[s].info /\ proc[s].wrote = 0 /\ proc[s].sent <= 0 /\ proc[s].sent \in Nat
  BY <1>1, AliveIsProc DEF CInv, Content, Inv, TypeOK, ChunkOK, WorkerOK, WorkerRecord
<1>3. /\ proc'[s].stage = "open" /\ proc'[s].alive = proc[s].alive
      /\ proc'[s].info = TRUE /\ proc'[s].init = proc[s].init
      /\ proc'[s].wrote = proc[s].wrote /\ proc'[s].sent = proc[s].sent
  BY <1>2 DEF HelperOpen, CInv, Inv, TypeOK, WorkerRecord
<1>4. \A t \in Slot : t # s => proc'[t] = proc[t]
  BY DEF HelperOpen, CInv, Inv, TypeOK
<1>5. CASE Parallel(s[1]) /\ ~proc[s].init
  <2>1. data' = data
    BY <1>5 DEF HelperOpen, CInv, Inv, TypeOK
  <2> QED
    BY <1>1, <1>2, <1>3, <1>4, <1>5, <2>1, HelperTalks
<1>6. CASE ~Parallel(s[1]) \/ proc[s].init
  <2>1. \A t \in Slot : data'[t] = IF t[1] = s[1] THEN 0 ELSE data[t]
    BY <1>6 DEF HelperOpen
  <2>2. ASSUME NEW t \in Slot, t[1] = s[1] PROVE ChunkOK(t)'
    <3>1. /\ ledger[s[1]] # "none" => claim[t] = 0
          /\ t # s => proc[t] = NoProc
          /\ slot[t].phase # "succeeded"
          /\ Parallel(s[1]) => /\ Opening(s[1]) /\ claim[t] = 0
                               /\ slot[t].done = 0 /\ slot[t].base = 0
      BY <1>1, <1>6, <2>2, TruncatesSafely
    <3>2. data'[t] = 0 /\ status[s[1]] = "transferring"
      BY <1>2, <2>1, <2>2, WorkerFacts
    <3>3. ChunkOK(t)
      BY DEF CInv, Content
    <3>4. proc'[t].wrote = 0 /\ proc'[t].stage # "ok"
      BY <1>2, <1>3, <1>4, <3>1 DEF NoProc, Worker
    <3>5. WorkerOK(t)'
      <4>1. CASE t = s
        BY <1>1, <1>2, <1>3, <4>1 DEF ChunkOK, WorkerOK, Parallel
      <4>2. CASE t # s
        BY <1>1, <1>4, <3>3, <4>2 DEF ChunkOK, WorkerOK, Parallel
      <4> QED
        BY <4>1, <4>2
    <3>6. LeaderFirst(t)'
      <4>1. CASE t = s
        BY <1>1, <1>2, <4>1 DEF ChunkOK, LeaderFirst, Opening, Parallel
      <4>2. CASE t # s
        BY <1>1, <1>4, <3>3, <4>2 DEF ChunkOK, LeaderFirst, Opening, Parallel
      <4> QED
        BY <4>1, <4>2
    <3>7. DoneOK(t)'
      BY <1>1, <2>2, <3>1, <3>2, <3>3, <3>4 DEF ChunkOK, DoneOK, InJob, HasJob, Parallel
    <3>8. StreamOK(t)'
      <4>1. ASSUME NEW r \in Slot, r[1] = t[1] PROVE data'[r] = 0 /\ Within(0, r) = 0
        <5>1. r[2] - 1 \in Nat /\ PartSize \in Nat
          BY SlotType, ConstantTypes
        <5>2. 0 <= (r[2] - 1) * PartSize
          BY <5>1
        <5> QED
          BY <2>1, <2>2, <4>1, <5>2 DEF Within
      <4>2. \A r \in Slot : r[1] = t[1] => data'[r] = Within(proc'[t].wrote, r)
        BY <3>4, <4>1
      <4> QED
        BY <4>2 DEF StreamOK, Within
    <3>9. StoredOK(t)'
      BY <1>1, <2>2, <3>1, <3>2 DEF StoredOK
    <3> QED
      BY <3>5, <3>6, <3>7, <3>8, <3>9 DEF ChunkOK
  <2>3. \A t \in Slot : t[1] # s[1] => data'[t] = data[t]
    BY <2>1
  <2> QED
    BY <1>1, <1>4, <2>2, <2>3, TargetStep
<1> QED
  BY <1>5, <1>6

\* One more unit of the file reaches the chunk that it belongs to.
LEMMA WithinNext ==
  ASSUME NEW n \in Nat, NEW m \in Nat, m = n + 1, NEW t \in Slot
  PROVE  Within(m, t) = IF Within(n, t) < PartSize /\ (t[2] - 1) * PartSize + Within(n, t) = n
                        THEN Within(n, t) + 1 ELSE Within(n, t)
<1> DEFINE a == (t[2] - 1) * PartSize
           b == t[2] * PartSize
           old == Within(n, t)
           new == Within(m, t)
<1>1. PartSize \in Nat \ {0} /\ t[2] \in Nat \ {0}
  BY ConstantTypes, SlotType
<1>2. a \in Nat /\ b \in Nat /\ b = a + PartSize
  <2>1. t[2] - 1 \in Nat
    BY <1>1
  <2>2. a \in Nat /\ b \in Nat
    BY <1>1, <2>1
  <2>3. a = b - PartSize
    BY <1>1, Multiples
  <2> QED
    BY <1>1, <2>2, <2>3
<1>3. old = IF n <= a THEN 0 ELSE IF n >= b THEN PartSize ELSE n - a
  BY Zenon DEF Within
<1>4. new = IF m <= a THEN 0 ELSE IF m >= b THEN PartSize ELSE m - a
  BY Zenon DEF Within
<1> HIDE DEF a, b, old, new
<1>5. new = IF old < PartSize /\ a + old = n THEN old + 1 ELSE old
  BY <1>1, <1>2, <1>3, <1>4
<1> QED
  BY <1>5, Zenon DEF a, old, new

\* What is in the target stays there.
LEMMA Monotone ==
  ASSUME CInv, NEW s \in Slot, HelperWrite(s), NEW t \in Slot
  PROVE  data[t] <= data'[t] /\ (data[t] = PartSize => data'[t] = PartSize)
<1>1. data[t] \in 0..PartSize /\ PartSize \in Nat
  BY ConstantTypes DEF CInv, Inv, TypeOK
<1>2. data'[t] = data[t] \/ (data[t] < PartSize /\ data'[t] = data[t] + 1)
  BY DEF HelperWrite
<1> QED
  BY <1>1, <1>2

\* A helper writes a unit.
LEMMA HelperWriteStep == ASSUME CInv, NEW s \in Slot, HelperWrite(s) PROVE Content'
<1> DEFINE p == From(s) + proc[s].wrote
<1>1. /\ proc[s].alive /\ proc[s].stage = "open" /\ p < Full(s)
      /\ UNCHANGED <<status, jobs, split, resume, slot, ledger, claim>>
  BY DEF HelperWrite, HelperFrame, queueVars, jobVars, fileVars
<1>2. /\ ChunkOK(s) /\ proc[s] \in WorkerRecord /\ proc[s] # NoProc /\ slot[s] \in SlotRecord
      /\ proc[s].info /\ proc[s].sent <= proc[s].wrote
      /\ proc[s].sent \in Nat /\ proc[s].wrote \in Nat /\ slot[s].base \in Nat
  BY <1>1, AliveIsProc DEF CInv, Content, Inv, TypeOK, ChunkOK, WorkerOK, WorkerRecord, SlotRecord
<1>3. /\ proc'[s].stage = "open" /\ proc'[s].alive = proc[s].alive
      /\ proc'[s].info = proc[s].info /\ proc'[s].init = proc[s].init
      /\ proc'[s].wrote = proc[s].wrote + 1 /\ proc'[s].sent = proc[s].sent
  BY <1>1, <1>2 DEF HelperWrite, CInv, Inv, TypeOK, WorkerRecord
<1>4. \A t \in Slot : t # s => proc'[t] = proc[t]
  BY DEF HelperWrite, CInv, Inv, TypeOK
<1>5. /\ InJob(s) /\ HasJob(s[1]) /\ s[1] \in Item /\ s[2] \in Nat
      /\ ~Parallel(s[1]) => s[2] = 1
  BY <1>2, WorkerFacts, SlotType
<1>6. \A t \in Slot : t[1] # s[1] => data'[t] = data[t]
  BY DEF HelperWrite
<1>7. PartSize \in Nat \ {0} /\ \A t \in Slot : data[t] \in 0..PartSize /\ data'[t] \in Nat
  <2>1. \A t \in Slot : data[t] \in 0..PartSize
    BY DEF CInv, Inv, TypeOK
  <2> QED
    BY <2>1, ConstantTypes DEF HelperWrite
<1>8. Parallel(s[1]) => slot[s].base + proc'[s].wrote <= data'[s]
  <2> SUFFICES ASSUME Parallel(s[1]) PROVE slot[s].base + proc'[s].wrote <= data'[s]
    OBVIOUS
  <2>1. p = slot[s].base + proc[s].wrote /\ Full(s) = PartSize
    BY DEF From, Full
  <2>2. p <= data[s] /\ p < PartSize /\ p \in Nat
    BY <1>1, <1>2, <2>1 DEF ChunkOK, DoneOK
  <2>3. data[s] = p => data'[s] = p + 1
    <3> SUFFICES ASSUME data[s] = p PROVE data'[s] = p + 1
      OBVIOUS
    <3>1. data'[s] = IF /\ s[1] = s[1] /\ data[s] < PartSize
                        /\ (s[2] - 1) * PartSize + data[s] = (s[2] - 1) * PartSize + p
                     THEN data[s] + 1 ELSE data[s]
      BY DEF HelperWrite
    <3> HIDE DEF p
    <3> QED
      BY <2>2, <3>1
  <2>4. data[s] <= data'[s]
    BY Monotone
  <2> HIDE DEF p
  <2> QED
    BY <1>2, <1>3, <1>7, <2>1, <2>2, <2>3, <2>4
<1> HIDE DEF p
<1>9. ASSUME NEW t \in Slot, t[1] = s[1] PROVE ChunkOK(t)'
  <2>1. ChunkOK(t) /\ data[t] <= data'[t] /\ (data[t] = PartSize => data'[t] = PartSize)
    BY Monotone DEF CInv, Content
  <2>2. Complete(t) => Complete(t)'
    BY <1>1, Monotone DEF Complete, Parallel
  <2>3. WorkerOK(t)' /\ LeaderFirst(t)'
    <3>1. CASE t = s
      <4>1. WorkerOK(t)'
        <5>1. proc'[s].sent <= proc'[s].wrote
          BY <1>2, <1>3
        <5>2. WorkerOK(s)
          BY <1>2 DEF ChunkOK
        <5> QED
          BY <1>1, <1>2, <1>3, <3>1, <5>1, <5>2 DEF WorkerOK, Parallel
      <4>2. LeaderFirst(t)'
        BY <1>1, <1>2, <3>1 DEF ChunkOK, LeaderFirst, Opening, Parallel
      <4> QED
        BY <4>1, <4>2
    <3>2. CASE t # s
      BY <1>1, <1>4, <2>1, <3>2 DEF ChunkOK, WorkerOK, LeaderFirst, Opening, Parallel
    <3> QED
      BY <3>1, <3>2
  <2>4. StoredOK(t)'
    <3>1. claim[t] \in Nat
      BY DEF CInv, Inv, TypeOK
    <3> QED
      BY <1>1, <1>7, <2>1, <3>1 DEF ChunkOK, StoredOK
  <2>5. DoneOK(t)'
    <3>1. slot[t].done \in Nat /\ slot[t].base \in Nat /\ proc[t].wrote \in Nat
      BY DEF CInv, Inv, TypeOK, SlotRecord, WorkerRecord
    <3>2. Parallel(t[1]) => slot[t].done <= data'[t]
      BY <1>7, <2>1, <3>1 DEF ChunkOK, DoneOK
    <3>3. Parallel(t[1]) => slot[t].base + proc'[t].wrote <= data'[t]
      <4>1. CASE t = s
        BY <1>8, <4>1
      <4>2. CASE t # s
        BY <1>4, <1>7, <2>1, <3>1, <4>2 DEF ChunkOK, DoneOK
      <4> QED
        BY <4>1, <4>2
    <3>4. proc'[t].stage = "ok" => proc[t].stage = "ok"
      BY <1>3, <1>4
    <3> QED
      BY <1>1, <2>1, <2>2, <3>2, <3>3, <3>4 DEF ChunkOK, DoneOK, InJob, HasJob, Parallel
  <2>6. StreamOK(t)'
    <3> SUFFICES ASSUME ~Parallel(s[1]), proc'[t].stage = "open" PROVE StreamOK(t)'
      BY <1>1, <1>9 DEF StreamOK, Parallel
    <3>1. t = s
      <4>1. t[2] = 1
        BY <1>4, <1>5, <1>9, StreamAlone DEF NoProc, Worker
      <4> QED
        BY <1>5, <1>9, <4>1, Chunks
    <3>2. From(s) = 0 /\ (s[2] - 1) * PartSize = 0
      BY <1>5, <1>7 DEF From
    <3>3. ASSUME NEW r \in Slot, r[1] = s[1]
          PROVE  data'[r] = Within(proc'[s].wrote, r)
      <4>1. data[r] = Within(proc[s].wrote, r)
        BY <1>1, <1>2, <3>3 DEF ChunkOK, StreamOK
      <4>2. data'[r] = IF /\ data[r] < PartSize
                          /\ (r[2] - 1) * PartSize + data[r] = proc[s].wrote
                       THEN data[r] + 1 ELSE data[r]
        <5>1. data'[r] = IF /\ r[1] = s[1] /\ data[r] < PartSize
                            /\ (r[2] - 1) * PartSize + data[r]
                                 = (s[2] - 1) * PartSize + (From(s) + proc[s].wrote)
                         THEN data[r] + 1 ELSE data[r]
          BY DEF HelperWrite
        <5>2. (s[2] - 1) * PartSize + (From(s) + proc[s].wrote) = proc[s].wrote
          BY <1>2, <3>2
        <5> QED
          BY <3>3, <5>1, <5>2, Zenon
      <4>3. proc'[s].wrote \in Nat /\ proc'[s].wrote = proc[s].wrote + 1
        BY <1>2, <1>3
      <4> QED
        BY <1>2, <4>1, <4>2, <4>3, WithinNext
    <3> QED
      BY <3>1, <3>3 DEF StreamOK, Within
  <2> QED
    BY <2>3, <2>4, <2>5, <2>6 DEF ChunkOK
<1> QED
  BY <1>1, <1>4, <1>6, <1>9, TargetStep
-----------------------------------------------------------------------------
(* The invariant, and what follows from it.                                *)

\* It holds when the application starts for the first time.
LEMMA InitContent == Init => Content
<1> SUFFICES ASSUME Init PROVE Content
  OBVIOUS
<1>1. /\ \A i \in Item : ~HasJob(i) /\ split[i] = 1 /\ ledger[i] = "none" /\ status[i] = "absent"
      /\ \A s \in Slot : slot[s] = FreshSlot(0) /\ proc[s] = NoProc
  BY DEF Init, HasJob, Contains
<1>2. ASSUME NEW i \in Item PROVE SplitOK(i)
  BY <1>1 DEF SplitOK, Parallel
<1>3. ASSUME NEW s \in Slot PROVE ChunkOK(s)
  <2>1. s[1] \in Item /\ ~Parallel(s[1])
    BY <1>1, SlotType DEF Parallel
  <2>2. WorkerOK(s) /\ StreamOK(s)
    BY <1>1 DEF WorkerOK, StreamOK, NoProc, Worker
  <2>3. LeaderFirst(s) /\ StoredOK(s)
    BY <1>1, <2>1 DEF LeaderFirst, Opening, StoredOK
  <2>4. DoneOK(s)
    BY <1>1, <2>1, FreshSlotIdle DEF DoneOK, NoProc, Worker
  <2> QED
    BY <2>2, <2>3, <2>4 DEF ChunkOK
<1> QED
  BY <1>2, <1>3 DEF Content

\* Every step keeps it.
LEMMA NextContent == CInv /\ [Next]_vars => Content'
<1> SUFFICES ASSUME CInv, [Next]_vars PROVE Content'
  OBVIOUS
<1>1. CASE UNCHANGED vars
  BY <1>1, QueueSteps
<1>2. CASE \E s \in Slot : Helper(s) \/ DelayElapses(s)
  BY <1>2, HelperTalksStep, HelperOpenStep, HelperWriteStep, PhaseSteps DEF Helper
<1>3. CASE \E k \in DOMAIN idle : PooledLinkLost(k)
  BY <1>3, QueueSteps
<1>4. CASE Pump
  <2>1. CASE PumpBegin
    BY <2>1, PhaseSteps
  <2>2. CASE Fold
    BY <2>2, PhaseSteps, FoldRunningStep, FoldSucceededStep, FoldFailedStep,
       FoldOrphanStep, FoldJobEndStep, QueueSteps DEF Fold
  <2>3. CASE Dispatch
    BY <2>3, DispatchStep, QueueSteps DEF Dispatch
  <2> QED
    BY <1>4, <2>1, <2>2, <2>3 DEF Pump
<1>5. CASE User
  BY <1>5, QueueSteps, PhaseSteps, StopSteps DEF User
<1>6. CASE Crash
  BY <1>6, CrashStep
<1> QED
  BY <1>1, <1>2, <1>3, <1>4, <1>5, <1>6 DEF Next

\* The contents invariant, for settings that never switch between one channel and
\* several.
THEOREM ContentHolds == Steady => (Spec => []CInv)
<1> SUFFICES ASSUME Steady PROVE Spec => []CInv
  OBVIOUS
<1>1. Init => CInv
  BY InitTypes, InitAgrees, InitContent DEF CInv, Inv
<1>2. CInv /\ [Next]_vars => CInv'
  <2> SUFFICES ASSUME CInv, [Next]_vars PROVE CInv'
    OBVIOUS
  <2>1. TypeOK' /\ Agree'
    BY NextTypes, NextAgrees DEF CInv, Inv
  <2>2. Content'
    BY NextContent
  <2> QED
    BY <2>1, <2>2 DEF CInv, Inv
<1> QED
  BY <1>1, <1>2, PTL DEF Spec

\* What a state file says of a chunk is in its target, at every moment: a new session may
\* skip it (write_state_transferred against the truncating open).
THEOREM ClaimsAreSound == Steady => (Spec => []ClaimsSound)
<1> SUFFICES ASSUME Steady PROVE Spec => []ClaimsSound
  OBVIOUS
<1>1. CInv => ClaimsSound
  BY DEF CInv, Content, ChunkOK, StoredOK, ClaimsSound
<1> QED
  BY <1>1, ContentHolds, PTL

\* A chunk that counts as transferred is complete, and so is an item that is reported as
\* succeeded (pump_queue's s_ok branch and its fold).
THEOREM SuccessMeansComplete == Steady => (Spec => []SuccessIsComplete)
<1> SUFFICES ASSUME Steady PROVE Spec => []SuccessIsComplete
  OBVIOUS
<1>1. CInv => SuccessIsComplete
  <2> SUFFICES ASSUME CInv, NEW s \in Slot,
                      slot[s].phase = "succeeded" \/ status[s[1]] = "succeeded"
               PROVE  data[s] = PartSize
    BY DEF SuccessIsComplete
  <2>1. ChunkOK(s)
    BY DEF CInv, Content
  <2> QED
    BY <2>1 DEF ChunkOK, DoneOK, StoredOK, Complete
<1> QED
  BY <1>1, ContentHolds, PTL
-----------------------------------------------------------------------------
(* The queue implements ResumableCopy.                                     *)

\* The target changes when a helper opens or writes it, and at no other step.
LEMMA TargetSteps ==
  ASSUME CInv, [Next]_vars, data' # data
  PROVE  \E s \in Slot : HelperOpen(s) \/ HelperWrite(s)
<1>1. CASE \E s \in Slot : Helper(s) \/ DelayElapses(s)
  BY <1>1 DEF Helper, HelperConnect, HelperReport, HelperDone, HelperFail, LinkLost,
              DelayElapses, target
<1>2. CASE Pump
  <2>1. CASE PumpBegin \/ Fold
    BY <2>1 DEF PumpBegin, Fold, FoldExhausted, FoldRunning, FoldSucceeded, FoldFailed,
                FoldOrphan, FoldJobEnd, FoldEnd, target
  <2>2. CASE Dispatch
    <3>1. \A i : ActivateChunk(i) => UNCHANGED data
      BY DEF ActivateChunk, target
    <3>2. \A i : StartItem(i) => UNCHANGED data
      BY DEF StartItem
    <3>3. DispatchStrict \/ GrantFirst \/ ShareChannel => UNCHANGED data
      BY <3>1, <3>2 DEF DispatchStrict, GrantFirst, ShareChannel
    <3> QED
      BY <2>2, <3>3 DEF Dispatch, GrantSkip, GrantEnd, DispatchEnd, ReapIdle, target
  <2> QED
    BY <1>2, <2>1, <2>2 DEF Pump
<1>3. CASE User
  BY <1>3 DEF User, Enqueue, Pause, Start, RetryFailedParts, RemoveItem, PinTop,
              ApplySettings, target
<1>4. CASE Crash \/ (\E k \in DOMAIN idle : PooledLinkLost(k)) \/ UNCHANGED vars
  BY <1>4 DEF Crash, PooledLinkLost, vars, target
<1> QED
  BY <1>1, <1>2, <1>3, <1>4 DEF Next

\* A target is truncated only while no other chunk of its item has a helper, and no
\* progress of the item is on record (followers_ready, leader_should_initialize).
THEOREM TruncationIsSafe == Steady => (Spec => TruncatesNothing)
<1> SUFFICES ASSUME Steady PROVE Spec => TruncatesNothing
  OBVIOUS
<1> DEFINE Safe == \A s \in Slot : data'[s] < data[s] /\ Parallel(s[1]) =>
                     \A t \in SlotsOf(s[1]) :
                       /\ t[2] > 1 => proc[t] = NoProc
                       /\ slot[t].done = 0 /\ claim[t] = 0
<1>1. CInv /\ [Next]_vars => [Safe]_data
  <2> SUFFICES ASSUME CInv, [Next]_vars, data' # data,
                      NEW s \in Slot, data'[s] < data[s], Parallel(s[1]),
                      NEW t \in Slot, t[1] = s[1]
               PROVE  /\ t[2] > 1 => proc[t] = NoProc
                      /\ slot[t].done = 0 /\ claim[t] = 0
    BY DEF SlotsOf
  <2>1. PICK r \in Slot : HelperOpen(r) \/ HelperWrite(r)
    BY TargetSteps
  <2>2. data[s] \in Nat /\ data'[s] \in Nat
    <3>1. TypeOK'
      BY NextTypes DEF CInv, Inv
    <3> QED
      BY <3>1 DEF CInv, Inv, TypeOK
  <2>3. HelperOpen(r)
    BY <2>1, <2>2, Monotone
  <2>4. r[1] = s[1] /\ proc[r].init /\ proc[r].alive /\ proc[r].stage = "sent"
    <3>1. data'[s] = IF (~Parallel(r[1]) \/ proc[r].init) /\ s[1] = r[1] THEN 0 ELSE data[s]
      BY <2>3 DEF HelperOpen
    <3> QED
      BY <2>2, <2>3, <3>1 DEF HelperOpen
  <2>5. r[2] = 1
    BY <2>4 DEF CInv, Content, ChunkOK, WorkerOK
  <2> QED
    BY <2>4, <2>5, TruncatesSafely
<1> HIDE DEF Safe
<1>2. Spec => [][Safe]_data
  BY <1>1, ContentHolds, PTL DEF Spec
<1> QED
  BY <1>2 DEF TruncatesNothing, Safe

\* What ResumableCopy sees of the state files and of the queue.
Saved == [s \in Slot |-> IF ledger[s[1]] = "none" THEN 0 ELSE claim[s]]
Delivered == {i \in Item : status[i] = "succeeded"}

\* A step of ResumableCopy, or none.
Promised == [Promise!Next]_(Promise!vars)

\* The queue, the jobs and the workers: at most a finished item is taken up again.
LEMMA ReopenStep ==
  ASSUME UNCHANGED <<data, Saved>>,
         \A i \in Item : status'[i] = "succeeded" => status[i] = "succeeded"
  PROVE  Promised
<1>1. Delivered' \in SUBSET Delivered
  BY DEF Delivered
<1>2. Promise!Reopen
  BY <1>1 DEF Promise!Reopen, Saved, Delivered
<1> QED
  BY <1>2 DEF Promised, Promise!Next

\* The record of one chunk's progress.
LEMMA SaveStep ==
  ASSUME CInv, NEW s \in Slot, UNCHANGED <<status, ledger, data>>,
         \A t \in Slot : t # s => claim'[t] = claim[t],
         claim'[s] = claim[s] \/ claim'[s] \in 0..data[s]
  PROVE  Promised
<1>1. CASE Saved' = Saved
  BY <1>1, ReopenStep
<1>2. CASE Saved' # Saved
  <2>1. \A t \in Slot : t # s => Saved'[t] = Saved[t]
    BY DEF Saved
  <2>2. Saved'[s] \in 0..data[s]
    <3>1. Saved'[s] # Saved[s]
      BY <1>2, <2>1 DEF Saved
    <3> QED
      BY <3>1 DEF Saved
  <2>3. Saved' = [Saved EXCEPT ![s] = Saved'[s]]
    BY <2>1 DEF Saved
  <2>4. Promise!Save(s)
    <3>1. \E n \in 0..data[s] : Saved' = [Saved EXCEPT ![s] = n]
      BY <2>2, <2>3
    <3> QED
      BY <3>1 DEF Promise!Save, Saved
  <2> QED
    BY <2>4 DEF Promised, Promise!Next
<1> QED
  BY <1>1, <1>2

\* Folding a worker saves what its chunk really has.
LEMMA FoldSaves ==
  ASSUME CInv, CInv', NEW s \in Slot,
         FoldExhausted(s) \/ FoldRunning(s) \/ FoldSucceeded(s) \/ FoldFailed(s)
  PROVE  Promised
<1>1. /\ UNCHANGED <<status, ledger, data>>
      /\ claim' = claim \/ (Parallel(s[1]) /\ \E n : claim' = [claim EXCEPT ![s] = n])
  BY DEF FoldExhausted, FoldRunning, FoldSucceeded, FoldFailed, Claimed, queueVars, fileVars,
         target
<1>2. \A t \in Slot : t # s => claim'[t] = claim[t]
  BY <1>1 DEF CInv, Inv, TypeOK
<1>3. Parallel(s[1]) => claim'[s] \in 0..data[s]
  <2> SUFFICES ASSUME Parallel(s[1]) PROVE claim'[s] \in 0..data[s]
    OBVIOUS
  <2>1. ledger[s[1]] # "none" /\ s[1] \in Item
    BY SlotType DEF CInv, Content, SplitOK
  <2>2. claim'[s] <= data'[s] /\ claim'[s] \in Nat /\ data[s] \in Nat
    <3>1. ledger'[s[1]] # "none" => claim'[s] <= data'[s]
      BY DEF CInv, Content, ChunkOK, StoredOK
    <3> QED
      BY <1>1, <2>1, <3>1 DEF CInv, Inv, TypeOK
  <2> QED
    BY <1>1, <2>2
<1> QED
  BY <1>1, <1>2, <1>3, SaveStep

\* The pump decides a job: a success delivers the file, and removes its state file.
LEMMA FoldJobEndDelivers == ASSUME CInv, FoldJobEnd PROVE Promised
<1>0. PICK i \in Item : i = JobItem /\ at.job \in 1..Len(jobs) /\ i = jobs[at.job]
  BY JobItemType DEF FoldJobEnd, CInv, Inv, JobItem
<1>1. i = JobItem /\ HasJob(i) /\ UNCHANGED <<claim, data>>
  BY <1>0 DEF FoldJobEnd, target, HasJob, Contains
<1>2. /\ ledger'[i] = IF DecideParent(i) = "succeeded" THEN "none"
                      ELSE IF MarksReady(i) THEN "ready" ELSE ledger[i]
      /\ \A j \in Item : j # i => ledger'[j] = ledger[j]
  BY <1>1 DEF FoldJobEnd, CInv, Inv, TypeOK
<1>3. /\ \A j \in Item : j # i => status'[j] = status[j]
      /\ status'[i] = IF DecideParent(i) = "transferring" THEN status[i] ELSE DecideParent(i)
  BY <1>1 DEF FoldJobEnd, CInv, Inv, TypeOK
<1>4. CASE DecideParent(i) # "succeeded"
  <2>1. \A s \in Slot : Saved'[s] = Saved[s]
    <3>1. MarksReady(i) => ledger[i] # "none"
      BY DEF MarksReady, CInv, Content, SplitOK
    <3> QED
      BY <1>1, <1>2, <1>4, <3>1, SlotType DEF Saved
  <2>2. Saved' = Saved
    BY <2>1 DEF Saved
  <2> QED
    BY <1>1, <1>3, <1>4, <2>2, ReopenStep
<1>5. CASE DecideParent(i) = "succeeded"
  <2>1. \A s \in Slot : s[1] = i => data[s] = PartSize
    BY <1>1, <1>5, VerdictSound
  <2>2. Delivered' = Delivered \cup {i}
    BY <1>3, <1>5 DEF Delivered
  <2>3. Saved' = [s \in Slot |-> IF s[1] = i THEN 0 ELSE Saved[s]]
    BY <1>1, <1>2, <1>5, SlotType DEF Saved
  <2>4. Promise!Deliver(i)
    BY <1>1, <2>1, <2>2, <2>3
       DEF Promise!Deliver, Promise!Whole, Promise!Cleared, Saved, Delivered
  <2> QED
    BY <2>4 DEF Promised, Promise!Next
<1> QED
  BY <1>4, <1>5

\* A new job goes on from what is saved, or forgets it.
LEMMA StartItemForgets == ASSUME CInv, NEW i \in Item, StartItem(i) PROVE Promised
<1>1. UNCHANGED <<status, data>>
  BY DEF StartItem
<1>2. CASE UNCHANGED <<ledger, claim>>
  <2>1. Saved' = Saved
    BY <1>2 DEF Saved
  <2> QED
    BY <1>1, <2>1, ReopenStep
<1>3. CASE /\ ledger' = [ledger EXCEPT ![i] = IF i \in Upload THEN "waiting" ELSE "ready"]
           /\ claim' = [s \in Slot |-> IF s[1] = i THEN 0 ELSE claim[s]]
  <2>1. \A j \in Item : j # i => ledger'[j] = ledger[j]
    BY <1>3 DEF CInv, Inv, TypeOK
  <2>2. Saved' = [s \in Slot |-> IF s[1] = i THEN 0 ELSE Saved[s]]
    BY <1>3, <2>1, SlotType DEF Saved
  <2>3. Promise!Forget(i)
    BY <1>1, <2>2 DEF Promise!Forget, Promise!Cleared, Saved
  <2> QED
    BY <2>3 DEF Promised, Promise!Next
<1> QED
  BY <1>2, <1>3 DEF StartItem

\* A helper opens its target: a truncation starts a file over of which nothing is saved.
LEMMA OpenRestarts == ASSUME CInv, NEW s \in Slot, HelperOpen(s) PROVE Promised
<1>1. UNCHANGED <<status, ledger, claim>>
  BY DEF HelperOpen, HelperFrame, queueVars, fileVars
<1>2. Saved' = Saved
  BY <1>1 DEF Saved
<1>3. CASE Parallel(s[1]) /\ ~proc[s].init
  <2>1. data' = data
    BY <1>3 DEF HelperOpen, CInv, Inv, TypeOK
  <2> QED
    BY <1>1, <1>2, <2>1, ReopenStep
<1>4. CASE ~Parallel(s[1]) \/ proc[s].init
  <2>1. PICK i \in Item : i = s[1]
    BY SlotType
  <2>2. data' = [t \in Slot |-> IF t[1] = i THEN 0 ELSE data[t]]
    BY <1>4, <2>1 DEF HelperOpen
  <2>3. i \notin Delivered
    <3>1. status[i] = "transferring"
      BY <2>1, AliveIsProc, WorkerFacts DEF HelperOpen
    <3> QED
      BY <3>1 DEF Delivered
  <2>4. \A t \in Slot : t[1] = i => Saved[t] = 0
    BY <1>4, <2>1, TruncatesSafely DEF HelperOpen, Saved
  <2>5. Promise!Restart(i)
    BY <1>1, <1>2, <2>2, <2>3, <2>4
       DEF Promise!Restart, Promise!Cleared, Saved, Delivered
  <2> QED
    BY <2>5 DEF Promised, Promise!Next
<1> QED
  BY <1>3, <1>4

\* Two chunks of a file have no unit in common.
LEMMA UnitsApart ==
  ASSUME NEW a \in Nat \ {0}, NEW b \in Nat \ {0}, NEW x \in 0..(PartSize - 1),
         NEW y \in 0..(PartSize - 1), (a - 1) * PartSize + x = (b - 1) * PartSize + y
  PROVE  a = b
<1>1. PartSize \in Nat \ {0}
  BY ConstantTypes
<1>2. ASSUME NEW c \in Nat \ {0}, NEW d \in Nat \ {0}, c < d,
             NEW v \in 0..(PartSize - 1), NEW w \in 0..(PartSize - 1)
      PROVE  (c - 1) * PartSize + v # (d - 1) * PartSize + w
  <2>1. c \in Nat /\ d - 1 \in Nat /\ c <= d - 1
    BY <1>2
  <2>2. /\ c * PartSize \in Nat /\ c * PartSize <= (d - 1) * PartSize
        /\ (c - 1) * PartSize = c * PartSize - PartSize
    BY <1>1, <2>1, Multiples
  <2>3. (d - 1) * PartSize \in Nat
    BY <1>1, <2>1
  <2> DEFINE e == (d - 1) * PartSize
             f == c * PartSize
             g == (c - 1) * PartSize
  <2>4. f \in Nat /\ e \in Nat /\ f <= e /\ g = f - PartSize
    BY <2>2, <2>3
  <2> HIDE DEF e, f, g
  <2>5. g + v # e + w
    BY <1>1, <1>2, <2>4
  <2> QED
    BY <2>5 DEF e, g
<1> QED
  BY <1>2

\* A helper writes a unit: of at most one chunk.
LEMMA WriteCopies == ASSUME CInv, NEW s \in Slot, HelperWrite(s) PROVE Promised
<1> DEFINE unit == (s[2] - 1) * PartSize + (From(s) + proc[s].wrote)
           Grows(t) == /\ t[1] = s[1] /\ data[t] < PartSize
                       /\ (t[2] - 1) * PartSize + data[t] = unit
<1>1. /\ UNCHANGED <<status, ledger, claim>>
      /\ data' = [t \in Slot |-> IF Grows(t) THEN data[t] + 1 ELSE data[t]]
  BY DEF HelperWrite, HelperFrame, queueVars, fileVars
<1>2. Saved' = Saved /\ Delivered' = Delivered
  BY <1>1 DEF Saved, Delivered
<1>3. PartSize \in Nat \ {0} /\ data \in [Slot -> 0..PartSize]
  BY ConstantTypes DEF CInv, Inv, TypeOK
<1>4. ASSUME NEW t \in Slot, NEW r \in Slot, Grows(t), Grows(r) PROVE t = r
  <2>1. t[2] \in Nat \ {0} /\ r[2] \in Nat \ {0}
    BY SlotType
  <2>2. data[t] \in 0..(PartSize - 1) /\ data[r] \in 0..(PartSize - 1)
    BY <1>3, <1>4
  <2>3. (t[2] - 1) * PartSize + data[t] = (r[2] - 1) * PartSize + data[r]
    BY <1>4
  <2>4. t[2] = r[2]
    BY <2>1, <2>2, <2>3, UnitsApart
  <2> QED
    BY <1>4, <2>4, Chunks
<1> HIDE DEF Grows
<1>5. CASE \E t \in Slot : Grows(t)
  <2>1. PICK t \in Slot : Grows(t)
    BY <1>5
  <2>2. data' = [data EXCEPT ![t] = data[t] + 1]
    <3>1. \A r \in Slot : Grows(r) <=> r = t
      BY <1>4, <2>1
    <3> QED
      BY <1>1, <1>3, <3>1
  <2>3. data[t] < PartSize
    BY <2>1 DEF Grows
  <2>4. Promise!Copy(t)
    BY <1>2, <2>2, <2>3 DEF Promise!Copy, Saved, Delivered
  <2> QED
    BY <2>4 DEF Promised, Promise!Next
<1>6. CASE ~\E t \in Slot : Grows(t)
  <2>1. data' = data
    BY <1>1, <1>3, <1>6
  <2> QED
    BY <1>1, <1>2, <2>1, ReopenStep
<1> QED
  BY <1>5, <1>6

\* Steps that move no content and decide nothing.
LEMMA OtherPromised ==
  ASSUME CInv, UNCHANGED <<ledger, claim, data>>,
         \A i \in Item : status'[i] = "succeeded" => status[i] = "succeeded"
  PROVE  Promised
<1>1. Saved' = Saved
  BY DEF Saved
<1> QED
  BY <1>1, ReopenStep

\* Every step of a helper is one of ResumableCopy.
LEMMA HelperPromised ==
  ASSUME CInv, NEW s \in Slot, Helper(s) \/ DelayElapses(s) PROVE Promised
<1>1. CASE HelperOpen(s)
  BY <1>1, OpenRestarts
<1>2. CASE HelperWrite(s)
  BY <1>2, WriteCopies
<1>3. CASE \/ HelperConnect(s) \/ HelperReport(s) \/ HelperDone(s) \/ HelperFail(s)
           \/ LinkLost(s) \/ DelayElapses(s)
  <2>1. UNCHANGED <<status, ledger, claim, data>>
    BY <1>3 DEF HelperConnect, HelperReport, HelperDone, HelperFail, LinkLost, DelayElapses,
                HelperFrame, queueVars, fileVars, target
  <2> QED
    BY <2>1, OtherPromised
<1> QED
  BY <1>1, <1>2, <1>3 DEF Helper

\* So is every step of the pump.
LEMMA PumpPromised == ASSUME CInv, CInv', Pump PROVE Promised
<1>1. CASE PumpBegin \/ FoldOrphan \/ FoldEnd \/ GrantSkip \/ GrantEnd \/ DispatchEnd \/ ReapIdle
  <2>1. UNCHANGED <<status, ledger, claim, data>>
    BY <1>1 DEF PumpBegin, FoldOrphan, FoldEnd, GrantSkip, GrantEnd, DispatchEnd, ReapIdle,
                queueVars, fileVars, target
  <2> QED
    BY <2>1, OtherPromised
<1>2. CASE \E s \in Slot : FoldExhausted(s) \/ FoldRunning(s) \/ FoldSucceeded(s) \/ FoldFailed(s)
  BY <1>2, FoldSaves
<1>3. CASE FoldJobEnd
  BY <1>3, FoldJobEndDelivers
<1>4. ASSUME NEW i \in Item, ActivateChunk(i) PROVE Promised
  <2>1. /\ UNCHANGED <<ledger, claim, data>>
        /\ \A j \in Item : status'[j] = "succeeded" => status[j] = "succeeded"
    BY <1>4 DEF ActivateChunk, fileVars, target, CInv, Inv, TypeOK
  <2> QED
    BY <2>1, OtherPromised
<1>5. CASE DispatchStrict \/ GrantFirst \/ ShareChannel
  <2>1. PICK i \in Item : ActivateChunk(i) \/ (~HasJob(i) /\ StartItem(i))
    BY <1>5, DispatchStarts DEF CInv
  <2> QED
    BY <2>1, <1>4, StartItemForgets
<1> QED
  BY <1>1, <1>2, <1>3, <1>5 DEF Pump, Fold, Dispatch

\* And of the user.
LEMMA UserPromised ==
  ASSUME CInv, User \/ Crash \/ (\E k \in DOMAIN idle : PooledLinkLost(k)) \/ UNCHANGED vars
  PROVE  Promised
<1>1. UNCHANGED <<ledger, claim, data>>
  BY DEF User, Enqueue, Pause, Start, RetryFailedParts, RemoveItem, PinTop, ApplySettings,
         Crash, PooledLinkLost, vars, fileVars, target
<1>2. \/ status' = status
      \/ status' = [i \in Item |-> "absent"]
      \/ \E i \in Item : \/ status' = [status EXCEPT ![i] = "queued"]
                         \/ status' = [status EXCEPT ![i] = "absent"]
  BY DEF User, Enqueue, Pause, Start, RetryFailedParts, RemoveItem, PinTop, ApplySettings,
         Crash, PooledLinkLost, vars, queueVars
<1>3. \A i \in Item : status'[i] = "succeeded" => status[i] = "succeeded"
  BY <1>2 DEF CInv, Inv, TypeOK
<1> QED
  BY <1>1, <1>3, OtherPromised

\* The queue, with its retries, pauses, removals and crashes, and the helpers that open and
\* truncate targets on their own, implements ResumableCopy.
THEOREM QueueImplementsCopy == Steady => (Spec => ImplementsCopy)
<1> SUFFICES ASSUME Steady PROVE Spec => ImplementsCopy
  OBVIOUS
<1>1. Init => Promise!Init
  <2> SUFFICES ASSUME Init PROVE Promise!Init
    OBVIOUS
  <2>1. Saved = [s \in Slot |-> 0] /\ Delivered = {}
    BY SlotType DEF Init, Saved, Delivered
  <2> QED
    BY <2>1 DEF Init, Promise!Init, Saved, Delivered
<1>2. CInv /\ CInv' /\ [Next]_vars => [Promise!Next]_(Promise!vars)
  <2> SUFFICES ASSUME CInv, CInv', [Next]_vars PROVE Promised
    BY DEF Promised
  <2> QED
    BY HelperPromised, PumpPromised, UserPromised DEF Next
<1> QED
  BY <1>1, <1>2, ContentHolds, PTL DEF Spec, ImplementsCopy, Promise!Spec

\* What ResumableCopy promises of what is copied, saved and delivered.
SoundOf(copied, saved, delivered) ==
  /\ copied \in [Slot -> 0..PartSize] /\ saved \in [Slot -> Nat]
  /\ \A c \in Slot : saved[c] <= copied[c]
  /\ \A f \in delivered : \A c \in Slot : c[1] = f => copied[c] = PartSize

\* In those terms, before a step and after it.
LEMMA SoundIs ==
  /\ Promise!Sound <=> SoundOf(data, Saved, Delivered)
  /\ Promise!Sound' <=> SoundOf(data', Saved', Delivered')
BY DEF Promise!Sound, Promise!Whole, SoundOf, Saved, Delivered

\* ResumableCopy starts with nothing copied, saved or delivered.
LEMMA InitPromised == Promise!Init => Promise!Sound
BY SchedulerAssumption DEF Promise!Init, Promise!Sound, Promise!Whole

\* Its steps keep what is saved inside what was copied, and delivered files whole.
LEMMA NextPromised == Promise!Sound /\ [Promise!Next]_(Promise!vars) => Promise!Sound'
<1> SUFFICES ASSUME SoundOf(data, Saved, Delivered), [Promise!Next]_(Promise!vars)
             PROVE  SoundOf(data', Saved', Delivered')
  BY SoundIs
<1>0. PartSize \in Nat
  BY SchedulerAssumption
<1>1. ASSUME NEW c \in Slot, Promise!Copy(c) PROVE SoundOf(data', Saved', Delivered')
  <2>1. /\ data[c] < PartSize /\ data' = [data EXCEPT ![c] = @ + 1]
        /\ Saved' = Saved /\ Delivered' = Delivered
    BY <1>1 DEF Promise!Copy, Saved, Delivered
  <2> QED
    BY <1>0, <2>1 DEF SoundOf
<1>2. ASSUME NEW c \in Slot, Promise!Save(c) PROVE SoundOf(data', Saved', Delivered')
  <2>1. \E n \in 0..data[c] : Saved' = [Saved EXCEPT ![c] = n]
    BY <1>2 DEF Promise!Save, Saved
  <2>2. data' = data /\ Delivered' = Delivered
    BY <1>2 DEF Promise!Save, Delivered
  <2> QED
    BY <1>0, <2>1, <2>2 DEF SoundOf
<1>3. ASSUME NEW f \in Item, Promise!Forget(f) PROVE SoundOf(data', Saved', Delivered')
  <2>1. /\ Saved' = [c \in Slot |-> IF c[1] = f THEN 0 ELSE Saved[c]]
        /\ data' = data /\ Delivered' = Delivered
    BY <1>3 DEF Promise!Forget, Promise!Cleared, Saved, Delivered
  <2> QED
    BY <1>0, <2>1 DEF SoundOf
<1>4. ASSUME NEW f \in Item, Promise!Restart(f) PROVE SoundOf(data', Saved', Delivered')
  <2>1. /\ f \notin Delivered /\ \A c \in Slot : c[1] = f => Saved[c] = 0
        /\ data' = [c \in Slot |-> IF c[1] = f THEN 0 ELSE data[c]]
        /\ Saved' = Saved /\ Delivered' = Delivered
    BY <1>4 DEF Promise!Restart, Promise!Cleared, Saved, Delivered
  <2> QED
    BY <1>0, <2>1 DEF SoundOf
<1>5. ASSUME NEW f \in Item, Promise!Deliver(f) PROVE SoundOf(data', Saved', Delivered')
  <2>1. /\ \A c \in Slot : c[1] = f => data[c] = PartSize
        /\ Saved' = [c \in Slot |-> IF c[1] = f THEN 0 ELSE Saved[c]]
        /\ data' = data /\ Delivered' = Delivered \cup {f}
    BY <1>5 DEF Promise!Deliver, Promise!Whole, Promise!Cleared, Saved, Delivered
  <2> QED
    BY <1>0, <2>1 DEF SoundOf
<1>6. CASE Promise!Reopen
  <2>1. Delivered' \in SUBSET Delivered /\ data' = data /\ Saved' = Saved
    BY <1>6 DEF Promise!Reopen, Saved, Delivered
  <2> QED
    BY <2>1 DEF SoundOf
<1>7. CASE UNCHANGED Promise!vars
  <2>1. UNCHANGED <<data, Saved, Delivered>>
    BY <1>7 DEF Promise!vars, Saved, Delivered
  <2> QED
    BY <2>1
<1> QED
  BY <1>1, <1>2, <1>3, <1>4, <1>5, <1>6, <1>7 DEF Promise!Next

\* What a later session may skip is in the target, and a delivered file is whole: whatever
\* keeps to ResumableCopy has that, ...
THEOREM CopySound == Promise!Spec => []Promise!Sound
BY InitPromised, NextPromised, PTL DEF Promise!Spec

\* ... and the queue does keep to it.
THEOREM QueueIsSound == Steady => (Spec => []Promise!Sound)
BY QueueImplementsCopy, CopySound, PTL DEF ImplementsCopy, Steady
=============================================================================
