-------------------------- MODULE TransferScheduler --------------------------
(***************************************************************************)
(* The transfer queue of Parvion (sftp_remote in session.hpp) with the     *)
(* chunk retry policy of chunk_retry.hpp, the transfer workers             *)
(* (xfer_worker) and the PARVIONC2 state file of a parallel transfer       *)
(* (resume.hpp).                                                           *)
(*                                                                         *)
(* Actors: the UI thread, which runs the pump and the user's queue         *)
(* actions; one helper process per worker, which moves the bytes; and the  *)
(* user or the system, who may kill the whole application.                 *)
(*                                                                         *)
(* An item is one file of Parts[i] chunks of PartSize units.  A transfer   *)
(* moves its chunks in parallel, or, when the settings allow one channel   *)
(* only, the whole file as one stream.  Contents are abstracted to         *)
(* `data[s]': how many leading units of chunk s the target really holds.   *)
(***************************************************************************)
EXTENDS Integers, Sequences, FiniteSets, SequencesExt

CONSTANTS
  Item,          \* files that may be queued
  Upload,        \* the items that go to the server; the others are downloads
  Parts,         \* Parts[i]: chunks of item i when more than one channel is allowed
  MaxParts,      \* bound of Parts
  PartSize,      \* units per chunk
  Limits,        \* settings the user may choose: [conn, tries] records
  ConnectBurst,  \* parallel_connect_burst
  Pooling,       \* xfer_idle_sec > 0
  NewFileFirst,  \* cfg.transfer_allocation = allocation_new_file_first
  PumpAtomic,    \* helpers move between two pumps only (see Between)
  MaxFaults,     \* bound on failures of helpers and connections
  MaxOps         \* bound on user actions and crashes

ASSUME SchedulerAssumption ==
  /\ IsFiniteSet(Item) /\ Upload \subseteq Item
  /\ MaxParts \in Nat \ {0}
  /\ Parts \in [Item -> 1..MaxParts]
  /\ PartSize \in Nat \ {0}
  /\ Limits \subseteq [conn : Nat \ {0}, tries : Nat]
  /\ \A l \in Limits : l.conn = 1 \/ l.conn >= MaxParts
  /\ ConnectBurst \in Nat \ {0}
  /\ Pooling \in BOOLEAN
  /\ NewFileFirst \in BOOLEAN
  /\ PumpAtomic \in BOOLEAN
  /\ MaxFaults \in Nat
  /\ MaxOps \in Nat

VARIABLES
  order,    \* queue: the items, in queue order
  status,   \* queue_item::status
  paused,   \* queue_item::paused
  jobs,     \* transfer_jobs: the items with a job, in job order
  cursor,   \* allocation_cursor (from 0, as in the code)
  split,    \* how many chunks the job of an item has (1: single stream, or no job)
  resume,   \* transfer_job::resume
  ready,    \* transfer_job::state_ready_written
  slot,     \* chunk_slot and the attach flags of job_chunk
  proc,     \* job_chunk::proc: the worker of a running chunk
  idle,     \* idle_pool: is the connection of each pooled worker alive
  limits,   \* max_connections and max_reconnect_tries
  pc,       \* where the UI thread is in poll()
  at,       \* [job, part] cursor of the pump's loops
  ledger,   \* state file: "none", "waiting" or "ready"
  claim,    \* state file: part[c].transferred
  data,     \* the target: leading units of each chunk it holds
  stale,    \* the target may hold bytes of the file it replaces
  faults,   \* failures so far
  ops       \* user actions and crashes so far

queueVars == <<order, status, paused>>
jobVars   == <<jobs, cursor, split, resume, ready, slot>>
pumpVars  == <<pc, at>>
fileVars  == <<ledger, claim>>
target    == <<data, stale>>
counts    == <<faults, ops>>
vars == <<queueVars, jobVars, proc, idle, limits, pumpVars, fileVars, target, counts>>

-----------------------------------------------------------------------------
(* Chunks, slots and workers.                                              *)

Slot == {s \in Item \X (1..MaxParts) : s[2] <= Parts[s[1]]}
SlotsOf(i) == {s \in Slot : s[1] = i /\ s[2] <= split[i]}
Leader(i) == <<i, 1>>
Parallel(i) == split[i] > 1

\* chunk_full: the units of the chunk, of the whole file for a single stream.
Full(s) == IF Parallel(s[1]) THEN PartSize ELSE Parts[s[1]] * PartSize

Phases  == {"idle", "running", "retry_wait", "succeeded", "failed"}
Origins == {"none", "connection", "reject", "local"}
Dues    == {"after_delay", "next_pump", "this_pump"}
Stages  == {"none", "nolaunch", "handshake", "authed", "sent", "open",
            "ok", "reject", "critical", "local"}

FreshSlot(d) ==
  [phase |-> IF d >= PartSize THEN "succeeded" ELSE "idle", done |-> d,
   opened |-> FALSE, origin |-> "none", attempts |-> 0, base |-> 0,
   due |-> "after_delay", armed |-> FALSE, ripe |-> FALSE,
   counted |-> FALSE, reused |-> FALSE]

\* conn: the worker is in state s_connecting; init: parvion-put with init flag 1.
Worker(stage, alive, conn, init) ==
  [stage |-> stage, alive |-> alive, conn |-> conn, init |-> init,
   info |-> FALSE, wrote |-> 0, sent |-> 0, lost |-> FALSE]
NoProc == Worker("none", FALSE, FALSE, FALSE)

Busy       == {s \in Slot : proc[s].stage \notin {"none", "nolaunch"}}
Connecting == {s \in Busy : proc[s].conn}
HasJob(i)  == Contains(jobs, i)
InQueue(i) == Contains(order, i)

-----------------------------------------------------------------------------
(* chunk_retry.hpp                                                         *)

\* Mutant: one reconnect too many.
AutoRetryOffByOne(origin, attempts, tries) ==
  origin = "connection" /\ (tries = 0 \/ attempts <= tries)

ShouldAutoRetry(origin, attempts, tries) ==
  origin = "connection" /\ (tries = 0 \/ attempts < tries)

\* armed: the slot was armed by the pump that is running (armed_pump = pump_id);
\* ripe: its reconnect delay has elapsed.
Dispatchable(sl) ==
  \/ sl.phase = "idle"
  \/ /\ sl.phase = "retry_wait"
     /\ \/ sl.due = "this_pump"
        \/ sl.due = "next_pump" /\ ~sl.armed
        \/ sl.due = "after_delay" /\ ~sl.armed /\ sl.ripe

StaleReuse(sl) == sl.reused /\ sl.origin = "connection" /\ sl.done = sl.base

ArmFailure(sl, tries) ==
  LET free == [sl EXCEPT !.counted = FALSE, !.reused = FALSE]
  IN  CASE StaleReuse(sl) /\ sl.counted ->
             [free EXCEPT !.attempts = IF sl.attempts > 0 THEN @ - 1 ELSE @,
                          !.phase = "retry_wait", !.armed = TRUE, !.due = "next_pump"]
        [] StaleReuse(sl) /\ ~sl.counted ->
             [free EXCEPT !.phase = "idle", !.origin = "none"]
        [] ~StaleReuse(sl) /\ ShouldAutoRetry(sl.origin, sl.attempts, tries) ->
             [free EXCEPT !.phase = "retry_wait", !.armed = TRUE,
                          !.due = "after_delay", !.ripe = FALSE]
        [] OTHER -> [free EXCEPT !.phase = "failed"]

ArmManualRetry(sl) ==
  [sl EXCEPT !.attempts = 0, !.phase = "retry_wait", !.armed = TRUE, !.due = "this_pump"]

RetryableConnection(sl) ==
  sl.origin = "connection" /\ sl.phase \in {"retry_wait", "failed"}

\* Mutant: followers wait for a leader that has given up.
NeverBlocked(i) == FALSE

ParkedBlocked(i) ==
  /\ i \in Upload /\ ~resume[i]
  /\ slot[Leader(i)].phase = "failed" /\ ~slot[Leader(i)].opened

\* Mutant: a chunk that waits for its reconnect is not counted as active.
DecideWithoutWaiting(i) ==
  LET in(p) == \E s \in SlotsOf(i) : slot[s].phase = p
  IN  IF in("running") \/ (in("idle") /\ ~ParkedBlocked(i)) THEN "transferring"
      ELSE IF in("failed") THEN "failed"
      ELSE IF in("succeeded") /\ ~in("idle") THEN "succeeded" ELSE "transferring"

DecideParent(i) ==
  LET in(p) == \E s \in SlotsOf(i) : slot[s].phase = p
  IN  CASE in("running") \/ in("retry_wait")     -> "transferring"
        [] ~(in("running") \/ in("retry_wait")) /\ in("idle") /\ ~ParkedBlocked(i)
                                                 -> "transferring"
        [] OTHER -> IF in("failed") THEN "failed"
                    ELSE IF in("succeeded") /\ ~in("idle") THEN "succeeded"
                    ELSE "transferring"

\* Mutant: the leader initializes whenever it is attached again.
LeaderReinitializes(s) == s[1] \in Upload /\ ~resume[s[1]] /\ s[2] = 1

\* Mutant: so does the leader of a resumed upload.
LeaderInitializesOnResume(s) ==
  s[1] \in Upload /\ s[2] = 1 /\ ~ready[s[1]] /\ ~slot[s].opened

LeaderShouldInitialize(s) ==
  /\ s[1] \in Upload /\ ~resume[s[1]] /\ s[2] = 1
  /\ ~ready[s[1]] /\ ~slot[s].opened

-----------------------------------------------------------------------------
Init ==
  /\ order = <<>>
  /\ status = [i \in Item |-> "absent"]
  /\ paused = [i \in Item |-> FALSE]
  /\ jobs = <<>> /\ cursor = 0
  /\ split = [i \in Item |-> 1]
  /\ resume = [i \in Item |-> FALSE]
  /\ ready = [i \in Item |-> FALSE]
  /\ slot = [s \in Slot |-> FreshSlot(0)]
  /\ proc = [s \in Slot |-> NoProc]
  /\ idle = <<>>
  /\ limits \in Limits
  /\ pc = "ui" /\ at = [job |-> 1, part |-> 1]
  /\ ledger = [i \in Item |-> "none"]
  /\ claim = [s \in Slot |-> 0]
  /\ data = [s \in Slot |-> 0]
  /\ stale = [i \in Item |-> TRUE]
  /\ faults = 0 /\ ops = 0

-----------------------------------------------------------------------------
(* The helper process of a worker, and its connection.  `info' and `sent'  *)
(* are the messages it has put in the UI's inbox, `wrote' what it has done. *)

\* A pump reads each worker once, so what a helper does during a pump cannot be
\* told from the same step before it, or after it if its worker was read already:
\* instances may let the helpers move between pumps only.
Between == PumpAtomic => pc = "ui"

HelperFrame == Between /\ UNCHANGED <<queueVars, jobVars, idle, limits, pumpVars, fileVars, ops>>

NoFault == UNCHANGED faults
Fault == faults < MaxFaults /\ faults' = faults + 1

HelperConnect(s) ==
  /\ proc[s].alive /\ proc[s].stage = "handshake"
  /\ proc' = [proc EXCEPT ![s].stage = "authed"]
  /\ UNCHANGED target /\ NoFault /\ HelperFrame

\* The first unit this attempt moves: a single-stream get or put has no offset.
From(s) == IF Parallel(s[1]) THEN slot[s].base ELSE 0

\* Mutant: every open truncates.
HelperOpenTruncates(s) ==
  /\ proc[s].alive /\ proc[s].stage = "sent"
  /\ proc' = [proc EXCEPT ![s].stage = "open", ![s].info = TRUE]
  /\ data' = [t \in Slot |-> IF t[1] = s[1] THEN 0 ELSE data[t]]
  /\ stale' = [stale EXCEPT ![s[1]] = FALSE]
  /\ NoFault /\ HelperFrame

\* Open the target.  A single-stream open truncates it; a parallel one only
\* for the upload leader that was told to initialize.
HelperOpen(s) ==
  LET truncate == ~Parallel(s[1]) \/ proc[s].init
  IN  /\ proc[s].alive /\ proc[s].stage = "sent"
      /\ proc' = [proc EXCEPT ![s].stage = "open", ![s].info = TRUE]
      /\ data' = [t \in Slot |-> IF truncate /\ t[1] = s[1] THEN 0 ELSE data[t]]
      /\ stale' = [stale EXCEPT ![s[1]] = @ /\ ~truncate]
      /\ NoFault /\ HelperFrame

\* Write the next unit of the file.  Past a hole it does not extend the prefix.
HelperWrite(s) ==
  LET p == From(s) + proc[s].wrote
      unit == (s[2] - 1) * PartSize + p
  IN  /\ proc[s].alive /\ proc[s].stage = "open" /\ p < Full(s)
      /\ proc' = [proc EXCEPT ![s].wrote = @ + 1]
      /\ data' = [t \in Slot |->
           IF t[1] = s[1] /\ data[t] < PartSize /\ (t[2] - 1) * PartSize + data[t] = unit
           THEN data[t] + 1 ELSE data[t]]
      /\ UNCHANGED stale /\ NoFault /\ HelperFrame

\* Report the bytes moved since the last report (a Transfer event).
HelperReport(s) ==
  /\ proc[s].alive /\ proc[s].stage = "open" /\ proc[s].sent < proc[s].wrote
  /\ proc' = [proc EXCEPT ![s].sent = proc[s].wrote]
  /\ UNCHANGED target /\ NoFault /\ HelperFrame

\* A helper that is done keeps what the UI can still learn of it: the messages.
Ended(s, stage, alive) ==
  [proc[s] EXCEPT !.stage = stage, !.alive = alive, !.wrote = proc[s].sent]

HelperDone(s) ==
  /\ proc[s].alive /\ proc[s].stage = "open" /\ From(s) + proc[s].wrote = Full(s)
  /\ proc' = [proc EXCEPT ![s] = Ended(s, "ok", TRUE)]
  /\ UNCHANGED target /\ NoFault /\ HelperFrame

\* The command ends with Done "0" or "-1" (reject) or "2" (critical), or on a
\* failure of the local file, the shared memory or a key passphrase (local).
HelperFail(s) ==
  /\ proc[s].alive
  /\ \E r \in {"reject", "critical", "local"} :
       /\ proc[s].stage \in {"sent", "open"} \/ (proc[s].stage = "handshake" /\ r # "critical")
       /\ proc' = [proc EXCEPT ![s] = Ended(s, r, TRUE)]
  /\ UNCHANGED target /\ Fault /\ HelperFrame

\* The connection or the helper dies.  poll() drains the inbox and only then
\* looks at alive(): messages that arrive in between are never read (lost).
\* Short of a final result, how far a dead helper had come makes no difference.
LinkLost(s) ==
  LET final == proc[s].stage \in {"ok", "critical", "local"}
      unseen == \/ proc[s].stage \in {"ok", "critical"}
                \/ proc[s].info /\ ~slot[s].opened
                \/ slot[s].base + proc[s].sent > slot[s].done
  IN  /\ proc[s].alive
      /\ \/ proc' = [proc EXCEPT ![s] = Ended(s, IF final THEN @.stage ELSE "sent", FALSE)]
         \/ /\ unseen
            /\ proc' = [proc EXCEPT ![s] =
                 [Worker(IF @.stage = "local" THEN "local" ELSE "sent", FALSE, @.conn, @.init)
                    EXCEPT !.lost = TRUE]]
      /\ UNCHANGED target /\ Fault /\ HelperFrame

PooledLinkLost(k) ==
  /\ Between /\ k \in DOMAIN idle /\ idle[k]
  /\ idle' = [idle EXCEPT ![k] = FALSE]
  /\ Fault
  /\ UNCHANGED <<queueVars, jobVars, proc, limits, pumpVars, fileVars, target, ops>>

\* The reconnect delay of a chunk elapses.
DelayElapses(s) ==
  /\ Between /\ slot[s].phase = "retry_wait"
  /\ slot[s].due = "after_delay" /\ ~slot[s].ripe
  /\ slot' = [slot EXCEPT ![s].ripe = TRUE]
  /\ UNCHANGED <<queueVars, jobs, cursor, split, resume, ready, proc, idle, limits,
                 pumpVars, fileVars, target, counts>>

-----------------------------------------------------------------------------
(* pump_queue, first half: fold every job's workers into its slots.        *)

JobItem == jobs[at.job]

\* A new pump: slots armed in earlier pumps are no longer gated.
PumpBegin ==
  /\ pc = "ui"
  /\ pc' = "fold" /\ at' = [job |-> 1, part |-> 1]
  /\ slot' = [s \in Slot |-> [slot[s] EXCEPT !.armed = FALSE]]
  /\ UNCHANGED <<queueVars, jobs, cursor, split, resume, ready, proc, idle, limits,
                 fileVars, target, counts>>

\* Erase the job at position k of transfer_jobs, closing its workers.
EraseJob(k) ==
  LET i == jobs[k]
  IN  /\ jobs' = RemoveAt(jobs, k)
      /\ proc' = [s \in Slot |-> IF s[1] = i THEN NoProc ELSE proc[s]]
      /\ slot' = [s \in Slot |-> IF s[1] = i THEN FreshSlot(0) ELSE slot[s]]
      /\ split' = [split EXCEPT ![i] = 1]
      /\ resume' = [resume EXCEPT ![i] = FALSE]

\* The item of the job was removed from the queue.
FoldOrphan ==
  /\ pc = "fold" /\ at.job <= Len(jobs) /\ ~InQueue(JobItem)
  /\ EraseJob(at.job)
  /\ ready' = [ready EXCEPT ![JobItem] = FALSE]
  /\ at' = [at EXCEPT !.part = 1]
  /\ UNCHANGED <<queueVars, cursor, idle, limits, pc, fileVars, target, counts>>

\* What poll() makes of the worker (classify_xfer_error, xfer_worker::on).
Outcome(w) ==
  CASE w.stage \in {"local", "nolaunch"}                 -> "local"
    [] w.stage \notin {"local", "nolaunch"} /\ w.lost    -> "connection"
    [] w.stage = "ok" /\ ~w.lost                         -> "ok"
    [] w.stage = "critical" /\ ~w.lost                   -> "reject"
    [] w.stage = "reject" /\ ~w.lost                     ->
         IF w.alive THEN "reject" ELSE "connection"
    [] OTHER -> IF w.alive THEN "none" ELSE "connection"

\* The slot with the worker's progress so far.
Polled(s) ==
  IF proc[s].lost THEN slot[s]
  ELSE [slot[s] EXCEPT !.done = slot[s].base + proc[s].sent,
                       !.opened = @ \/ proc[s].info]

\* A reconnect that a settings change left without attempts.
OutOfTries(s) ==
  /\ slot[s].phase = "retry_wait"
  /\ ~ShouldAutoRetry(slot[s].origin, slot[s].attempts, limits.tries)

\* The chunks of the job that this fold still has to look at.
ToFold(i) ==
  {s \in SlotsOf(i) : s[2] >= at.part /\ (slot[s].phase = "running" \/ OutOfTries(s))}

\* The fold has come to slot s.
Folding(s) ==
  /\ pc = "fold" /\ at.job <= Len(jobs) /\ InQueue(JobItem) /\ s \in ToFold(JobItem)
  /\ \A t \in ToFold(JobItem) : s[2] <= t[2]
  /\ at' = [at EXCEPT !.part = s[2] + 1]

Claimed(s, n) == claim' = IF Parallel(s[1]) THEN [claim EXCEPT ![s] = n] ELSE claim

FoldExhausted(s) ==
  /\ Folding(s) /\ OutOfTries(s)
  /\ slot' = [slot EXCEPT ![s].phase = "failed"]
  /\ UNCHANGED <<queueVars, jobs, cursor, split, resume, ready, proc, idle, limits, pc,
                 fileVars, target, counts>>

\* The worker is still going; the reply to `open' makes it send the transfer.
FoldRunning(s) ==
  /\ Folding(s) /\ slot[s].phase = "running" /\ Outcome(proc[s]) = "none"
  /\ slot' = [slot EXCEPT ![s] = Polled(s)]
  /\ Claimed(s, Polled(s).done)
  /\ proc' = IF proc[s].stage = "authed"
             THEN [proc EXCEPT ![s].stage = "sent", ![s].conn = FALSE] ELSE proc
  /\ UNCHANGED <<queueVars, jobs, cursor, split, resume, ready, idle, limits, pc,
                 ledger, target, counts>>

\* recycle_worker: is there room in the pool for the worker of slot s?
PoolRoom(s) ==
  /\ Pooling /\ proc[s].alive
  /\ Cardinality(Busy \ {s}) + Len(idle) < limits.conn

FoldSucceeded(s) ==
  /\ Folding(s) /\ slot[s].phase = "running" /\ Outcome(proc[s]) = "ok"
  /\ slot' = [slot EXCEPT ![s] =
                 [FreshSlot(0) EXCEPT !.phase = "succeeded", !.done = Full(s), !.opened = TRUE]]
  /\ Claimed(s, PartSize)
  /\ idle' = IF PoolRoom(s) THEN Append(idle, TRUE) ELSE idle
  /\ proc' = [proc EXCEPT ![s] = NoProc]
  /\ UNCHANGED <<queueVars, jobs, cursor, split, resume, ready, limits, pc, ledger, target, counts>>

FoldFailed(s) ==
  /\ Folding(s) /\ slot[s].phase = "running"
  /\ Outcome(proc[s]) \in {"connection", "reject", "local"}
  /\ slot' = [slot EXCEPT ![s] =
                 ArmFailure([Polled(s) EXCEPT !.origin = Outcome(proc[s])], limits.tries)]
  /\ Claimed(s, Polled(s).done)
  /\ proc' = [proc EXCEPT ![s] = NoProc]
  /\ UNCHANGED <<queueVars, jobs, cursor, split, resume, ready, idle, limits, pc,
                 ledger, target, counts>>

\* followers_ready marks the state file once the leader has opened the target.
MarksReady(i) ==
  /\ i \in Upload /\ ~resume[i] /\ Parallel(i)
  /\ slot[Leader(i)].opened /\ ~ready[i]

Reset(c, n) == IF c >= n THEN 0 ELSE c

\* decide_xfer_parent and what follows from it; success removes the state file.
FoldJobEnd ==
  LET i == JobItem
      verdict == DecideParent(i)
  IN  /\ pc = "fold" /\ at.job <= Len(jobs) /\ InQueue(i) /\ ToFold(i) = {}
      /\ ready' = [ready EXCEPT ![i] = verdict = "transferring" /\ (@ \/ MarksReady(i))]
      /\ ledger' = [ledger EXCEPT ![i] = IF verdict = "succeeded" THEN "none"
                                         ELSE IF MarksReady(i) THEN "ready" ELSE @]
      /\ \/ /\ verdict = "transferring"
            /\ at' = [job |-> at.job + 1, part |-> 1]
            /\ UNCHANGED <<status, jobs, cursor, split, resume, slot, proc>>
         \/ /\ verdict # "transferring"
            /\ status' = [status EXCEPT ![i] = verdict]
            /\ EraseJob(at.job)
            /\ cursor' = Reset(cursor, Len(jobs) - 1)
            /\ at' = [at EXCEPT !.part = 1]
      /\ UNCHANGED <<order, paused, idle, limits, pc, claim, target, counts>>

\* The pool, newest last, without the workers the channel limit has no room for.
Trimmed(pool, busy) ==
  IF pool = <<>> \/ busy + Len(pool) <= limits.conn THEN pool
  ELSE SubSeq(pool, 1, IF busy >= limits.conn THEN 0 ELSE limits.conn - busy)

FoldEnd ==
  /\ pc = "fold" /\ at.job > Len(jobs)
  /\ idle' = Trimmed(idle, Cardinality(Busy))
  /\ pc' = IF NewFileFirst THEN "grant" ELSE "dispatch"
  /\ at' = [job |-> 1, part |-> 1]
  /\ UNCHANGED <<queueVars, jobVars, proc, limits, fileVars, target, counts>>

-----------------------------------------------------------------------------
(* pump_queue, second half: dispatch chunks to workers.                    *)

\* The pool after the dead workers at its back were dropped.
Usable ==
  SubSeq(idle, 1, Cardinality({k \in DOMAIN idle : \E m \in k..Len(idle) : idle[m]}))

Burst == IF limits.conn < ConnectBurst THEN limits.conn ELSE ConnectBurst
\* Mutant: one channel too many.
ChannelOffByOne == Cardinality(Busy) <= limits.conn
HasChannel == Cardinality(Busy) < limits.conn

\* worker_activation_available
Available == HasChannel /\ (Usable # <<>> \/ Cardinality(Connecting) < Burst)

\* Mutant: followers do not wait for the leader.
FollowersAlwaysReady(i) == TRUE

FollowersReady(i) ==
  i \notin Upload \/ resume[i] \/ slot[Leader(i)].opened \/ slot[Leader(i)].phase = "succeeded"

Launchable(i) ==
  {s \in SlotsOf(i) : Dispatchable(slot[s]) /\ (s[2] = 1 \/ FollowersReady(i))}

CanActivate(i) == HasJob(i) /\ Launchable(i) # {}

\* part_count: one stream when the settings allow one channel.
PartCount(i) == IF limits.conn = 1 THEN 1 ELSE Parts[i]

\* start_item: make the job.  A single stream leaves the state file alone; a
\* parallel transfer adopts one that matches (keep) or writes a fresh one, and a
\* fresh download resizes its local target.
StartItem(i) ==
  /\ jobs' = Append(jobs, i)
  /\ ready' = [ready EXCEPT ![i] = FALSE]
  /\ split' = [split EXCEPT ![i] = PartCount(i)]
  /\ \E keep \in BOOLEAN :
       /\ keep => PartCount(i) > 1 /\ ledger[i] # "none"
       /\ resume' = [resume EXCEPT ![i] = keep]
       /\ slot' = [s \in Slot |-> IF s[1] # i THEN slot[s]
                                  ELSE FreshSlot(IF keep THEN claim[s] ELSE 0)]
       /\ \/ /\ PartCount(i) = 1 \/ keep
             /\ UNCHANGED <<ledger, claim, stale>>
          \/ /\ PartCount(i) > 1 /\ ~keep
             /\ ledger' = [ledger EXCEPT ![i] = IF i \in Upload THEN "waiting" ELSE "ready"]
             /\ claim' = [s \in Slot |-> IF s[1] = i THEN 0 ELSE claim[s]]
             /\ stale' = [stale EXCEPT ![i] = @ /\ i \in Upload]
  /\ UNCHANGED <<order, status, paused, cursor, proc, idle, limits, pumpVars, data, counts>>

\* The slot of a chunk that gets a worker.  The origin and the delay of the last
\* failure, which nothing reads while the chunk runs, are cleared.
Launched(sl, reused) ==
  LET retrying == sl.phase = "retry_wait"
  IN  [sl EXCEPT !.phase = "running", !.base = sl.done,
                 !.counted = retrying, !.reused = reused,
                 !.attempts = IF retrying THEN @ + 1 ELSE @,
                 !.origin = "none", !.ripe = FALSE]

\* activate_next_chunk: the first launchable chunk gets the newest live pooled
\* worker, or a new one, whose process may fail to start.
ActivateChunk(i) ==
  /\ HasJob(i) /\ Available
  /\ \E s \in Launchable(i) :
       LET reused == Usable # <<>>
           init == Parallel(i) /\ LeaderShouldInitialize(s)
       IN  /\ \A t \in Launchable(i) : s[2] <= t[2]
           /\ slot' = [slot EXCEPT ![s] = Launched(slot[s], reused)]
           /\ \/ proc' = [proc EXCEPT ![s] = Worker(IF reused THEN "sent" ELSE "handshake",
                                                    TRUE, ~reused, init)]
              \/ ~reused /\ proc' = [proc EXCEPT ![s] = Worker("nolaunch", FALSE, FALSE, init)]
           /\ idle' = IF reused THEN SubSeq(Usable, 1, Len(Usable) - 1) ELSE <<>>
  /\ status' = [status EXCEPT ![i] = "transferring"]
  /\ UNCHANGED <<order, paused, jobs, split, resume, ready, limits, pc, fileVars, target, counts>>

Waiting(i) == status[i] = "queued" /\ ~paused[i]

Wants(k) ==
  LET i == order[k]
  IN  /\ ~paused[i] /\ status[i] \in {"queued", "transferring"}
      /\ CanActivate(i) \/ (status[i] = "queued" /\ ~HasJob(i))

\* dispatch_strict: always the first item of the queue that can use a channel.
DispatchStrict ==
  /\ pc = "dispatch" /\ Available
  /\ \E k \in DOMAIN order :
       /\ Wants(k) /\ \A m \in 1..(k - 1) : ~Wants(m)
       /\ IF HasJob(order[k])
          THEN ActivateChunk(order[k]) /\ UNCHANGED <<cursor, at>>
          ELSE StartItem(order[k])

\* dispatch_new_file_first, first pass: one channel to each waiting item.
GrantFirst ==
  /\ pc = "grant" /\ Available /\ at.job <= Len(order)
  /\ LET i == order[at.job]
     IN  \/ /\ Waiting(i) /\ ~HasJob(i) /\ StartItem(i)
         \/ /\ Waiting(i) /\ CanActivate(i)
            /\ ActivateChunk(i)
            /\ at' = [at EXCEPT !.job = @ + 1] /\ UNCHANGED cursor

GrantSkip ==
  /\ pc = "grant" /\ Available /\ at.job <= Len(order) /\ ~Waiting(order[at.job])
  /\ at' = [at EXCEPT !.job = @ + 1]
  /\ UNCHANGED <<queueVars, jobVars, proc, idle, limits, pc, fileVars, target, counts>>

GrantEnd ==
  /\ pc = "grant"
  /\ \/ ~Available \/ at.job > Len(order)
     \/ /\ at.job <= Len(order) /\ Waiting(order[at.job])
        /\ HasJob(order[at.job]) /\ ~CanActivate(order[at.job])
  /\ pc' = "share" /\ at' = [job |-> 1, part |-> 1]
  /\ idle' = IF HasChannel THEN Usable ELSE idle
  /\ UNCHANGED <<queueVars, jobVars, proc, limits, fileVars, target, counts>>

\* Second pass: spare channels round-robin over the jobs, from the cursor.
Turn(n) == ((cursor + n) % Len(jobs)) + 1
MayShare(i) == InQueue(i) /\ ~paused[i] /\ CanActivate(i)

ShareChannel ==
  /\ pc = "share" /\ Available
  /\ \E n \in 0..(Len(jobs) - 1) :
       /\ MayShare(jobs[Turn(n)])
       /\ \A m \in 0..(n - 1) : ~MayShare(jobs[Turn(m)])
       /\ ActivateChunk(jobs[Turn(n)])
       /\ cursor' = Turn(n) % Len(jobs)
  /\ UNCHANGED at

\* No worker can be launched, or no item wants one.
DispatchEnd ==
  /\ \/ pc = "dispatch" /\ (Available => \A k \in DOMAIN order : ~Wants(k))
     \/ pc = "share" /\ (Available => \A k \in DOMAIN jobs : ~MayShare(jobs[k]))
  /\ pc' = "reap"
  /\ idle' = IF HasChannel THEN Usable ELSE idle
  /\ UNCHANGED <<queueVars, jobVars, proc, limits, at, fileVars, target, counts>>

\* reap_idle_workers: drop the dead and the expired, then trim.
ReapIdle ==
  /\ pc = "reap"
  /\ \E expired \in SUBSET DOMAIN idle :
       LET kept == {k \in DOMAIN idle : idle[k]} \ expired
       IN  idle' = IF Pooling
                   THEN Trimmed([k \in 1..Cardinality(kept) |-> TRUE], Cardinality(Busy))
                   ELSE <<>>
  /\ pc' = "ui"
  /\ UNCHANGED <<queueVars, jobVars, proc, limits, at, fileVars, target, counts>>

-----------------------------------------------------------------------------
(* The user's queue actions, and the death of the application.             *)

UserAct == pc = "ui" /\ ops < MaxOps /\ ops' = ops + 1 /\ UNCHANGED faults

\* A job that its item left behind in this frame is erased by the next pump;
\* an item enqueued again has a new id, so it waits for that here.
Enqueue(i) ==
  /\ pc = "ui" /\ ~InQueue(i) /\ ~HasJob(i)
  /\ order' = Append(order, i)
  /\ status' = [status EXCEPT ![i] = "queued"]
  /\ paused' = [paused EXCEPT ![i] = FALSE]
  /\ UNCHANGED <<jobVars, proc, idle, limits, pumpVars, fileVars, target, counts>>

\* Mutant: the cursor moves back wherever the job was.
StopJobUnderflow(i) ==
  /\ ready' = [ready EXCEPT ![i] = FALSE]
  /\ \/ \E k \in DOMAIN jobs :
          jobs[k] = i /\ EraseJob(k) /\ cursor' = Reset(cursor - 1, Len(jobs) - 1)
     \/ ~HasJob(i) /\ UNCHANGED <<jobs, cursor, split, resume, slot, proc>>

\* stop_job: kill the job's workers, forget it, keep its state file.
StopJob(i) ==
  /\ ready' = [ready EXCEPT ![i] = FALSE]
  /\ \/ \E k \in DOMAIN jobs :
          /\ jobs[k] = i /\ EraseJob(k)
          /\ cursor' = Reset(IF cursor >= k THEN cursor - 1 ELSE cursor, Len(jobs) - 1)
     \/ ~HasJob(i) /\ UNCHANGED <<jobs, cursor, split, resume, slot, proc>>

\* Mutant: the job of a paused item goes on.
PauseKeepsJob(i) ==
  /\ UserAct /\ InQueue(i)
  /\ status[i] = "transferring" \/ (status[i] = "queued" /\ ~paused[i])
  /\ status' = [status EXCEPT ![i] = "queued"]
  /\ paused' = [paused EXCEPT ![i] = TRUE]
  /\ UNCHANGED <<order, jobVars, proc, idle, limits, pumpVars, fileVars, target>>

\* Mutant: the paused item still counts as transferring.
PauseKeepsStatus(i) ==
  /\ UserAct /\ InQueue(i)
  /\ \/ status[i] = "transferring" /\ StopJob(i)
     \/ status[i] = "queued" /\ ~paused[i] /\ UNCHANGED <<jobVars, proc>>
  /\ paused' = [paused EXCEPT ![i] = TRUE]
  /\ UNCHANGED <<order, status, idle, limits, pumpVars, fileVars, target>>

Pause(i) ==
  /\ UserAct /\ InQueue(i)
  /\ \/ /\ status[i] = "transferring" /\ StopJob(i)
     \/ /\ status[i] = "queued" /\ ~paused[i] /\ UNCHANGED <<jobVars, proc>>
  /\ status' = [status EXCEPT ![i] = "queued"]
  /\ paused' = [paused EXCEPT ![i] = TRUE]
  /\ UNCHANGED <<order, idle, limits, pumpVars, fileVars, target>>

\* Release a paused item, or queue a finished one again.
Start(i) ==
  /\ UserAct /\ InQueue(i)
  /\ (status[i] = "queued" /\ paused[i]) \/ status[i] \in {"failed", "succeeded"}
  /\ status' = [status EXCEPT ![i] = "queued"]
  /\ paused' = [paused EXCEPT ![i] = FALSE]
  /\ UNCHANGED <<order, jobVars, proc, idle, limits, pumpVars, fileVars, target>>

RetryFailedParts(i) ==
  /\ UserAct /\ status[i] = "transferring" /\ Parallel(i) /\ HasJob(i)
  /\ \E s \in SlotsOf(i) : proc[s] = NoProc /\ RetryableConnection(slot[s])
  /\ slot' = [s \in Slot |->
        IF s[1] = i /\ proc[s] = NoProc /\ RetryableConnection(slot[s])
        THEN ArmManualRetry(slot[s]) ELSE slot[s]]
  /\ UNCHANGED <<queueVars, jobs, cursor, split, resume, ready, proc, idle, limits,
                 pumpVars, fileVars, target>>

\* queue_remove and clear_finished
RemoveItem(i) ==
  /\ UserAct
  /\ \E k \in DOMAIN order : order[k] = i /\ order' = RemoveAt(order, k)
  /\ IF status[i] = "transferring" THEN StopJob(i) ELSE UNCHANGED <<jobVars, proc>>
  /\ status' = [status EXCEPT ![i] = "absent"]
  /\ UNCHANGED <<paused, idle, limits, pumpVars, fileVars, target>>

\* queue_pin_top of one item: just before the first other queued item.
PinTop(i) ==
  /\ UserAct /\ status[i] = "queued"
  /\ \E k \in DOMAIN order, pos \in 1..Len(order) :
       LET rest == RemoveAt(order, k)
       IN  /\ order[k] = i
           /\ \A m \in 1..(pos - 1) : status[rest[m]] # "queued"
           /\ pos < Len(order) => status[rest[pos]] = "queued"
           /\ order' = InsertAt(rest, pos, i)
  /\ UNCHANGED <<status, paused, jobVars, proc, idle, limits, pumpVars, fileVars, target>>

\* update_settings / apply_settings
ApplySettings(l) ==
  /\ UserAct /\ l # limits
  /\ limits' = l
  /\ idle' = IF Len(idle) > l.conn THEN SubSeq(idle, 1, l.conn) ELSE idle
  /\ UNCHANGED <<queueVars, jobVars, proc, pumpVars, fileVars, target>>

\* The application dies at any point: the helpers die with it, and only the
\* state files and the targets survive.
Crash ==
  /\ ops < MaxOps /\ ops' = ops + 1 /\ UNCHANGED faults
  /\ order' = <<>>
  /\ status' = [i \in Item |-> "absent"]
  /\ paused' = [i \in Item |-> FALSE]
  /\ jobs' = <<>> /\ cursor' = 0
  /\ split' = [i \in Item |-> 1]
  /\ resume' = [i \in Item |-> FALSE]
  /\ ready' = [i \in Item |-> FALSE]
  /\ slot' = [s \in Slot |-> FreshSlot(0)]
  /\ proc' = [s \in Slot |-> NoProc]
  /\ idle' = <<>>
  /\ pc' = "ui" /\ at' = [job |-> 1, part |-> 1]
  /\ UNCHANGED <<limits, fileVars, target>>

-----------------------------------------------------------------------------
Helper(s) ==
  \/ HelperConnect(s) \/ HelperOpen(s) \/ HelperWrite(s) \/ HelperReport(s)
  \/ HelperDone(s) \/ HelperFail(s) \/ LinkLost(s)

Fold ==
  \/ \E s \in Slot : \/ FoldExhausted(s) \/ FoldRunning(s)
                     \/ FoldSucceeded(s) \/ FoldFailed(s)
  \/ FoldOrphan \/ FoldJobEnd \/ FoldEnd

Dispatch ==
  \/ DispatchStrict \/ GrantFirst \/ GrantSkip \/ GrantEnd \/ ShareChannel
  \/ DispatchEnd \/ ReapIdle

Pump == PumpBegin \/ Fold \/ Dispatch

User ==
  \/ \E i \in Item : \/ Enqueue(i) \/ Pause(i) \/ Start(i) \/ RetryFailedParts(i)
                     \/ RemoveItem(i) \/ PinTop(i)
  \/ \E l \in Limits : ApplySettings(l)

Next ==
  \/ \E s \in Slot : Helper(s) \/ DelayElapses(s)
  \/ \E k \in DOMAIN idle : PooledLinkLost(k)
  \/ Pump \/ User \/ Crash

Spec == Init /\ [][Next]_vars

-----------------------------------------------------------------------------
(* Properties.                                                             *)

WorkerRecord ==
  [stage : Stages, alive : BOOLEAN, conn : BOOLEAN, init : BOOLEAN,
   info : BOOLEAN, wrote : Nat, sent : Nat, lost : BOOLEAN]

SlotRecord ==
  [phase : Phases, done : Nat, opened : BOOLEAN, origin : Origins,
   attempts : Nat, base : Nat, due : Dues, armed : BOOLEAN, ripe : BOOLEAN,
   counted : BOOLEAN, reused : BOOLEAN]

\* The type of every variable.
TypeOK ==
  /\ order \in Seq(Item)
  /\ status \in [Item -> {"absent", "queued", "transferring", "succeeded", "failed"}]
  /\ paused \in [Item -> BOOLEAN]
  /\ jobs \in Seq(Item) /\ cursor \in Nat /\ split \in [Item -> 1..MaxParts]
  /\ resume \in [Item -> BOOLEAN] /\ ready \in [Item -> BOOLEAN]
  /\ slot \in [Slot -> SlotRecord]
  /\ proc \in [Slot -> WorkerRecord]
  /\ idle \in Seq(BOOLEAN)
  /\ limits \in Limits
  /\ pc \in {"ui", "fold", "dispatch", "grant", "share", "reap"}
  /\ at \in [job : Nat \ {0}, part : Nat \ {0}]
  /\ ledger \in [Item -> {"none", "waiting", "ready"}]
  /\ claim \in [Slot -> Nat] /\ data \in [Slot -> 0..PartSize]
  /\ stale \in [Item -> BOOLEAN]
  /\ faults \in 0..MaxFaults /\ ops \in 0..MaxOps

\* Resume soundness: what the state file of a parallel transfer says a later
\* session may skip is in the target, whatever truncated or died in between
\* (write_state_transferred against the leader's truncating open).
ClaimsSound ==
  \A s \in Slot : ledger[s[1]] # "none" => claim[s] <= data[s]

\* The promise of ResumableCopy.  Saved is what an existing state file says.
Promise == INSTANCE ResumableCopy WITH
  File <- Item, Chunk <- Slot, Units <- PartSize, copied <- data,
  saved <- [s \in Slot |-> IF ledger[s[1]] = "none" THEN 0 ELSE claim[s]],
  delivered <- {i \in Item : status[i] = "succeeded"}

\* The queue, with its retries, pauses, removals and crashes, and the helpers that
\* open and truncate targets on their own, implements ResumableCopy: at no step is
\* a target restarted that has saved progress or that was reported as transferred.
ImplementsCopy == Promise!Spec

\* A chunk that counts as transferred is complete in the target, and so is an
\* item that is reported as succeeded (pump_queue's s_ok branch and its fold).
SuccessIsComplete ==
  \A s \in Slot :
    \/ slot[s].phase = "succeeded"
    \/ status[s[1]] = "succeeded"
    => data[s] = PartSize

Channels == Cardinality(Busy) + Len(idle)

\* The channels in use and pooled never grow past the user's limit, also when
\* the limit was lowered while more of them were open (worker_activation_available,
\* recycle_worker).
ChannelBudget ==
  [][Channels' > Channels => Channels' <= limits.conn]_<<proc, idle>>

\* A helper runs only for an item that is being transferred and not paused: no
\* pause, removal or verdict leaves a helper behind that goes on writing
\* (stop_job, queue_pause, queue_remove, pump_queue).
NoOrphanWorker ==
  \A s \in Slot : proc[s] # NoProc =>
    /\ HasJob(s[1]) /\ status[s[1]] = "transferring" /\ ~paused[s[1]]
    /\ slot[s].phase = "running"

\* The queue and the jobs agree, whatever the user does between two pumps: an item
\* shown as transferring has its one job (dispatch_strict starts jobs for queued
\* items only, so it would otherwise hang), and a job works for no finished item.
JobsMatchQueue ==
  /\ IsInjective(order) /\ IsInjective(jobs)
  /\ \A i \in Item :
       /\ status[i] = "transferring" => InQueue(i) /\ HasJob(i)
       /\ HasJob(i) /\ InQueue(i) => status[i] \in {"queued", "transferring"}

\* A target is truncated only while no other chunk of its item has a helper and
\* no progress of the item is on record (followers_ready, leader_should_initialize).
TruncatesNothing ==
  [][\A s \in Slot : data'[s] < data[s] /\ Parallel(s[1]) =>
       \A t \in SlotsOf(s[1]) :
         /\ t[2] > 1 => proc[t] = NoProc
         /\ slot[t].done = 0 /\ claim[t] = 0]_data

\* Reconnects are rationed: a chunk never runs on more counted reconnects than
\* the user allows, stale pooled connections and manual retries included.
RetryRationed ==
  [][\A s \in Slot : slot'[s].attempts > slot[s].attempts =>
       limits.tries = 0 \/ slot'[s].attempts <= limits.tries]_slot

\* An upload that completed replaced its target: no byte of the old file stays
\* behind the new end (setup_parallel_state: `upload waits until its leader
\* truncates+opens the remote target').
UploadReplacesTarget ==
  \A i \in Upload : status[i] = "succeeded" => ~stale[i]

-----------------------------------------------------------------------------
(* Liveness.  poll() is called again and again by the UI timer, delays pass, *)
(* and each helper goes on or dies.  Nothing is assumed of the user.         *)

Fairness ==
  /\ WF_vars(Pump)
  /\ \A s \in Slot : WF_vars(Helper(s)) /\ WF_vars(DelayElapses(s))
=============================================================================
