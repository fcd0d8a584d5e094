# TLA+ models of vtm-tile: the Parvion transfer engine and the tiling manager

vtm-tile is a tiling terminal multiplexer. Its application *Parvion*
(`src/src/netxs/apps/parvion/`) is an SFTP client: file panes, a transfer queue
that moves one file over several connections, a state file that lets an
interrupted transfer resume, checksums, and local and remote file operations. The
bytes are moved by helper processes (`parvionsftp`, a build of the vendored
FileZilla/PuTTY `psftp.c`) that talk to the application over pipes.

This directory specifies the parts where concurrency, failure and recovery meet: the
transfer engine with its data path, its control session, the way from a selection to
the queue, the checksum queue and local deletes; and, of the window manager, the tree
of panes with its deferred jobs. The rest of the repository is terminal emulation,
drawing, scripting, operating system layers and vendored code (see *Inventory*).

Paths below are relative to `src/src/netxs/apps/parvion/` unless they start with
`src/`.

## Inventory

| Component | State | Operations | Hard behaviour | What makes it correct |
|---|---|---|---|---|
| Transfer queue and scheduler (`session.hpp`: `pump_queue`, `dispatch_*`, queue actions; `chunk_retry.hpp`, `reorder.hpp`) | `queue`, `transfer_jobs` with their chunk slots, `idle_pool`, `allocation_cursor`, settings | fold workers, decide the parent, dispatch, recycle, reap; pause, start, retry, remove, pin, change settings | helpers run concurrently with the pump; user actions fall between two pumps; retries, delays, limits lowered while in use | success only when complete; no worker without its item; queue and jobs agree; channels and reconnects rationed; everything is decided |
| Resume state file (`resume.hpp`, `setup_parallel_state`) | status and one claim per chunk, on disk | create, adopt, update, mark ready, remove | killed between any two steps; adopted by a later session with other settings | a claim is never ahead of the target |
| Transfer worker and helper (`session.hpp`: `xfer_worker`; `psftp.c`) | connection, command in flight, inbox, counters | connect, open, write, report, finish, fail, die | results, death and inbox race; the leader's truncating open against the followers' writes | followers write only after the truncation |
| Shared-memory data path (`session.hpp`: `sftp_session`, `io_loop`; `psftp.c`, `uxsftp.c`, `fzsftp.c`) | ring of slots, flags under one lock, two pipes, the helper's FIFO of grants | open, grant, fill, flush, finalize, stop | three threads and a process; stop with filled slots; a helper used again | the ring is a stream; a slot has one owner; nobody waits for a lost grant |
| Control session (`control.hpp`, `session.hpp`) | one command stream, one owner (connection, navigation, refresh, mutation, recursive operation, keepalive) | issue, reply, time out, recover | replies across reconnects, cancelled walks | a reply reaches its owner; the committed path is the server's |
| Conflicts and enqueue batches (`conflict.hpp`, `conflict_enqueue.hpp`) | batches with their pending requests, the open question, the answer for all; the batch of a walk | offer, probe, ask, answer, rename, cancel | answers after cancel or reconnect; batches shared with a walk; a listing that changes | nothing existing is overwritten unasked, nothing is queued for another session |
| Recursive folder operations | walk state inside the control transaction | list, mkdir, enqueue, delete | paused by a question; connection lost in the middle | no upload before its directory |
| Checksum queue (`hashing.hpp`, `pump_hash`) | items, `max_hash_jobs` workers, a child and a reader thread each | enqueue, start, fold, drop, remove | result line against process exit; removal while a worker runs | a result is of the item's own child; every item is decided |
| Local delete (`delete_local_async`, `poll`) | three shared atomics | delete, count, fold, report | detached threads against `poll()` | the report is final, and there is one |
| Settings, log, rate meter | files, text | load, save, show | none that others read back | presentation |
| Panes, views, dialogs, widgets | UI state | render, route input | event-driven UI | not modelled |
| Tiling window manager (`src/src/netxs/apps/tile.hpp`) | a tree of slots per workspace, the jobs that wait, the focus history, the zoomed pane | split, close, swap, zoom, focus, create, an application that ends | splits and closes run later, while the user goes on; the history names slots by weak pointers | no application is lost; the history names panes |
| Terminal, desktop toolkit, OS layer, Lua and XML (`src/src/netxs/desktopio/`) | scrollback, cell grids, subscriptions, consoles and pipes | parse, draw, route, spawn | large sequential structures and I/O | not modelled |

Interaction: the UI timer calls `sftp_remote::poll()`, which drains the control
session, pumps the transfer queue, reaps idle workers, pumps the checksum queue and
folds the local-delete counters, all on one thread. Helpers and delete threads run
concurrently with it and are seen only through their inboxes and counters. Queue
actions of the user run on the same thread, between two calls of `poll()`. A selection
in a pane goes through a batch (`ConflictEnqueue`) into the queue
(`TransferScheduler`), whose helpers move the bytes over the ring (`ShmRing`); folders
are walked by the control session (`ControlSession`), which feeds a batch. The window
manager knows Parvion as one application among others.

## Plan

1. `TransferScheduler` with its state file and helpers, `ResumableCopy` above it,
   and the proofs of both (done).
2. `LocalDelete` and `ControlSession` with the recursive walks (done).
3. `ShmRing` with `StreamCopy` above it, and `ConflictEnqueue`, whose requests and
   questions `ControlSession` reduces to the state of one batch (done).
4. `HashQueue` and `TileLayout` (done).
5. The proofs of what the runs check: of the scheduler, its contents and its refinement, of
   the control session, of the conflicts, of the checksum queue, of the ring and of the
   window manager (done).
6. Code still worth modelling: the pairing of the download chunks with the ring
   (`PARVION_CHUNK_RING=1`), the workspaces of the window manager, and the local walk
   of a recursive upload.

## Modules

### `TransferScheduler`

One UI thread, one helper per worker, a user, and a kill of the application.

*State.* `order`, `status`, `paused` are the queue; `jobs`, `split`, `resume`,
`ready`, `slot` are `transfer_jobs`; `proc[s]` is the worker of chunk `s` with the
helper behind it, `idle` the pool; `ledger` and `claim` are the state file, `data`
the leading units of each chunk that the target holds, `stale` whether an old file
may still be in the target. `pc` and `at` say where the UI thread is in `poll()`.

*Pump.* `PumpBegin`, then per job one `Fold...` step for each chunk that can change
(in chunk order, as the loop goes), `FoldJobEnd` for the verdict, then the dispatch
of either policy one activation at a time, then `ReapIdle`. A chunk the loop would
leave as it is costs no step: `ToFold` skips it. `chunk_retry.hpp` is translated
operator by operator.

*Helpers.* `HelperConnect`, `HelperOpen`, `HelperWrite`, `HelperReport`,
`HelperDone`, `HelperFail`, `LinkLost`. A helper only tells the UI what its inbox
carries: `info` and `sent` lag behind what it did (`wrote`). `LinkLost` also covers
the messages that arrive between `drain()` and `alive()` in `xfer_worker::poll` and
are never read.

*Between pumps.* The pump reads each worker once, so a step of a helper in the
middle of a pump is equivalent to the same step before it, or after it when the
worker has been read. `PumpAtomic` uses this to make larger instances possible;
the run `each` does without it and confirms it on its instance.

*Contents.* `data[s]` counts leading units only. A write past a hole does not
extend it, so a resume that skips too much shows up as a chunk that never becomes
whole.

### `ResumableCopy`

What the engine promises: saved progress was copied, a file is started over only
when nothing of it is saved and it was not delivered, and it is delivered only when
whole. No queue, worker, retry or crash appears in it. `ImplementsCopy` in
`TransferScheduler` instantiates it (`copied <- data`, `saved <-` the claims of an
existing state file, `delivered <-` the succeeded items).

### `LocalDelete`

A detached thread per batch and the counters `done`, `fails`, `running`. Each
atomic access is a step of its own, and so are the two reads and the exchange in
`poll()`; a new batch starts only between two calls of `poll()`, as both run on the
UI thread. `failed`, `told` and `heard` are ghosts.

### `ControlSession`

One UI thread, the user, one `parvionsftp` helper and the thread that reads its pipe.

*State.* `txn` is `control_transaction::state`, one record for all its alternatives
(`kind` and `phase`), `command` the command on the wire, `staged` the listing being
received. `path`, `items` and `refresh` are the pane. `walk` is what a recursive walk
sees of its batch: not there, open, waiting for an answer, stuck (an answer was
dropped while the link was down) or cancelled. `sec`, `asked` and `modals` are the
prompts for secrets. `helper` holds the process, whether the application thinks it
alive, its directory, its command and its unread lines; `inbox` its parsed messages.
A listing is the set of directories its entries came from, which is what tells a
right pane from a wrong one.

*poll().* `Poll` takes the messages that are there; `ListEntry`, `AskPassword`,
`Greeting` and the `Complete...` and `Fail...` actions, one pair per alternative of
the transaction, process them one at a time; `CheckLink` raises a prompt and looks
whether the helper lives; then one action of `Ticks` runs. The code calls the
drivers one after the other, but at most one of them finds something to do. The
user acts between two polls, and not behind a dialog.

*Helper.* It reads a line, works, lists, prompts, and ends the command with exactly
one Reply or Done (`pending_reply` in `fzprintf.c`); a line that no prompt waits for
is a failed command. It may fail anything but `pwd` or die at any point, and moves
whenever it likes, also inside a poll. `ReaderEnds` is the moment the application
notices its end.

*Left out.* Branches no reply can reach are not there (`invalid_completion`, a `pwd`
that fails while connecting); `WireMatchesPhase` and `OneReplyOwed` are what makes
them unreachable. Host-key questions are answered in the handler itself.

### `ShmRing` and `StreamCopy`

One transfer at a time over the ring: the UI thread (`boss`) that starts transfers and
stops the worker, the I/O thread (`flusher`), the reader thread (`reader`), which serves
the helper's `io_*` requests, and the helper process.

*State.* `free`, `ready`, `lent` are `free_slots`, `ready_slots` and `io_cur`; `eof`,
`final`, `broken`, `barred`, `halt` are `io_eof`, `io_done`, `io_err`, `io_open_err`
and `io_stop`; `memory` holds the units in each slot, `toHelper` and `toApp` are the two
pipes, `inbox` the results for the UI, `landed` what arrived in the target. In the
helper, `grants` is its FIFO (`grant_off_` in `fzsftp.c`) and `slot` the slot it
works on. A chunk of an upload is read up to its `length`, a `whole` file to its end.

*Steps.* A step is what a thread does under one hold of the ring's lock, or one line it
writes or reads. Both flow controls are there: `credit`, where the I/O thread grants
slots ahead, and `legacy`, where the helper asks and is answered; uploads always ask.
`OnOpen...`, `OnNext...`, `OnFinalize...` are the reader's handlers, `Flush...` and
`Fill...` the I/O thread's, `StopKill`, `StopSignal`, `StopJoin`, `StopDrop` the parts of
`stop()`, which the UI thread does not leave until both threads have ended. A failure of
the disk, the server or the helper (`Mishap`) may happen wherever the code handles one.

`StreamCopy` is what the data path promises: units arrive in order, none twice and none
left out, and a transfer is complete only when all arrived. `ImplementsStream`
instantiates it (`arrived <- landed`, `outcome <- boss.outcome`).

### `ConflictEnqueue`

A selection becomes a batch of requests; each is pumped through `classify()` and the
policy, and the first conflict stops the batch with a question. `offers` and `into` are
the rest of the UI handler that is offering requests: it runs to its end, pumping after
every offer, before anything else happens on the UI thread (`Idle`). `Answer` is the
dialog with `deliver()` and the continuation it calls; an answer that is dropped leaves
the batch waiting (`lost`). Folders start a walk, which lists, offers what it finds to
its batch, waits while it asks, and is cancelled with the session
(`InvalidateConflictAsks`). What exists at the targets (`occupied`) is one choice at the
beginning; `shown` is the remote folder whose listing is known, which is all that an
upload can look its targets up in. Of a queued file the model keeps how it came to be
there: whether the policy or the user `agreed`, and whether its session was over
(`late`).

### `HashQueue`

The items, the workers and one `parvionhash` child with its reader thread per item.
`PumpHash`, `PollDrain`, `PollAlive` (once per worker) and `PumpStart` are one call of
`pump_hash()`; the children and readers move in between, the user does not. `drain()`
and `alive()` are two steps, so the line that arrives between them is there. An item
that is removed leaves its worker to the next pump.

### `TileLayout`

The panes of one workspace. A slot (`node_veer`) holds an empty-slot widget and, above
it, an application or a fork of two slots. Split, close, drop and re-run are jobs
(`base::enqueue`), which run later and in order, while `Focus`, `Create`, `SwapInSplit`,
`SwapPanes`, `Zoom` and `CloseEmpty` act at once. A job names an application or a slot by
a weak pointer; one whose target is gone does nothing when its turn comes (`Current`). `appSlot` and
`emptySlot` are `focus_history_t::owners`, `active` and `previous` the history of one
user. Every user action but a zoom first restores a zoomed pane (`AtUser`).

### `MCComponents` and `MCEachTransfer`

`MCComponents` puts the four smaller components in one instance for TLC. They share no
state, so a behaviour is one of some component, chosen by `part`, while the others stay
as they began: what is checked of each is its own specification. `MCEachTransfer` has an
upload and a download in one instance, and each behaviour transfers one of them.

## Runs

| Run | Instance | Shows |
|---|---|---|
| `upload` | one upload of two chunks, two channels, one reconnect, two faults, two user actions or kills | claims are sound, success is complete, no orphaned worker, no truncation of progress, and the queue implements `ResumableCopy` |
| `each` | an upload of two chunks with two faults, or a download of two chunks with one fault and one user action or kill; helpers moving inside the pump; fairness | the same refinement without the assumption on the pump, and every item that is not held is decided |
| `channels` | an upload and a download of one chunk, pool, round-robin dispatch, two faults, limits lowered from 2/2 to 1/1 | channel budget, rationed reconnects, queue and jobs agree |
| `stale` | one upload, an interruption | counterexample, see *Findings* |
| `rechunk` | one upload, limit lowered to one channel and raised | counterexample, see *Findings* |
| `components` | deletes: batches of two paths and of one; checksums: three items, one worker; conflicts: a selection of two files that exist and a folder, two batches, two sessions; panes: five slots, two applications, fairness for the checksums | deletes report once and last; checksums are of their own child and all decided; nothing existing is overwritten by a download unasked, nothing is queued for a past session; no application is lost and the history names panes |
| `delete_report` | one batch, fairness | counterexample, see *Findings* |
| `ring` | two transfers in a row over two slots, files of up to three units, one mishap or pause, both flow controls, fairness | the ring implements `StreamCopy`; a slot has one owner; no line is left behind; `stop()` returns and transfers end |
| `conflict_ask` | the conflicts of `components` | counterexample, see *Findings* |
| `control` | two directories, one key, two reconnects, one prompt; no death at a prompt | replies reach their flows, the pane shows the committed path, walks keep to their batch |
| `control_live` | one directory, death at a prompt too, fairness | no command holds the session for ever, no dropped answer pauses a walk for ever |
| `control_secret` | two reconnects, death at a prompt | counterexample, see *Findings* |

*Bounds.* Two chunks are the least with a leader and a follower; one unit per chunk
is the least that tells "reported" from "written" from "claimed". `MaxFaults` and
`MaxOps` bound failures and user actions or kills; one of each already reaches
every pair of a failure and an interruption, and two faults exhaust one reconnect.
Attempts are bounded by `tries` where it is not 0. One item per two-chunk run:
items share only channels and the pool, which is what `channels` is about.
For the control session, two directories tell the right one from a wrong one;
`MaxWork` bounds what a walk has pending, and two tell "some left" from "the last";
two reconnects are needed to meet a prompt, lose its helper and start the next.
`MaxPrompts` also bounds the dialogs on the screen.
For the ring, two slots and files of three units make it wrap, a slot is granted again
while another is flushed; two transfers meet what the first one left behind, and one
mishap or pause already falls into every pair of steps of the four parties.
For checksums, three items with one place make one item wait while another is removed.
For conflicts, two existing files let an answer for one be told from an answer for all,
the folder adds a walk with the batch of a selection or its own, and two sessions let an
answer come late; `newer` and `ask` are the policies that give every outcome of
`classify()` that a batch treats differently (`overwrite` and `resume` write like `newer` does,
`skip` and `rename` are answers, too). For panes, five slots are three panes, so a fork
has a fork below it; `MaxJobs` is tested before jobs are added, so that three can wait.

*Fairness.* The pump is weakly fair: `poll()` is driven by the UI timer. A helper is
weakly fair as a whole, including its failures: it goes on or it dies (the helper
has its own time-outs). Delays elapse. Nothing is assumed of the user, and no
single failure or success is assumed. For `LocalDelete`, `poll()` and each thread
are weakly fair. For `ControlSession`, `poll()` and its parts are weakly fair and
the watchdog strongly: it looks at a clock, so on one of the polls that find a
command waiting the time is over. Nothing is assumed of the user or of the helper.
For `ShmRing`, each thread is weakly fair, the helper is (the server answers or fails:
`parvionsftp` has its own time-outs), and so are the polls of the UI timer and the rest of a
`stop()` once begun; nothing is assumed of mishaps, pauses and new transfers. For
`HashQueue`, the pump and the readers are weakly fair and a child comes to the end of
its file or is gone; that it prints a verdict is not assumed.

*Symmetry* is not used: the items and the chunks are ordered.

## Findings

1. **A resume that never was** (`stale`). `state_file_matches` rejects only status
   `aborted` (`resume.hpp:287`), so a state file that still says `waiting` is
   adopted. An upload interrupted before its leader opened the target resumes, the
   leader does not truncate, and a shorter file uploaded over a longer one keeps
   the old tail. `session.hpp:2667`: "upload waits until its leader
   truncates+opens the remote target."
2. **Claims outlive a single stream** (`rechunk`). With the limit at one
   connection, `start_item` (`session.hpp:2617`) starts a single stream that
   truncates the target and leaves the state file of an earlier parallel transfer
   alone. A later parallel start adopts its claims and skips bytes that are gone.
   `resume.hpp:8`: "records the per-chunk progress so an interrupted transfer
   resumes the completed bytes of each chunk instead of restarting."
3. **A delete without its report** (`delete_report`). If `poll()` reads `running`
   before the thread's last `fetch_sub` and `done` after its last `fetch_add`
   (`session.hpp:1730`), it folds the final count without reporting, and no later
   `poll()` sees a new count. Neither "Delete finished." nor the number of failures
   is shown, and the failures are added to the next batch's report.

4. **An answer to nobody** (`control_secret`). A helper that asked for a secret may
   die before the answer. `poll()` sees the end of it but leaves the dialog and `sec`
   alone, and `do_reconnect` (`session.hpp:1788`) launches the next helper. The answer
   given now goes to that one (`session.hpp:1484`), which reads it as a command. Its
   failure is taken for the result of whatever is on the wire. `session.hpp:1475`: "The
   user answered the outstanding prompt: ... send it to the waiting backend". Apart from
   this every reply reaches its flow, which is why `control` does without a death at a
   prompt (`StalePrompts`) and `OneReplyOwed` is claimed there only.
5. **A listing that is not there any more** (`conflict_ask`). `conflict_inputs_for`
   (`session.hpp:2274`) looks an upload's target up in the listing on display, and only while
   that is the listing of the target's folder. A batch stops at its first existing target
   to ask; a navigation that was on its way is committed meanwhile; the answer for that
   one file resumes the batch, and no further target is found to exist. They are queued and
   overwritten, unasked. `conflict.hpp:50`: the choices "distinguish a one-file answer from
   the corresponding answer for the remainder of the enqueue batch". Downloads look at
   the local file system and are not affected (`DownloadAgreed`).

A weakness without a finding: a helper that starts but never greets is waited for
without end, because the watchdog needs a command on the wire (`session.hpp:1818`).

## Proofs

For every set of files, number of chunks, chunk size, limits and bounds:

- `TypeCorrect`: `Spec => []TypeOK` of the scheduler, which includes that the
  round-robin cursor never goes below 0.
- `WorkersAreOwned` and `QueueAndJobsAgree`: `Spec => []NoOrphanWorker` and
  `Spec => []JobsMatchQueue`. Neither is inductive alone. A worker is known to
  belong to a transferring item only because a job erased by the pump belongs to an
  item that the queue holds once; and that a transferring item has its job depends
  on activations happening inside jobs only. `Agree` is their conjunction and
  `Inv == TypeOK /\ Agree` is inductive; there is one lemma per action.
- `ChannelsAreBounded`: `Spec => []ChannelBudget`. Only a pump that launches a worker can
  exceed the limit, and it launches one only when it took a pooled link for it or when there
  is no pooled link left and `HasChannel` counted fewer busy workers than the limit; a link
  joins the pool in `FoldSucceeded` only while `PoolRoom` finds room. The lemmas are about
  the cardinalities of those sets: every other step adds neither.
- `RetriesAreRationed`: `Spec => []RetryRationed`. A slot the running pump has looked at
  either has a reconnect left or waits for a time after this pump, so that no slot is
  started twice in a pump, nor without a reconnect to its account.
- `ClaimsAreSound`, `SuccessMeansComplete` and `TruncationIsSafe` (`TransferContentProofs`):
  `ClaimsSound`, `SuccessIsComplete` and `TruncatesNothing`, provided `Steady`: the limits
  allow a single stream always or never. The hypothesis is needed, as `rechunk` shows: after
  a single stream the claims of an earlier session are false. The invariant `CInv` is the
  scheduler's `Inv` with, for each item, that its state file and number of chunks fit its
  job (`SplitOK`) and, for each chunk, what its worker said and wrote (`WorkerOK`), that
  while the leader of a fresh upload has not opened the target nothing is claimed and no
  follower runs (`LeaderFirst`), that what is reported or added up is in the target
  (`DoneOK`), what a single stream has written (`StreamOK`), and what the state file and the
  status promise (`StoredOK`). `LeaderFirst` is what makes truncation harmless, and `DoneOK`
  what makes a claim true.
- `QueueImplementsCopy` (`TransferContentProofs`): `Spec => ImplementsCopy`, under `Steady`.
  A truncating `HelperOpen` is a `Restart`, a `HelperWrite` of a claimed chunk a `Copy`, the
  folds are a `Save` of what `DoneOK` says is there, a `FoldJobEnd` with success is a
  `Deliver`, a fresh `StartItem` a `Forget`, and all other steps change nothing of the copy.
- `CopySound` and `QueueIsSound` (`TransferContentProofs`): the abstract specification keeps
  its promise, so what `ImplementsCopy` refines to is worth refining to, and the queue keeps
  it with the refinement.
- `ControlInvariant` (`ShmRingControlProofs`): `RingSpec => []Control`, for any number and
  size of slots, any length of files, and both flow controls. The properties of the ring are
  far from inductive: that no unit is lost when a helper reports success depends on what the
  I/O thread does after the last line was read, which depends on which lines may still be on
  the pipes. `Control` says who does what when: the types, what the I/O thread holds
  (`FlusherOK`), what is on the two pipes while the helper waits for a command, the mapping,
  a grant, its quota, the next slot or the verdict (`Wires`, one conjunct each), which phases
  of the UI thread go with which of the others (`BossOK`), where the reader may be and what
  lines may reach it in which order (`ReaderOK`), the flags (`FlagsOK`), the helper's slot
  (`HelperOK`), and that everything is at rest once a transfer is done (`DoneOK`). One lemma
  per action; the lemmas about pipes say what appending and taking a line does to them.
- `SlotsAreOwnedOnce` and `NoLineIsStray` (`ShmRingProofs`): `SlotOwnedOnce` and
  `NoStrayLines`. While the ring is in use the number of places that hold a slot, the free
  list, the ready queue, the I/O thread, the grants on the pipe and at the helper, the lent
  slot, and the lines that hand it over, adds up to one at most (`OwnersOK`); each action
  takes a slot from one place when it puts it in another. `GrantsFit` follows from the counts.
- `DataInvariant`, `RingTypesHold`, `RingIsStream` and `RingDelivers` (`ShmRingProofs`):
  `RingTypeOK`, `ImplementsStream`, and that the promise of `StreamCopy` holds of the ring.
  `Data` says which units of the file are where. `Chain(memory, a, q, b)` says that the lines
  of the queue `q` stand for slots that hold the units from `a` to `b`, without a gap. A
  download is one chain from what arrived, over the I/O thread's slot, the ready queue and
  the pipe, to what the helper handed over (`QueueOK`), whose own slot continues it
  (`FillOK`); when the I/O thread has drained its queue nothing of the chain is left
  (`DrainOK`). An upload is one chain from what was sent, over the helper's slot and the
  ready queue, to what was read of the file (`UploadOK`). So all arrived when a transfer
  succeeds (`CompleteOK`). Owners are needed here: a slot that is filled is in no chain.
  A write of the I/O thread or of the helper is then an `Arrive` of `StreamCopy`, a transfer
  command a `Begin`, a result a `Finish` or a `Fail`, a closed connection a `Fail`, and all
  other steps change nothing of the stream.
- `StreamIsInOrder` (`ShmRingProofs`): the stream itself is in order, for files of any length.
- `ReportsAreFinal`, `FailuresAreTold` and `TypeCorrect` (`WorkerProofs`): a report
  comes after the last item of every batch, and each failure is told once. The invariant adds that `running` counts
  the threads that are not over, and that a `running` read as 0 stays 0 until the
  end of that `poll()`, because only the UI thread starts batches.

- `FlowsOwnTheWire`, `WalksWait` and `DeletesAreComplete` (`ControlSessionProofs`):
  `WireMatchesPhase`, `NoListingWhileAsking` and `NothingCollectedLate` of the control
  session, with or without deaths at a prompt. The first needs that each alternative
  keeps to its own phases; the second that a recursive download always has a batch; the
  third that a delete whose commands are built has its next command on the wire between
  two polls, or a dead link, so that nobody can extend it.

- `SessionHolds` (`ControlSessionProofs`), and from it `OneReplyIsOwed`, `CwdIsThePath`,
  `ItemsAreOfPath`, `WalksAreOwned` and `TypesHold`: the other invariants of the control
  session, provided no helper dies at a prompt (`~StalePrompts`); `control_secret` shows that
  `OneReplyOwed` is false otherwise. They hold only together: the path is what the last
  directory listing was of because the reply that committed it was to the command of that
  flow. `Session` says, beside the properties, in which phases each alternative of `txn` can
  be (`StageOK`), when the link is up (`AliveOK`), which folders the flow, the helper and the
  staged listing are of (`DirsOK`), and what is on the wire. A live link is in one of seven
  states (`WireOK`): dead, idle, starting, with a command unread, at work, at a prompt, or
  with the replies on their way, each with the lines there must be in the two pipes and the
  command they answer. A link that was given up may hold anything (`Abandoned`), as nothing
  of it is read.
- `ConflictTypes` and `NothingStale` (`ConflictEnqueueProofs`): `ConflictTypeOK` and
  `NoStaleCommit`, for any names, selections, policies and bounds. What is queued is of
  this session because whatever may still queue something is: the invariant
  (`BatchesOK`, `HandlersOK`) says so of a batch that can be pumped, of the walk's batch
  and of the handler that runs, and that an open question is of the session of its
  batch. A session only ends when no batch can be pumped, and it takes the walk's batch
  along; one that waits for an answer stays behind, and `Accepts` is what keeps it shut.
- `DownloadsAreAgreed`: `Spec => []DownloadAgreed`, whatever the policy. A batch writes
  over the rest only when the user said so last, and it asks only while no answer is for
  the rest (`AnswersKept`); so when the pump finds `all` to be "write", `writeAll` is set
  although every other answer clears it. A renamed target is one that `Uniquify` found free,
  and a local target is always looked up, whatever is on display.
- `VerdictsAreHonest` (`WorkerProofs`): `HonestVerdict`, for any number of items and
  workers. All that is on its way from a child, in the pipe or split into lines, is the
  child's one verdict (`VerdictOK`), so a worker's state is that verdict or says that the
  child has ended (`WorkerOK`), as does `running` cleared. It needs that nothing was ever
  started for an item that is still queued, nor for an id not given yet (`FreshOK`): a
  worker left behind by a removed item can then not speak for another one.

- `OneWorkerPerItem` and `HashTypes` (`WorkerProofs`): `OneWorkerEach` and `HashTypeOK`.
  The queue and the workers hold each item once (`Distinct`), a worker's item is not
  waiting, an item that is hashed has a worker and so has every child (`ServedOK`). As many
  start as there is room for, because the number of waiting items ahead of a started one is
  below the room and no two have the same number ahead (`RoomForAll`). The filter of a
  sequence is defined by positions (`Only`), since the recursive `SelectSeq` cannot be
  reasoned about here; `OnlyKeeps` says what it keeps, from the fact that the positions of a
  finite set can be numbered in order (`RankOf`).

- `TileHolds` (`TileLayoutProofs`), and from it `PanesAreTree`, `AppsAreKept` and
  `FocusFollows`: `TileTypeOK`, `AppsKept` and `FocusFollowsPanes`, for any number of slots,
  applications and jobs. `Tile` says that the slots in use are a tree (`IsTree`): each but
  the root is a side of one fork, the sides of a fork differ, and there is a `depth` that
  grows from a fork to its sides, without which a close could put a slot below itself. The
  owners are where they say (`OwnersOK`), nothing but the end of applications waits while one
  is zoomed (`ZoomOK`), and a waiting job is about what exists (`Fits`), which is why each
  close and each end goes through the jobs that wait. `SplitTree` and `CollapseTree` are
  about trees alone: a split doubles the depths to make room for its two slots, and a close
  keeps them, since what was below the sibling is below the fork it replaces as well. One lemma per action; the order in
  which panes are visited matters to none of them, so nothing is needed of the recursive
  function that collects them except that a selection is a list of distinct leaves.

The assumptions are the named `ASSUME`s of the modules: finite sets, positive sizes, names
that are different, and limits that allow either one channel or enough for every chunk.

Every invariant of a passing run is a theorem, and so are both refinements. Only
model-checked are the liveness properties (`Settles`, `StopReturns`, `TransferEnds`,
`EveryHashDecided`, `NeverWedged` and `StuckWalkReleased`), which need fairness and
`ENABLED`.

## Not modelled

- Two queue items that name one target, and names that two waiting batches may both
  take by renaming; the number of chunks of a file changing between two parallel
  sessions (the code rejects such a state file; only the switch to one stream is modelled).
- A server that answers writes out of order (`sftp.c:1199` counts acknowledged bytes in
  the order of the answers), and the pipelined requests of `xfer_upload_*` and
  `xfer_download_*`. `TransferScheduler` takes a reported byte to be in the target;
  `ShmRing` shows it for the part of the way that is Parvion's own.
- The download chunks over the ring (`PARVION_CHUNK_RING=1`, off by default), write-back
  pacing, and the Windows side of the ring.
- Failing writes of the state file itself (`session.hpp:2993`; a claim that stays behind
  is safe, a missing file means a restart); the modification time of the source.
- What a disconnect does to running transfers, and the download a failed symlink
  navigation falls back to (`control` and `upload` see their own half).
- Targets that appear or vanish while a batch runs; how sizes and times are compared.
- Of the window manager: workspaces (removing one shifts the numbers of those behind it,
  `src/src/netxs/apps/tile.hpp:2525`), grips and ratios, previews, the command bar,
  scripting and the limit of the depth. A pane is zoomed only while no job waits.
- `no_autostart`, logging, transfer rates, checksums after a transfer, pane
  refreshes.
- The rest of the repository, which is most of it: of its 114 thousand lines the
  terminal emulator, the canvas, the controls, the console servers of Windows, the
  event bus, the Lua and XML layers and the operating system layers are sequential
  transformations of large data (cell grids, escape sequences, markup) or calls of
  the system. Their state is out of reach of a model checker, and a model of them
  would either repeat the code line by line or say nothing about it. The map covers
  the code that decides what happens in which order.
