---------------------------- MODULE ControlSession ----------------------------
(***************************************************************************)
(* The control session of Parvion: one parvionsftp helper process, one     *)
(* transaction that owns its command stream (control.hpp), and the poll()  *)
(* of the UI timer that drains the helper's replies and drives connecting, *)
(* reconnecting, the watchdog, keep-alives, refreshes and recursive walks  *)
(* (session.hpp, sftp_remote).                                             *)
(***************************************************************************)
EXTENDS Naturals, Sequences, FiniteSets

CONSTANTS
  Dir,          \* remote directories
  Root,         \* "/"
  Home,         \* where the server starts a session
  NoDir,        \* no directory
  Keys,         \* private keys to register before `open'
  MaxTries,     \* max_reconnect_tries
  MaxWork,      \* bound on the pending work of a recursive walk
  MaxPrompts,   \* bound on the questions of one authentication and on open dialogs
  StalePrompts  \* whether a helper may die while it waits for a secret

ASSUME ControlAssumption ==
  /\ Root \in Dir /\ Home \in Dir /\ NoDir \notin Dir
  /\ Keys \in Nat /\ MaxTries \in Nat \ {0}
  /\ MaxWork \in Nat \ {0} /\ MaxPrompts \in Nat
  /\ StalePrompts \in BOOLEAN

VARIABLES
  pc,       \* "ui": between two poll()s; "drain" and "tick": inside one
  left,     \* messages of the drained batch still to process
  stage,    \* sftp_remote::stage
  txn,      \* control_transaction::state
  command,  \* control_transaction::command, what the wire is busy with
  staged,   \* control_transaction::staged: the directories its entries are of
  path,     \* the committed remote directory
  items,    \* the shown listing: the directories its entries are of
  refresh,  \* remote_refresh_path
  walk,     \* walk_batch: none, open, waiting (dialog up), stuck (answer dropped), cancelled
  sec,      \* the single-shot latch of secret prompts
  asked,    \* whether this authentication has asked before
  modals,   \* secret dialogs on the screen
  helper,   \* the helper process and the pipe to it
  inbox     \* parsed messages of the helper

session == <<helper, inbox>>
view    == <<path, items, refresh>>
prompt  == <<sec, asked, modals>>
poll    == <<pc, left>>
vars    == <<poll, stage, txn, command, staged, view, walk, prompt, session>>

Phases ==
  [none         |-> {"idle"},
   connection   |-> {"retry_wait", "waiting_greeting", "registering_key", "opening",
                     "discovering_path", "restoring_path", "listing"},
   navigation   |-> {"changing_directory", "waiting_to_list", "listing_destination",
                     "rolling_back"},
   refresh      |-> {"listing"},
   mutation     |-> {"executing", "listing_after_success", "listing_after_failure"},
   rec_download |-> {"collecting", "listing"},
   rec_delete   |-> {"collecting", "listing", "executing", "listing_result"},
   rec_upload   |-> {"collecting", "executing", "probing_mkdir", "listing_after_abort",
                     "listing_result"},
   keepalive    |-> {"waiting"}]

Commands == {"open", "pwd", "ls", "cd", "cd_rollback", "op", "rls", "recop", "keyfile"}

\* control_transaction::state.  `target' is also connection::restore_path; `keys' are the
\* keys not yet registered, `stack' the directories still to list, `cmds' the commands
\* collected and, once `built', still to send.
Txn(kind, phase) ==
  [kind |-> kind, phase |-> phase, reconnect |-> FALSE, attempts |-> 0, keys |-> 0,
   source |-> NoDir, target |-> NoDir, stack |-> 0, cmds |-> 0, built |-> FALSE]
NoTxn == Txn("none", "idle")

In(kind, phase) == txn.kind = kind /\ txn.phase = phase
At(phase)       == [txn EXCEPT !.phase = phase]

Line(name, dir) == [name |-> name, dir |-> dir]
Secret          == Line("secret", NoDir)
NoLine          == Line("none", NoDir)

Off   == [proc |-> "off", alive |-> FALSE, cwd |-> NoDir, cmd |-> NoLine,
          stdin |-> <<>>, said |-> 0]
Fresh == [Off EXCEPT !.proc = "greet", !.alive = TRUE]

Message(type, of, ok, dir) == [type |-> type, of |-> of, ok |-> ok, dir |-> dir]
Terminal(m)                == m.type \in {"reply", "done"}

Init ==
  /\ pc = "ui" /\ left = 0
  /\ stage = "idle"
  /\ txn = NoTxn /\ command = "none" /\ staged = {}
  /\ path = Root /\ items = {} /\ refresh = NoDir
  /\ walk = "none"
  /\ sec = "idle" /\ asked = FALSE /\ modals = 0
  /\ helper = Off /\ inbox = <<>>

-----------------------------------------------------------------------------
(* Pieces of the handlers.                                                 *)

Connected       == stage = "connected" /\ helper.alive
BrowseAvailable == Connected /\ txn.kind = "none"
HandshakeActive == txn.kind = "connection" /\ txn.phase # "retry_wait"
Live            == stage \notin {"idle", "failed"}
Recursive       == txn.kind \in {"rec_download", "rec_delete", "rec_upload"}

AcceptsListing ==
  \/ txn.kind = "refresh"
  \/ In("connection", "listing")
  \/ In("navigation", "listing_destination")
  \/ txn.kind = "mutation" /\ txn.phase # "executing"
  \/ In("rec_download", "listing")
  \/ txn.kind = "rec_delete" /\ txn.phase \in {"listing", "listing_result"}
  \/ /\ txn.kind = "rec_upload"
     /\ txn.phase \in {"probing_mkdir", "listing_after_abort", "listing_result"}

\* write_line: what is written to a dead helper is lost.
Sent(line) == IF helper.proc = "off" THEN helper
              ELSE [helper EXCEPT !.stdin = Append(@, line)]

Issue(name, dir) == command' = name /\ helper' = Sent(Line(name, dir))
Stop             == helper' = Off /\ inbox' = <<>> /\ left' = 0

\* Mutant: the new helper's messages are appended to what the old one left.
LaunchedKeepingInbox == helper' = Fresh /\ UNCHANGED inbox /\ left' = 0

\* stop() and launch()
Launched == helper' = Fresh /\ inbox' = <<>> /\ left' = 0

Reset == txn' = NoTxn /\ command' = "none" /\ staged' = {}

CommitStagedListing(dir) == path' = dir /\ items' = staged /\ Reset

\* begin_recover; `tries' is what an unfinished reconnect has used up.
Reconnecting(tries) ==
  [Txn("connection", "retry_wait") EXCEPT
     !.reconnect = TRUE, !.attempts = tries, !.target = path]
TriesUsed == IF txn.kind = "connection" /\ txn.reconnect THEN txn.attempts ELSE 0

\* Mutant: the recovery leaves an outstanding conflict question alone.
BeginRecoverKeepingWalk(tries) ==
  /\ txn' = Reconnecting(tries) /\ command' = "none" /\ staged' = {}
  /\ UNCHANGED walk
  /\ refresh' = NoDir
  /\ stage' = "idle"

BeginRecover(tries) ==
  /\ txn' = Reconnecting(tries) /\ command' = "none" /\ staged' = {}
  /\ walk' = "none"
  /\ refresh' = NoDir
  /\ stage' = "idle"

\* Mutant: a folder is added to a walk in any phase.
CollectingInAnyPhase(kind) == txn.kind = kind \/ txn.kind = "none"

\* ensure_collecting
Collecting(kind) == In(kind, "collecting") \/ txn.kind = "none"
Collector(kind)  == IF txn.kind = kind THEN txn ELSE Txn(kind, "collecting")

\* ensure_walk_batch: a new batch may be the action's, which may be asking already.
EnsureWalkBatch == IF walk = "none" THEN walk' \in {"open", "waiting"} ELSE UNCHANGED walk

-----------------------------------------------------------------------------
(* The user: between two polls.                                            *)

\* A dialog covers the window while it is up.
AtUi == pc = "ui" /\ modals = 0

Connect ==
  /\ AtUi
  /\ path' = Root /\ items' = {} /\ refresh' = NoDir /\ walk' = "none"
  /\ sec' = "idle" /\ asked' = FALSE
  /\ staged' = {} /\ command' = "none"
  /\ \/ Launched /\ txn' = Txn("connection", "waiting_greeting") /\ stage' = "greeting"
     \/ Stop /\ txn' = NoTxn /\ stage' = "failed"
  /\ UNCHANGED <<pc, modals>>

Disconnect ==
  /\ AtUi /\ (stage # "idle" \/ txn.kind # "none")
  /\ Stop /\ Reset
  /\ items' = {} /\ refresh' = NoDir /\ walk' = "none"
  /\ sec' = "idle" /\ asked' = FALSE
  /\ stage' = "idle"
  /\ UNCHANGED <<pc, path, modals>>

\* launch(): only a free control session starts a one-shot flow.
Launch(flow, name, dir) ==
  /\ txn' = flow /\ staged' = {} /\ Issue(name, dir)
  /\ UNCHANGED <<left, stage, path, items, walk, prompt, inbox>>

BeginNavigation(dir) ==
  /\ AtUi /\ BrowseAvailable
  /\ Launch([Txn("navigation", "changing_directory") EXCEPT !.source = path, !.target = dir],
            "cd", dir)
  /\ UNCHANGED <<pc, refresh>>

BeginMutation ==
  /\ AtUi /\ BrowseAvailable
  /\ Launch(Txn("mutation", "executing"), "op", NoDir)
  /\ UNCHANGED <<pc, refresh>>

RequestRefresh ==
  /\ AtUi
  /\ refresh' = path
  /\ UNCHANGED <<poll, stage, txn, command, staged, path, items, walk, prompt, session>>

\* Start or extend a walk, which costs no command yet.
Collect(rec) ==
  /\ txn' = rec
  /\ IF txn.kind = "none" THEN command' = "none" /\ staged' = {}
     ELSE UNCHANGED <<command, staged>>
  /\ UNCHANGED <<poll, stage, view, prompt, session>>

DownloadFolder ==
  LET rec == Collector("rec_download") IN
  /\ AtUi /\ Connected /\ Collecting("rec_download") /\ rec.stack < MaxWork
  /\ EnsureWalkBatch
  /\ Collect([rec EXCEPT !.stack = @ + 1])

\* What is collected after the commands were built gets no command.
Counted(rec, n) == IF rec.built THEN rec.cmds ELSE rec.cmds + n

DeleteFolder ==
  LET rec == Collector("rec_delete") IN
  /\ AtUi /\ Connected /\ Collecting("rec_delete")
  /\ rec.stack < MaxWork /\ rec.cmds < MaxWork
  /\ Collect([rec EXCEPT !.stack = @ + 1, !.cmds = Counted(rec, 1)])
  /\ UNCHANGED walk

DeleteRemoteFile ==
  LET rec == Collector("rec_delete") IN
  /\ AtUi /\ Connected /\ Collecting("rec_delete") /\ rec.cmds < MaxWork
  /\ Collect([rec EXCEPT !.cmds = Counted(rec, 1)])
  /\ UNCHANGED walk

UploadFolder ==
  LET rec == Collector("rec_upload") IN
  /\ AtUi /\ Connected /\ Collecting("rec_upload")
  /\ EnsureWalkBatch
  /\ \E n \in 1 .. MaxWork :
       rec.cmds + n =< MaxWork /\ Collect([rec EXCEPT !.cmds = @ + n])

\* deliver(): the answer to the walk's conflict question.  A new question may follow.
AnswerConflict ==
  /\ AtUi /\ walk = "waiting"
  /\ IF Connected THEN walk' \in {"open", "waiting", "cancelled"} ELSE walk' = "stuck"
  /\ UNCHANGED <<poll, stage, txn, command, staged, view, prompt, session>>

ProvideSecret ==
  /\ pc = "ui" /\ modals > 0
  /\ modals' = modals - 1 /\ sec' = "idle"
  /\ helper' = Sent(Secret)
  /\ UNCHANGED <<poll, stage, txn, command, staged, view, walk, asked, inbox>>

CancelSecret ==
  /\ pc = "ui" /\ modals > 0
  /\ modals' = modals - 1 /\ sec' = "idle"
  /\ Stop /\ Reset
  /\ stage' = "failed"
  /\ UNCHANGED <<pc, view, walk, asked>>

-----------------------------------------------------------------------------
(* poll(), first part: the drained messages.                               *)

Poll ==
  /\ pc = "ui"
  /\ pc' = "drain"
  /\ left' = IF Live THEN Len(inbox) ELSE 0
  /\ UNCHANGED <<stage, txn, command, staged, view, walk, prompt, session>>

Got(types) == pc = "drain" /\ left > 0 /\ Head(inbox).type \in types
Popped     == inbox' = Tail(inbox) /\ left' = left - 1

ListEntry ==
  /\ Got({"entry"}) /\ Popped
  /\ staged' = IF AcceptsListing THEN staged \cup {Head(inbox).dir} ELSE staged
  /\ UNCHANGED <<pc, stage, txn, command, view, walk, prompt, helper>>

\* A first question may be answered from the cache; a repeated one never is.
AskPassword ==
  /\ Got({"ask"}) /\ Popped
  /\ asked' = TRUE
  /\ \/ ~asked /\ helper' = Sent(Secret) /\ UNCHANGED sec
     \/ sec' = "pending" /\ UNCHANGED helper
  /\ UNCHANGED <<pc, stage, txn, command, staged, view, walk, modals>>

SendNextKeyfileOrOpen(keys) ==
  IF keys > 0
  THEN txn' = [At("registering_key") EXCEPT !.keys = keys - 1] /\ Issue("keyfile", NoDir)
  ELSE txn' = At("opening") /\ Issue("open", NoDir)

Greeting ==
  /\ Got({"reply"}) /\ In("connection", "waiting_greeting") /\ Popped
  /\ stage' = "opening"
  /\ SendNextKeyfileOrOpen(Keys)
  /\ UNCHANGED <<pc, staged, view, walk, prompt>>

\* "Skipping Done without active operation." (or a reply)
SkipTerminal ==
  /\ Got({"reply", "done"}) /\ command = "none"
  /\ Head(inbox).type = "done" \/ ~In("connection", "waiting_greeting")
  /\ Popped
  /\ UNCHANGED <<pc, stage, txn, command, staged, view, walk, prompt, helper>>

Completes ==
  /\ Got({"reply", "done"}) /\ command # "none"
  /\ Head(inbox).type = "reply" \/ Head(inbox).ok \/ In("connection", "registering_key")
Fails ==
  /\ Got({"done"}) /\ command # "none"
  /\ ~Head(inbox).ok /\ ~In("connection", "registering_key")

\* What a terminal event changes when it neither stops nor leaves the session.
Advance(flow) ==
  /\ txn' = flow
  /\ Popped /\ UNCHANGED <<pc, stage, view, walk, prompt>>
Quiet == command' = "none" /\ UNCHANGED helper
Free  == Reset /\ Popped /\ UNCHANGED <<pc, stage, view, prompt, helper>>
Shown(dir) == /\ CommitStagedListing(dir)
              /\ Popped /\ UNCHANGED <<pc, stage, refresh, prompt, helper>>

CompleteConnection ==
  /\ Completes /\ txn.kind = "connection"
  /\ CASE txn.phase = "registering_key" ->
            /\ SendNextKeyfileOrOpen(txn.keys)
            /\ Popped /\ UNCHANGED <<pc, stage, staged, view, walk, prompt>>
       [] txn.phase = "opening" ->
            /\ stage' = "connected"
            /\ IF txn.reconnect
               THEN txn' = At("restoring_path") /\ Issue("cd", txn.target)
               ELSE txn' = At("discovering_path") /\ Issue("pwd", NoDir)
            /\ Popped /\ UNCHANGED <<pc, staged, view, walk, prompt>>
       [] txn.phase \in {"discovering_path", "restoring_path"} ->
            /\ Advance([At("listing") EXCEPT
                          !.target = IF txn.reconnect THEN @ ELSE Head(inbox).dir])
            /\ staged' = {} /\ Issue("ls", NoDir)
       [] txn.phase = "listing" ->
            Shown(txn.target) /\ UNCHANGED walk

\* fail_flow(connection), for a reply and for a timeout.
ConnectionFailed ==
  \/ /\ txn.reconnect
     /\ txn' = At("retry_wait") /\ command' = "none" /\ stage' = "idle"
     /\ Stop /\ UNCHANGED <<staged, view>>
  \/ /\ ~txn.reconnect /\ stage # "connected"
     /\ Stop /\ Reset /\ stage' = "failed" /\ UNCHANGED view

FailConnection ==
  /\ Fails /\ txn.kind = "connection"
  /\ \/ ConnectionFailed
     \/ /\ ~txn.reconnect /\ In("connection", "listing")
        /\ path' = txn.target /\ items' = {}
        /\ Reset /\ Popped /\ UNCHANGED <<stage, refresh, helper>>
  /\ UNCHANGED <<pc, walk, prompt>>

\* `path' and `items' are committed together, by the listing of the destination.
CompleteNavigation ==
  /\ Completes /\ txn.kind = "navigation"
  /\ CASE txn.phase = "changing_directory" ->
            \/ Advance(At("listing_destination")) /\ staged' = {} /\ Issue("ls", NoDir)
               /\ UNCHANGED view
            \/ Advance(At("waiting_to_list")) /\ Quiet /\ UNCHANGED <<staged, view>>
       [] txn.phase = "listing_destination" -> Shown(txn.target) /\ UNCHANGED walk
       [] txn.phase = "rolling_back"        -> Free /\ UNCHANGED walk

\* Mutant: a failed listing ends the navigation without going back.
FailNavigationInPlace ==
  /\ Fails /\ txn.kind = "navigation"
  /\ Free /\ UNCHANGED walk

FailNavigation ==
  /\ Fails /\ txn.kind = "navigation"
  /\ CASE txn.phase = "changing_directory" -> Free /\ UNCHANGED walk
       [] txn.phase = "listing_destination" ->
            /\ Advance(At("rolling_back")) /\ staged' = {}
            /\ Issue("cd_rollback", txn.source)
            /\ UNCHANGED view
       [] txn.phase = "rolling_back" ->
            /\ BeginRecover(0)
            /\ Popped /\ UNCHANGED <<pc, path, items, prompt, helper>>

\* refresh, mutation and keepalive
CompleteOneShot ==
  /\ Completes
  /\ \/ txn.kind = "refresh" /\ Shown(path) /\ UNCHANGED walk
     \/ /\ In("mutation", "executing")
        /\ Advance(At("listing_after_success")) /\ staged' = {} /\ Issue("ls", NoDir)
        /\ UNCHANGED view
     \/ /\ txn.kind = "mutation" /\ txn.phase # "executing"
        /\ Shown(path) /\ UNCHANGED walk
     \/ txn.kind = "keepalive" /\ Free /\ UNCHANGED walk

FailOneShot ==
  /\ Fails
  /\ \/ /\ In("mutation", "executing")
        /\ Advance(At("listing_after_failure")) /\ staged' = {} /\ Issue("ls", NoDir)
        /\ UNCHANGED view
     \/ /\ txn.kind = "refresh" \/ (txn.kind = "mutation" /\ txn.phase # "executing")
        /\ Free /\ UNCHANGED walk
     \/ /\ txn.kind = "keepalive"
        /\ BeginRecover(0)
        /\ Popped /\ UNCHANGED <<pc, path, items, prompt, helper>>

\* The files of a listing are offered to walk_batch, which may ask about one.
CompleteRecDownload ==
  /\ Completes /\ txn.kind = "rec_download"
  /\ \E n \in 0 .. MaxWork - txn.stack :
       txn' = [At("collecting") EXCEPT !.stack = @ + n]
  /\ walk' \in {walk} \cup (IF walk = "open" THEN {"waiting"} ELSE {})
  /\ staged' = {} /\ Quiet /\ Popped
  /\ UNCHANGED <<pc, stage, view, prompt>>

\* Mutant: the failed walk leaves its batch behind.
FailRecDownloadKeepingBatch ==
  /\ Fails /\ txn.kind = "rec_download"
  /\ Free /\ UNCHANGED walk

FailRecDownload ==
  /\ Fails /\ txn.kind = "rec_download"
  /\ Free /\ walk' = "none"

CompleteRecDelete ==
  /\ Completes /\ txn.kind = "rec_delete"
  /\ CASE txn.phase = "listing" ->
            \E dirs, files \in 0 .. MaxWork :
              /\ dirs + txn.stack =< MaxWork /\ Counted(txn, dirs + files) =< MaxWork
              /\ Advance([At("collecting") EXCEPT
                            !.stack = @ + dirs, !.cmds = Counted(txn, dirs + files)])
              /\ staged' = {} /\ Quiet /\ UNCHANGED view
       [] txn.phase = "executing" ->
            /\ Advance([At("collecting") EXCEPT !.cmds = @ - 1])
            /\ Quiet /\ UNCHANGED <<staged, view>>
       [] txn.phase = "listing_result" -> Shown(path) /\ UNCHANGED walk

\* Mutant: a failed listing counts as a command done.
FailRecDeleteCounting ==
  /\ Fails /\ txn.kind = "rec_delete"
  /\ Advance([At("collecting") EXCEPT !.cmds = @ - 1])
  /\ Quiet /\ UNCHANGED <<staged, view>>

FailRecDelete ==
  /\ Fails /\ txn.kind = "rec_delete"
  /\ CASE txn.phase \in {"listing", "listing_result"} -> Free /\ UNCHANGED walk
       [] txn.phase = "executing" ->
            /\ Advance([At("collecting") EXCEPT !.cmds = @ - 1])
            /\ Quiet /\ UNCHANGED <<staged, view>>

\* Mutant: the aborted upload keeps the entries of the probe.
AbortKeepingStaged ==
  /\ Advance(At("listing_after_abort")) /\ UNCHANGED staged /\ Issue("ls", NoDir)
  /\ UNCHANGED view

\* Mutant: the reconciling listing is never asked for.
AbortWithoutListing ==
  /\ Advance(At("listing_after_abort")) /\ staged' = {} /\ Quiet
  /\ UNCHANGED view

\* abort_recursive_upload: a listing reconciles the pane; then the walk is cancelled.
AbortRecursiveUpload ==
  /\ Advance(At("listing_after_abort")) /\ staged' = {} /\ Issue("ls", NoDir)
  /\ UNCHANGED view

CompleteRecUpload ==
  /\ Completes /\ txn.kind = "rec_upload"
  /\ CASE txn.phase = "executing" ->
            /\ Advance([At("collecting") EXCEPT !.cmds = @ - 1])
            /\ Quiet /\ UNCHANGED <<staged, view>>
       [] txn.phase = "probing_mkdir" ->
            \/ /\ Advance([At("collecting") EXCEPT !.cmds = @ - 1])
               /\ staged' = {} /\ Quiet /\ UNCHANGED view
            \/ AbortRecursiveUpload
       [] txn.phase = "listing_after_abort" -> Shown(path) /\ walk' = "none"
       [] txn.phase = "listing_result"      -> Shown(path) /\ UNCHANGED walk

FailRecUpload ==
  /\ Fails /\ txn.kind = "rec_upload"
  /\ CASE txn.phase = "executing" ->
            /\ Advance(At("probing_mkdir")) /\ staged' = {}
            /\ \E dir \in Dir : Issue("rls", dir)
            /\ UNCHANGED view
       [] txn.phase = "probing_mkdir" -> AbortRecursiveUpload
       [] txn.phase \in {"listing_after_abort", "listing_result"} -> Free /\ walk' = "none"

\* A prompt raises its dialog, then poll() looks at the link.
RaisePrompt ==
  IF sec = "pending" THEN sec' = "shown" /\ modals' = modals + 1
  ELSE UNCHANGED <<sec, modals>>

CheckLink ==
  /\ pc = "drain" /\ left = 0
  /\ pc' = "tick"
  /\ RaisePrompt
  /\ CASE ~helper.alive /\ stage = "connected" ->
            BeginRecover(TriesUsed) /\ UNCHANGED <<path, items>>
       [] ~helper.alive /\ HandshakeActive /\ stage # "connected" ->
            /\ IF txn.reconnect
               THEN /\ txn' = At("retry_wait") /\ command' = "none" /\ stage' = "idle"
                    /\ UNCHANGED staged
               ELSE Reset /\ stage' = "failed"
            /\ UNCHANGED <<view, walk>>
       [] OTHER -> UNCHANGED <<stage, txn, command, staged, view, walk>>
  /\ UNCHANGED <<left, asked, session>>

-----------------------------------------------------------------------------
(* poll(), second part: what it drives.  At most one of these is due.      *)

Tick == pc = "tick" /\ pc' = "ui"

DriveReconnect ==
  /\ Tick /\ In("connection", "retry_wait")
  /\ IF txn.attempts >= MaxTries
     THEN Reset /\ stage' = "failed" /\ UNCHANGED <<left, asked, session>>
     ELSE LET again == [txn EXCEPT !.attempts = @ + 1] IN
          /\ command' = "none" /\ staged' = {}
          /\ \/ /\ Launched /\ asked' = FALSE
                /\ txn' = [again EXCEPT !.phase = "waiting_greeting"]
                /\ stage' = "greeting"
             \/ /\ Stop /\ UNCHANGED asked
                /\ txn' = again
                /\ stage' = "idle"
  /\ UNCHANGED <<view, walk, sec, modals>>

\* Mutant: the watchdog covers only an established session.
MaybeWatchdogConnected ==
  /\ Tick /\ helper.alive /\ command # "none" /\ sec = "idle"
  /\ stage = "connected"
  /\ BeginRecover(TriesUsed)
  /\ UNCHANGED <<left, path, items, prompt, session>>

\* The response time-out of an outstanding command; think time does not count.
MaybeWatchdog ==
  /\ Tick /\ helper.alive /\ command # "none" /\ sec = "idle"
  /\ \/ /\ stage = "connected"
        /\ BeginRecover(TriesUsed)
        /\ UNCHANGED <<left, path, items, session>>
     \/ /\ stage # "connected" /\ HandshakeActive
        /\ ConnectionFailed /\ UNCHANGED walk
  /\ UNCHANGED prompt

MaybeKeepalive ==
  /\ Tick /\ BrowseAvailable
  /\ Launch(Txn("keepalive", "waiting"), "pwd", NoDir)
  /\ UNCHANGED refresh

BeginRefresh ==
  /\ Tick /\ BrowseAvailable /\ refresh # NoDir
  /\ refresh' = NoDir
  /\ IF refresh = path
     THEN Launch(Txn("refresh", "listing"), "ls", NoDir)
     ELSE UNCHANGED <<left, stage, txn, command, staged, path, items, walk, prompt, session>>

\* Only with PARVION_DEBUG_LS_DELAY_MS.
StartNavigationListing ==
  /\ Tick /\ In("navigation", "waiting_to_list")
  /\ txn' = At("listing_destination") /\ staged' = {} /\ Issue("ls", NoDir)
  /\ UNCHANGED <<left, stage, view, walk, prompt, inbox>>

\* What a walk does next on the idle wire.
Drive(rec, name, dir) ==
  /\ txn' = rec /\ Issue(name, dir)
  /\ UNCHANGED <<left, stage, view, prompt, inbox>>
WireIdle == Tick /\ Connected /\ command = "none"

\* Mutant: the walk goes on while its question is open.
DriveRecDownloadAsking ==
  /\ WireIdle /\ txn.kind = "rec_download"
  /\ txn.stack > 0
  /\ staged' = {} /\ UNCHANGED walk
  /\ \E dir \in Dir : Drive([At("listing") EXCEPT !.stack = @ - 1], "rls", dir)

DriveRecDownload ==
  /\ WireIdle /\ txn.kind = "rec_download" /\ walk \notin {"waiting", "stuck"}
  /\ IF walk # "cancelled" /\ txn.stack > 0
     THEN /\ staged' = {} /\ UNCHANGED walk
          /\ \E dir \in Dir : Drive([At("listing") EXCEPT !.stack = @ - 1], "rls", dir)
     ELSE /\ Reset /\ walk' = "none"
          /\ UNCHANGED <<left, stage, view, prompt, session>>

DriveRecDelete ==
  /\ WireIdle /\ txn.kind = "rec_delete"
  /\ IF txn.stack > 0
     THEN /\ \E dir \in Dir : Drive([At("listing") EXCEPT !.stack = @ - 1], "rls", dir)
          /\ staged' = {}
     ELSE IF txn.cmds > 0
          THEN Drive([At("executing") EXCEPT !.built = TRUE], "recop", NoDir)
               /\ UNCHANGED staged
          ELSE Drive([At("listing_result") EXCEPT !.built = TRUE], "ls", NoDir)
               /\ staged' = {}
  /\ UNCHANGED walk

\* The files are offered when every directory exists; the batch then goes its own way.
DriveRecUpload ==
  /\ WireIdle /\ txn.kind = "rec_upload"
  /\ IF txn.cmds > 0
     THEN Drive(At("executing"), "recop", NoDir) /\ UNCHANGED <<staged, walk>>
     ELSE Drive(At("listing_result"), "ls", NoDir) /\ staged' = {} /\ walk' = "none"

\* Nothing is due, or only what waits for a clock.
Due ==
  /\ Connected /\ command = "none"
  /\ \/ txn.kind = "none" /\ refresh # NoDir
     \/ txn.kind \in {"rec_delete", "rec_upload"}
     \/ txn.kind = "rec_download" /\ walk \notin {"waiting", "stuck"}
Rest ==
  /\ Tick /\ ~Due
  /\ UNCHANGED <<left, stage, txn, command, staged, view, walk, prompt, session>>

-----------------------------------------------------------------------------
(* The helper (psftp.c): one terminal event for every command.  Its end of *)
(* the pipe is read by a thread of its own, so it moves at any time.       *)

HelperStep == UNCHANGED <<poll, stage, txn, command, staged, view, walk, prompt>>
Emit(m)    == inbox' = Append(inbox, m)
Terminates(m) ==
  /\ Emit(m)
  /\ helper' = [helper EXCEPT !.proc = "ready", !.cmd = NoLine,
                  !.cwd = IF ~m.ok THEN @
                          ELSE IF helper.cmd.name \in {"cd", "cd_rollback"} THEN helper.cmd.dir
                          ELSE IF helper.cmd.name = "open" THEN Home ELSE @]

HelperGreets ==
  /\ helper.proc = "greet"
  /\ helper' = [helper EXCEPT !.proc = "ready"]
  /\ Emit(Message("reply", "greeting", TRUE, NoDir))
  /\ HelperStep

\* The next line: a command, or a secret that no prompt waits for.
HelperReads ==
  /\ helper.proc = "ready" /\ helper.stdin # <<>>
  /\ LET line == Head(helper.stdin) IN
     IF line = Secret
     THEN /\ helper' = [helper EXCEPT !.stdin = Tail(@)]
          /\ Emit(Message("done", "secret", FALSE, NoDir))
     ELSE /\ helper' = [helper EXCEPT !.stdin = Tail(@), !.cmd = line, !.proc = "exec",
                           !.said = 0]
          /\ UNCHANGED inbox
  /\ HelperStep

HelperPrompts ==
  /\ helper.proc = "exec" /\ helper.cmd.name = "open" /\ helper.said < MaxPrompts
  /\ modals < MaxPrompts
  /\ helper' = [helper EXCEPT !.proc = "prompt", !.said = @ + 1]
  /\ Emit(Message("ask", "open", TRUE, NoDir))
  /\ HelperStep

HelperHears ==
  /\ helper.proc = "prompt" /\ helper.stdin # <<>>
  /\ helper' = [helper EXCEPT !.proc = "exec", !.stdin = Tail(@)]
  /\ HelperStep /\ UNCHANGED inbox

Listed == IF helper.cmd.name = "ls" THEN helper.cwd ELSE helper.cmd.dir

HelperLists ==
  /\ helper.proc = "exec" /\ helper.cmd.name \in {"ls", "rls"} /\ helper.said = 0
  /\ helper' = [helper EXCEPT !.said = 1]
  /\ Emit(Message("entry", helper.cmd.name, TRUE, Listed))
  /\ HelperStep

\* Some commands end with a Reply, the others with Done; `pwd' replies with the directory.
HelperSucceeds ==
  /\ helper.proc = "exec"
  /\ LET name == helper.cmd.name
         type == IF name \in {"open", "keyfile", "ls", "rls"} THEN "done" ELSE "reply" IN
     Terminates(Message(type, name, TRUE, helper.cwd))
  /\ HelperStep

\* `pwd' cannot fail.
HelperFails ==
  /\ helper.proc = "exec" /\ helper.cmd.name # "pwd"
  /\ Terminates(Message("done", helper.cmd.name, FALSE, NoDir))
  /\ HelperStep

Prompting == helper.proc = "prompt" \/ sec # "idle" \/ \E i \in DOMAIN inbox : inbox[i].type = "ask"

HelperDies ==
  /\ helper.proc # "off"
  /\ StalePrompts \/ ~Prompting
  /\ helper' = [Off EXCEPT !.alive = helper.alive]
  /\ HelperStep /\ UNCHANGED inbox

\* The reader thread sees the end of the pipe.
ReaderEnds ==
  /\ helper.proc = "off" /\ helper.alive
  /\ helper' = Off
  /\ HelperStep /\ UNCHANGED inbox

-----------------------------------------------------------------------------
User ==
  \/ Connect \/ Disconnect \/ BeginMutation \/ RequestRefresh
  \/ \E dir \in Dir : BeginNavigation(dir)
  \/ DownloadFolder \/ DeleteFolder \/ DeleteRemoteFile \/ UploadFolder
  \/ AnswerConflict \/ ProvideSecret \/ CancelSecret

Process ==
  \/ ListEntry \/ AskPassword \/ Greeting \/ SkipTerminal
  \/ CompleteConnection \/ FailConnection
  \/ CompleteNavigation \/ FailNavigation
  \/ CompleteOneShot \/ FailOneShot
  \/ CompleteRecDownload \/ FailRecDownload
  \/ CompleteRecDelete \/ FailRecDelete
  \/ CompleteRecUpload \/ FailRecUpload

Ticks ==
  \/ DriveReconnect \/ MaybeWatchdog \/ MaybeKeepalive \/ BeginRefresh
  \/ StartNavigationListing
  \/ DriveRecDownload \/ DriveRecDelete \/ DriveRecUpload \/ Rest

Helper ==
  \/ HelperGreets \/ HelperReads \/ HelperPrompts \/ HelperHears \/ HelperLists
  \/ HelperSucceeds \/ HelperFails \/ HelperDies \/ ReaderEnds

Next == User \/ Poll \/ Process \/ CheckLink \/ Ticks \/ Helper

Spec == Init /\ [][Next]_vars

\* The timer calls poll(), which ends, and an overdue watchdog finds the time elapsed.
\* Nothing is assumed of the user or of the helper.
FairSpec ==
  /\ Spec
  /\ WF_vars(Poll) /\ WF_vars(Process) /\ WF_vars(CheckLink) /\ WF_vars(Ticks)
  /\ SF_vars(MaybeWatchdog)

-----------------------------------------------------------------------------
(* Properties.                                                             *)

LineType == [name : Commands \cup {"secret"}, dir : Dir \cup {NoDir}]
MessageType ==
  [type : {"entry", "ask", "reply", "done"}, of : Commands \cup {"greeting", "secret"},
   ok : BOOLEAN, dir : Dir \cup {NoDir}]

AnyPhase == UNION {Phases[k] : k \in DOMAIN Phases}
TxnType ==
  [kind : DOMAIN Phases, phase : AnyPhase,
   reconnect : BOOLEAN, attempts : 0 .. MaxTries, keys : 0 .. Keys,
   source : Dir \cup {NoDir}, target : Dir \cup {NoDir},
   stack : Nat, cmds : Nat, built : BOOLEAN]
HelperType ==
  [proc : {"off", "greet", "ready", "exec", "prompt"}, alive : BOOLEAN,
   cwd : Dir \cup {NoDir}, cmd : LineType \cup {NoLine}, stdin : Seq(LineType), said : Nat]

\* The variables hold what their C++ types and phases allow; no count goes below zero.
TypeOK ==
  /\ pc \in {"ui", "drain", "tick"} /\ left \in 0 .. Len(inbox)
  /\ stage \in {"idle", "greeting", "opening", "connected", "failed"}
  /\ txn \in TxnType /\ txn.phase \in Phases[txn.kind]
  /\ command \in Commands \cup {"none"} /\ staged \subseteq Dir
  /\ path \in Dir /\ items \subseteq Dir /\ refresh \in Dir \cup {NoDir}
  /\ walk \in {"none", "open", "waiting", "stuck", "cancelled"}
  /\ sec \in {"idle", "pending", "shown"} /\ asked \in BOOLEAN /\ modals \in Nat
  /\ helper \in HelperType /\ (helper.cmd # NoLine <=> helper.proc \in {"exec", "prompt"})
  /\ inbox \in Seq(MessageType)

\* The command a phase waits for: none, where it waits for the user, a clock or poll().
Awaited ==
  CASE txn.phase \in {"idle", "retry_wait", "waiting_greeting", "waiting_to_list",
                      "collecting"} -> "none"
    [] txn.phase = "registering_key" -> "keyfile"
    [] txn.phase = "opening" -> "open"
    [] txn.phase = "discovering_path" \/ txn.kind = "keepalive" -> "pwd"
    [] txn.phase \in {"restoring_path", "changing_directory"} -> "cd"
    [] txn.phase = "rolling_back" -> "cd_rollback"
    [] txn.kind = "mutation" /\ txn.phase = "executing" -> "op"
    [] txn.kind # "mutation" /\ txn.phase = "executing" -> "recop"
    [] \/ txn.kind \in {"rec_download", "rec_delete"} /\ txn.phase = "listing"
       \/ txn.phase = "probing_mkdir" -> "rls"
    [] OTHER -> "ls"

\* A phase that awaits a reply has its own command on the wire, and no other phase has
\* one: no completion is "outside its transaction phase" and no flow waits for nothing.
WireMatchesPhase == command = Awaited

\* What the helper still owes, each with its place: replies that wait to be read, the
\* command at work, lines unread.
Owed ==
  {<<inbox[i].of, "answered", i>> : i \in {k \in DOMAIN inbox : Terminal(inbox[k])}}
  \cup (IF helper.proc = "greet" THEN {<<"greeting", "working", 0>>}
        ELSE IF helper.proc \in {"exec", "prompt"} THEN {<<helper.cmd.name, "working", 0>>}
        ELSE {})
  \cup {<<helper.stdin[i].name, "unread", i>> :
          i \in {k \in DOMAIN helper.stdin : helper.stdin[k] # Secret}}

\* The reply a session waits for, if any.
Wanted == IF command # "none" THEN {command}
          ELSE IF In("connection", "waiting_greeting") THEN {"greeting"} ELSE {}

\* Every reply belongs to the command whose flow consumes it, across restarts of the
\* helper, time-outs and recoveries: a live session is owed exactly the reply it awaits,
\* or, after the helper's death, at most that one.
OneReplyOwed ==
  Live =>
    \/ {o[1] : o \in Owed} = Wanted /\ \A o, p \in Owed : o = p
    \/ helper.proc = "off" /\ Owed = {}

\* Commands with relative meaning (the argument-less `ls') run where the pane says:
\* outside of connecting and navigating the helper's directory is the committed path.
CwdIsPath ==
  stage = "connected" /\ helper.proc # "off" /\ txn.kind \notin {"connection", "navigation"}
    => helper.cwd = path

\* The pane never shows entries of another directory under the committed path, not after
\* a rollback, an abort, a recovery or a listing that was cut short.
ItemsOfPath == items \subseteq {path}

\* A batch of a walk lives no longer than its walk: no question of a walk that failed,
\* was aborted or lost its link can pause or feed the next one.
WalkOwned == walk # "none" => txn.kind \in {"rec_download", "rec_upload"}

\* No directory is listed while a conflict question of the walk is open, was dropped or
\* was answered with a cancel, although the answer and the listings interleave freely.
NoListingWhileAsking == In("rec_download", "listing") => walk = "open"

\* Once the commands of a recursive delete are built nothing more is collected: it would
\* be listed and reported but never deleted.
NothingCollectedLate == txn.kind = "rec_delete" /\ txn.built => txn.stack = 0

\* A silent helper does not wedge the session: a command on the wire ends, by its reply,
\* by the end of the helper or by the watchdog, unless the user is being asked.
NeverWedged == (command # "none") ~> (command = "none" \/ sec # "idle")

\* An answer that came too late to count does not pause its walk for ever.
StuckWalkReleased == (walk = "stuck") ~> (walk = "none")

\* "The user answered the outstanding prompt: ... send it to the waiting backend": a
\* secret never goes to a helper that does not wait for one.
SecretReachesPrompt == [][ProvideSecret => helper.proc \in {"prompt", "off"}]_vars
=============================================================================
