------------------------ MODULE ControlSessionProofs ------------------------
(***************************************************************************)
(* Invariance proofs for ControlSession.  First the phases, which need     *)
(* nothing of the helper (Inv: a flow owns the wire, walks wait, deletes   *)
(* are complete); then what is on its way between poll() and the helper    *)
(* (Wire) and, with it, the whole session (Session): types, one reply      *)
(* owed, directories and listings.  The second part is about helpers that  *)
(* do not die while they wait for a secret (~StalePrompts).                *)
(***************************************************************************)
EXTENDS ControlSession, SequenceTheorems, TLAPS

\* The records keep their fields.
Shape == DOMAIN txn = DOMAIN NoTxn /\ DOMAIN helper = DOMAIN Off

\* Each alternative of the transaction is in a phase of its own.
PhaseOK ==
  \/ txn.kind = "none" /\ txn.phase = "idle"
  \/ txn.kind = "connection" /\ txn.phase \in Phases.connection
  \/ txn.kind = "navigation" /\ txn.phase \in Phases.navigation
  \/ txn.kind = "refresh" /\ txn.phase \in Phases.refresh
  \/ txn.kind = "mutation" /\ txn.phase \in Phases.mutation
  \/ txn.kind = "rec_download" /\ txn.phase \in Phases.rec_download
  \/ txn.kind = "rec_delete" /\ txn.phase \in Phases.rec_delete
  \/ txn.kind = "rec_upload" /\ txn.phase \in Phases.rec_upload
  \/ txn.kind = "keepalive" /\ txn.phase \in Phases.keepalive

\* A recursive download has a batch, which is open while a directory is listed.
WalkOK ==
  /\ walk \in {"none", "open", "waiting", "stuck", "cancelled"}
  /\ txn.kind = "rec_download" => walk # "none"
  /\ NoListingWhileAsking

\* Once its commands are built a delete has nothing to list, and between two polls
\* its next command is on the wire, unless the link is down.
LateOK ==
  /\ txn.stack \in Nat
  /\ NothingCollectedLate
  /\ In("rec_delete", "listing") => ~txn.built
  /\ In("rec_delete", "collecting") /\ txn.built /\ pc = "ui" => ~Connected

Inv == Shape /\ PhaseOK /\ WireMatchesPhase /\ WalkOK /\ LateOK

\* Initially nothing runs.
LEMMA InitInv == Init => Inv
BY DEF Init, Inv, Shape, PhaseOK, Phases, WireMatchesPhase, Awaited, WalkOK, LateOK,
       NoListingWhileAsking, NothingCollectedLate, In, Txn, NoTxn, Off, Connected

\* A session that waits for nothing, or for the greeting of its helper.
LEMMA FreshFlow ==
  ASSUME Shape', command' = "none",
         walk' \in {"none", "open", "waiting", "stuck", "cancelled"},
         txn' = NoTxn \/ txn' = Txn("connection", "waiting_greeting")
  PROVE  Inv'
BY DEF Inv, Shape, PhaseOK, Phases, WireMatchesPhase, Awaited, WalkOK, LateOK,
       NoListingWhileAsking, NothingCollectedLate, In, Txn, NoTxn

\* A new connection starts a new helper or fails.
LEMMA ConnectInv == ASSUME Inv, Connect PROVE Inv'
<1>1. Shape'
  BY DEF Connect, Launched, Stop, Fresh, Off, Shape, Txn, NoTxn
<1> QED
  BY <1>1, FreshFlow DEF Connect

\* The session ends.
LEMMA DisconnectInv == ASSUME Inv, Disconnect \/ CancelSecret PROVE Inv'
<1>1. Shape' /\ txn' = NoTxn /\ command' = "none"
  BY DEF Disconnect, CancelSecret, Stop, Reset, Shape
<1>2. walk' \in {"none", "open", "waiting", "stuck", "cancelled"}
  BY DEF Disconnect, CancelSecret, Inv, WalkOK
<1> QED
  BY <1>1, <1>2, FreshFlow

\* From here on the invariant is visible, with the definitions it speaks in.
USE DEF Inv, Shape, PhaseOK, Phases, WireMatchesPhase, Awaited, WalkOK, LateOK,
        NoListingWhileAsking, NothingCollectedLate, In, Txn, NoTxn, Off, Connected

\* A recovery starts over from nothing.
LEMMA RecoverInv ==
  ASSUME Shape, NEW tries, BeginRecover(tries), UNCHANGED helper PROVE Inv'
<1>1. /\ txn'.kind = "connection" /\ txn'.phase = "retry_wait" /\ txn'.stack = 0
      /\ DOMAIN txn' = DOMAIN NoTxn
  BY DEF BeginRecover, Reconnecting
<1>2. command' = "none" /\ walk' = "none"
  BY DEF BeginRecover
<1> QED
  BY <1>1, <1>2

\* A failed attempt to reconnect waits for the next one.
LEMMA RetryInv ==
  ASSUME Shape, NEW f, DOMAIN f = DOMAIN NoTxn, f.kind = "connection", f.stack \in Nat,
         txn' = [f EXCEPT !.phase = "retry_wait"], command' = "none",
         walk' \in {"none", "open", "waiting", "stuck", "cancelled"},
         DOMAIN helper' = DOMAIN Off
  PROVE  Inv'
<1>1. /\ txn'.kind = "connection" /\ txn'.phase = "retry_wait" /\ txn'.stack \in Nat
      /\ DOMAIN txn' = DOMAIN NoTxn
  OBVIOUS
<1> QED
  BY <1>1

\* A failed rollback recovers; the other failures stay in the session.
LEMMA FailNavigationInv == ASSUME Inv, FailNavigation PROVE Inv'
<1>1. CASE txn.phase = "changing_directory"
  BY <1>1 DEF FailNavigation, Free, Reset
<1>2. CASE txn.phase = "listing_destination"
  BY <1>2 DEF FailNavigation, Advance, At, Issue, Sent
<1>3. CASE txn.phase = "rolling_back"
  BY <1>3, RecoverInv DEF FailNavigation
<1>4. CASE txn.phase = "waiting_to_list"
  BY <1>4 DEF FailNavigation, Fails
<1> QED
  BY <1>1, <1>2, <1>3, <1>4 DEF FailNavigation

\* A failed keep-alive recovers; a failed operation is followed by a listing.
LEMMA FailOneShotInv == ASSUME Inv, FailOneShot PROVE Inv'
<1>1. CASE In("mutation", "executing")
  BY <1>1 DEF FailOneShot, Advance, At, Issue, Sent
<1>2. CASE txn.kind = "refresh" \/ (txn.kind = "mutation" /\ txn.phase # "executing")
  BY <1>2 DEF FailOneShot, Free, Reset
<1>3. CASE txn.kind = "keepalive"
  BY <1>3, RecoverInv DEF FailOneShot
<1> QED
  BY <1>1, <1>2, <1>3 DEF FailOneShot

\* Directories are added by a listing only, hence before the commands are built.
LEMMA CompleteRecDeleteInv == ASSUME Inv, CompleteRecDelete PROVE Inv'
<1>1. CASE txn.phase = "listing"
  <2>1. ~txn.built
    BY <1>1 DEF CompleteRecDelete
  <2>2. PICK dirs \in 0 .. MaxWork, files \in 0 .. MaxWork :
          txn' = [At("collecting") EXCEPT
                    !.stack = @ + dirs, !.cmds = Counted(txn, dirs + files)]
    BY <1>1 DEF CompleteRecDelete, Advance
  <2>3. /\ txn'.kind = "rec_delete" /\ txn'.phase = "collecting" /\ ~txn'.built
        /\ txn'.stack \in Nat /\ DOMAIN txn' = DOMAIN NoTxn
    <3>1. txn.stack \in Nat /\ txn.stack + dirs \in Nat
      BY ControlAssumption
    <3> QED
      BY <2>1, <2>2, <3>1 DEF CompleteRecDelete, At
  <2>4. command' = "none" /\ UNCHANGED <<helper, walk>>
    BY <1>1 DEF CompleteRecDelete, Advance, Quiet
  <2> QED
    BY <2>3, <2>4
<1>2. CASE txn.phase = "executing"
  <2>1. /\ txn'.kind = "rec_delete" /\ txn'.phase = "collecting"
        /\ txn'.stack = txn.stack /\ txn'.built = txn.built /\ DOMAIN txn' = DOMAIN NoTxn
        /\ txn.kind = "rec_delete"
    BY <1>2 DEF CompleteRecDelete, Advance, At
  <2>2. command' = "none" /\ UNCHANGED <<pc, helper, walk>> /\ pc # "ui"
    BY <1>2 DEF CompleteRecDelete, Completes, Got, Advance, Quiet
  <2> QED
    BY <2>1, <2>2, <1>2
<1>3. CASE txn.phase = "listing_result"
  BY <1>3 DEF CompleteRecDelete, Shown, CommitStagedListing, Reset
<1>4. CASE txn.phase = "collecting"
  BY <1>4 DEF CompleteRecDelete, Completes
<1> QED
  BY <1>1, <1>2, <1>3, <1>4 DEF CompleteRecDelete

\* The end of the helper is met by a recovery, a retry or a failed session.
LEMMA CheckLinkInv == ASSUME Inv, CheckLink PROVE Inv'
<1>1. CASE ~helper.alive /\ stage = "connected"
  BY <1>1, RecoverInv DEF CheckLink, session
<1>2. CASE ~helper.alive /\ HandshakeActive /\ stage # "connected"
  <2>1. CASE txn.reconnect
    BY <1>2, <2>1, RetryInv DEF CheckLink, HandshakeActive, At, session
  <2>2. CASE ~txn.reconnect
    BY <1>2, <2>2, FreshFlow DEF CheckLink, HandshakeActive, Reset, session
  <2> QED
    BY <2>1, <2>2
<1>3. CASE helper.alive \/ (stage # "connected" /\ ~HandshakeActive)
  <2>1. UNCHANGED <<stage, txn, command, walk, helper>> /\ pc' = "tick"
    BY <1>3 DEF CheckLink, session
  <2> QED
    BY <2>1
<1> QED
  BY <1>1, <1>2, <1>3

\* So is a time-out.
LEMMA MaybeWatchdogInv == ASSUME Inv, MaybeWatchdog PROVE Inv'
<1>1. CASE stage = "connected"
  BY <1>1, RecoverInv DEF MaybeWatchdog, session
<1>2. CASE stage # "connected" /\ HandshakeActive
  <2>1. CASE txn.reconnect
    BY <1>2, <2>1, RetryInv DEF MaybeWatchdog, ConnectionFailed, Stop, HandshakeActive,
         At
  <2>2. CASE ~txn.reconnect
    BY <1>2, <2>2, FreshFlow DEF MaybeWatchdog, ConnectionFailed, Stop, Reset
  <2> QED
    BY <2>1, <2>2
<1> QED
  BY <1>1, <1>2 DEF MaybeWatchdog

\* A new attempt, or none left.
LEMMA DriveReconnectInv == ASSUME Inv, DriveReconnect PROVE Inv'
<1> DEFINE again == [txn EXCEPT !.attempts = @ + 1]
<1>1. /\ DOMAIN again = DOMAIN NoTxn /\ again.stack \in Nat
      /\ again.kind = "connection" /\ again.phase = "retry_wait"
  BY DEF DriveReconnect
<1>2. CASE txn.attempts >= MaxTries
  BY <1>2, FreshFlow DEF DriveReconnect, Reset, session
<1>3. CASE /\ Launched /\ txn' = [again EXCEPT !.phase = "waiting_greeting"]
           /\ command' = "none" /\ UNCHANGED walk
  <2>1. /\ txn'.kind = "connection" /\ txn'.phase = "waiting_greeting"
        /\ txn'.stack \in Nat /\ Shape'
    BY <1>1, <1>3 DEF Launched, Fresh
  <2> HIDE DEF again
  <2> QED
    BY <2>1, <1>3
<1>4. CASE Stop /\ txn' = again /\ command' = "none" /\ UNCHANGED walk
  <2>1. /\ txn'.kind = "connection" /\ txn'.phase = "retry_wait"
        /\ txn'.stack \in Nat /\ Shape'
    BY <1>1, <1>4 DEF Stop
  <2> HIDE DEF again
  <2> QED
    BY <2>1, <1>4
<1> QED
  BY <1>2, <1>3, <1>4 DEF DriveReconnect

\* A directory is listed only while the batch is open.
LEMMA DriveRecDownloadInv == ASSUME Inv, DriveRecDownload PROVE Inv'
<1>1. CASE walk # "cancelled" /\ txn.stack > 0
  <2>1. txn'.kind = "rec_download" /\ txn'.phase = "listing" /\ Shape' /\ command' = "rls"
    BY <1>1 DEF DriveRecDownload, Drive, At, Issue, Sent
  <2>2. walk' = "open"
    BY <1>1 DEF DriveRecDownload
  <2>3. txn.stack - 1 \in Nat
    BY <1>1
  <2>4. txn'.stack \in Nat
    BY <1>1, <2>3 DEF DriveRecDownload, Drive, At
  <2> QED
    BY <2>1, <2>2, <2>4
<1>2. CASE ~(walk # "cancelled" /\ txn.stack > 0)
  BY <1>2, FreshFlow DEF DriveRecDownload, Reset, session
<1> QED
  BY <1>1, <1>2

\* Commands are built when no directory is left, and none is listed after that.
LEMMA DriveRecDeleteInv == ASSUME Inv, DriveRecDelete PROVE Inv'
<1>0. txn.kind = "rec_delete" /\ txn'.kind = "rec_delete" /\ Shape' /\ UNCHANGED walk
  BY DEF DriveRecDelete, Drive, At, Issue, Sent
<1>1. CASE txn.stack > 0
  <2>1. txn'.phase = "listing" /\ command' = "rls" /\ txn'.built = txn.built
    BY <1>1 DEF DriveRecDelete, Drive, At, Issue
  <2>2. ~txn.built
    BY <1>0, <1>1
  <2>3. txn.stack - 1 \in Nat
    BY <1>1
  <2>4. txn'.stack \in Nat
    BY <1>1, <2>3 DEF DriveRecDelete, Drive, At
  <2> QED
    BY <1>0, <2>1, <2>2, <2>4
<1>2. CASE ~(txn.stack > 0)
  <2>1. \/ txn'.phase = "executing" /\ command' = "recop"
        \/ txn'.phase = "listing_result" /\ command' = "ls"
    BY <1>2 DEF DriveRecDelete, Drive, At, Issue
  <2>2. txn'.stack = txn.stack
    BY <1>2 DEF DriveRecDelete, Drive, At, Issue
  <2> QED
    BY <1>0, <1>2, <2>1, <2>2
<1> QED
  BY <1>1, <1>2

\* The helper never comes back to life by itself.
LEMMA HelperStepInv ==
  ASSUME Inv, HelperStep, DOMAIN helper' = DOMAIN helper, helper'.alive => helper.alive
  PROVE  Inv'
BY DEF HelperStep, poll

\* What it does is seen through its messages only.
LEMMA HelperInv == ASSUME Inv, Helper PROVE Inv'
<1>1. HelperStep
  BY DEF Helper, HelperGreets, HelperReads, HelperPrompts, HelperHears, HelperLists,
       HelperSucceeds, HelperFails, HelperDies, ReaderEnds
<1>2. DOMAIN helper' = DOMAIN helper /\ (helper'.alive => helper.alive)
  <2>1. CASE HelperGreets \/ HelperReads \/ HelperPrompts \/ HelperHears \/ HelperLists
    BY <2>1 DEF HelperGreets, HelperReads, HelperPrompts, HelperHears, HelperLists
  <2>2. CASE HelperSucceeds \/ HelperFails
    BY <2>2 DEF HelperSucceeds, HelperFails, Terminates
  <2>3. CASE HelperDies \/ ReaderEnds
    BY <2>3 DEF HelperDies, ReaderEnds
  <2> QED
    BY <2>1, <2>2, <2>3 DEF Helper
<1> QED
  BY <1>1, <1>2, HelperStepInv

\* The user acts between two polls.
LEMMA UserInv == ASSUME Inv, User PROVE Inv'
<1>1. CASE Connect
  BY <1>1, ConnectInv
<1>2. CASE Disconnect \/ CancelSecret
  BY <1>2, DisconnectInv
<1>3. CASE BeginMutation
  BY <1>3 DEF BeginMutation, AtUi, Launch, BrowseAvailable, Issue, Sent, prompt
<1>4. CASE RequestRefresh
  BY <1>4 DEF RequestRefresh, AtUi, session
<1>5. CASE DownloadFolder
  BY <1>5 DEF DownloadFolder, AtUi, Collector, Collecting, Collect, EnsureWalkBatch,
       poll, session
<1>6. CASE DeleteFolder
  BY <1>6 DEF DeleteFolder, AtUi, Collector, Collecting, Collect, poll, session
<1>7. CASE DeleteRemoteFile
  BY <1>7 DEF DeleteRemoteFile, AtUi, Collector, Collecting, Collect, poll, session
<1>8. CASE UploadFolder
  BY <1>8 DEF UploadFolder, AtUi, Collector, Collecting, Collect, EnsureWalkBatch, poll,
       session
<1>9. CASE AnswerConflict
  BY <1>9 DEF AnswerConflict, poll, session
<1>10. CASE ProvideSecret
  BY <1>10 DEF ProvideSecret, Sent, poll
<1>11. ASSUME NEW dir \in Dir, BeginNavigation(dir) PROVE Inv'
  BY <1>11 DEF BeginNavigation, AtUi, Launch, BrowseAvailable, Issue, Sent, prompt
<1> QED
  BY <1>1, <1>2, <1>3, <1>4, <1>5, <1>6, <1>7, <1>8, <1>9, <1>10, <1>11 DEF User

\* poll() processes a message.
LEMMA ProcessInv == ASSUME Inv, Process PROVE Inv'
<1>1. CASE ListEntry
  BY <1>1 DEF ListEntry, Got
<1>2. CASE AskPassword
  BY <1>2 DEF AskPassword, Got, Sent
<1>3. CASE Greeting
  BY <1>3 DEF Greeting, Got, SendNextKeyfileOrOpen, Issue, Sent, At
<1>4. CASE SkipTerminal
  BY <1>4 DEF SkipTerminal, Got
<1>5. CASE CompleteConnection
  <2>1. CASE txn.phase = "registering_key"
    BY <1>5, <2>1 DEF CompleteConnection, Completes, Got, SendNextKeyfileOrOpen, Issue,
         Sent, At, Advance, Shown, CommitStagedListing, Reset
  <2>2. CASE txn.phase = "opening"
    BY <1>5, <2>2 DEF CompleteConnection, Completes, Got, SendNextKeyfileOrOpen, Issue,
         Sent, At, Advance, Shown, CommitStagedListing, Reset
  <2>3. CASE txn.phase \in {"discovering_path", "restoring_path"}
    <3>1. /\ txn'.kind = "connection" /\ txn'.phase = "listing"
          /\ txn'.stack = txn.stack /\ DOMAIN txn' = DOMAIN NoTxn
      BY <1>5, <2>3 DEF CompleteConnection, Advance, At
    <3>2. command' = "ls" /\ UNCHANGED walk /\ DOMAIN helper' = DOMAIN helper
      BY <1>5, <2>3 DEF CompleteConnection, Advance, Issue, Sent
    <3> QED
      BY <3>1, <3>2
  <2>4. CASE txn.phase = "listing"
    BY <1>5, <2>4 DEF CompleteConnection, Completes, Got, SendNextKeyfileOrOpen, Issue,
         Sent, At, Advance, Shown, CommitStagedListing, Reset
  <2>5. CASE txn.phase \in {"retry_wait", "waiting_greeting"}
    BY <1>5, <2>5 DEF CompleteConnection, Completes, Got, SendNextKeyfileOrOpen, Issue,
         Sent, At, Advance, Shown, CommitStagedListing, Reset
  <2> QED
    BY <1>5, <2>1, <2>2, <2>3, <2>4, <2>5 DEF CompleteConnection
<1>6. CASE FailConnection
  BY <1>6 DEF FailConnection, Fails, Got, ConnectionFailed, At, Stop, Reset
<1>7. CASE CompleteNavigation
  <2>1. CASE txn.phase = "changing_directory"
    BY <1>7, <2>1 DEF CompleteNavigation, Completes, Got, Advance, At, Issue, Sent,
         Quiet, Shown, CommitStagedListing, Reset, Free
  <2>2. CASE txn.phase = "listing_destination"
    BY <1>7, <2>2 DEF CompleteNavigation, Completes, Got, Advance, At, Issue, Sent,
         Quiet, Shown, CommitStagedListing, Reset, Free
  <2>3. CASE txn.phase = "rolling_back"
    BY <1>7, <2>3 DEF CompleteNavigation, Completes, Got, Advance, At, Issue, Sent,
         Quiet, Shown, CommitStagedListing, Reset, Free
  <2>4. CASE txn.phase = "waiting_to_list"
    BY <1>7, <2>4 DEF CompleteNavigation, Completes, Got, Advance, At, Issue, Sent,
         Quiet, Shown, CommitStagedListing, Reset, Free
  <2> QED
    BY <1>7, <2>1, <2>2, <2>3, <2>4 DEF CompleteNavigation
<1>8. CASE FailNavigation
  BY <1>8, FailNavigationInv
<1>9. CASE CompleteOneShot
  BY <1>9 DEF CompleteOneShot, Completes, Got, Advance, At, Issue, Sent, Shown,
       CommitStagedListing, Reset, Free
<1>10. CASE FailOneShot
  BY <1>10, FailOneShotInv
<1>11. CASE CompleteRecDownload
  BY <1>11 DEF CompleteRecDownload, Completes, Got, At, Quiet
<1>12. CASE FailRecDownload
  BY <1>12 DEF FailRecDownload, Fails, Got, Free, Reset
<1>13. CASE CompleteRecDelete
  BY <1>13, CompleteRecDeleteInv
<1>14. CASE FailRecDelete
  <2>1. CASE txn.phase = "listing"
    BY <1>14, <2>1 DEF FailRecDelete, Fails, Got, At, Quiet, Advance, Free, Reset
  <2>2. CASE txn.phase = "executing"
    BY <1>14, <2>2 DEF FailRecDelete, Fails, Got, At, Quiet, Advance, Free, Reset
  <2>3. CASE txn.phase = "listing_result"
    BY <1>14, <2>3 DEF FailRecDelete, Fails, Got, At, Quiet, Advance, Free, Reset
  <2>4. CASE txn.phase = "collecting"
    BY <1>14, <2>4 DEF FailRecDelete, Fails, Got, At, Quiet, Advance, Free, Reset
  <2> QED
    BY <1>14, <2>1, <2>2, <2>3, <2>4 DEF FailRecDelete
<1>15. CASE CompleteRecUpload
  <2>1. CASE txn.phase = "executing"
    BY <1>15, <2>1 DEF CompleteRecUpload, Completes, Got, At, Quiet, Advance, Shown,
         CommitStagedListing, Reset, AbortRecursiveUpload, Issue, Sent
  <2>2. CASE txn.phase = "probing_mkdir"
    <3>1. /\ txn'.kind = "rec_upload" /\ txn'.stack = txn.stack
          /\ DOMAIN txn' = DOMAIN NoTxn /\ DOMAIN helper' = DOMAIN helper
      BY <1>15, <2>2 DEF CompleteRecUpload, Advance, At, Quiet, AbortRecursiveUpload,
           Issue, Sent
    <3>2. \/ txn'.phase = "collecting" /\ command' = "none"
          \/ txn'.phase = "listing_after_abort" /\ command' = "ls"
      BY <1>15, <2>2 DEF CompleteRecUpload, Advance, At, Quiet, AbortRecursiveUpload,
           Issue
    <3>3. UNCHANGED walk
      BY <1>15, <2>2 DEF CompleteRecUpload, Advance, AbortRecursiveUpload
    <3> QED
      BY <3>1, <3>2, <3>3
  <2>3. CASE txn.phase = "listing_after_abort"
    BY <1>15, <2>3 DEF CompleteRecUpload, Completes, Got, At, Quiet, Advance, Shown,
         CommitStagedListing, Reset, AbortRecursiveUpload, Issue, Sent
  <2>4. CASE txn.phase = "listing_result"
    BY <1>15, <2>4 DEF CompleteRecUpload, Completes, Got, At, Quiet, Advance, Shown,
         CommitStagedListing, Reset, AbortRecursiveUpload, Issue, Sent
  <2>5. CASE txn.phase = "collecting"
    BY <1>15, <2>5 DEF CompleteRecUpload, Completes, Got, At, Quiet, Advance, Shown,
         CommitStagedListing, Reset, AbortRecursiveUpload, Issue, Sent
  <2> QED
    BY <1>15, <2>1, <2>2, <2>3, <2>4, <2>5 DEF CompleteRecUpload
<1>16. CASE FailRecUpload
  <2>1. CASE txn.phase = "executing"
    BY <1>16, <2>1 DEF FailRecUpload, Fails, Got, At, Advance, Free, Reset,
         AbortRecursiveUpload, Issue, Sent
  <2>2. CASE txn.phase = "probing_mkdir"
    BY <1>16, <2>2 DEF FailRecUpload, Fails, Got, At, Advance, Free, Reset,
         AbortRecursiveUpload, Issue, Sent
  <2>3. CASE txn.phase = "listing_after_abort"
    BY <1>16, <2>3 DEF FailRecUpload, Fails, Got, At, Advance, Free, Reset,
         AbortRecursiveUpload, Issue, Sent
  <2>4. CASE txn.phase = "listing_result"
    BY <1>16, <2>4 DEF FailRecUpload, Fails, Got, At, Advance, Free, Reset,
         AbortRecursiveUpload, Issue, Sent
  <2>5. CASE txn.phase = "collecting"
    BY <1>16, <2>5 DEF FailRecUpload, Fails, Got, At, Advance, Free, Reset,
         AbortRecursiveUpload, Issue, Sent
  <2> QED
    BY <1>16, <2>1, <2>2, <2>3, <2>4, <2>5 DEF FailRecUpload
<1> QED
  BY <1>1, <1>2, <1>3, <1>4, <1>5, <1>6, <1>7, <1>8, <1>9, <1>10, <1>11, <1>12, <1>13,
     <1>14, <1>15, <1>16 DEF Process

\* poll() drives what is due.
LEMMA TicksInv == ASSUME Inv, Ticks PROVE Inv'
<1>1. CASE DriveReconnect
  BY <1>1, DriveReconnectInv
<1>2. CASE MaybeWatchdog
  BY <1>2, MaybeWatchdogInv
<1>3. CASE MaybeKeepalive
  BY <1>3 DEF MaybeKeepalive, Tick, Launch, BrowseAvailable, Issue, Sent
<1>4. CASE BeginRefresh
  BY <1>4 DEF BeginRefresh, Tick, Launch, BrowseAvailable, Issue, Sent, session
<1>5. CASE StartNavigationListing
  BY <1>5 DEF StartNavigationListing, Tick, At, Issue, Sent
<1>6. CASE DriveRecDownload
  BY <1>6, DriveRecDownloadInv
<1>7. CASE DriveRecDelete
  BY <1>7, DriveRecDeleteInv
<1>8. CASE DriveRecUpload
  BY <1>8 DEF DriveRecUpload, WireIdle, Tick, Drive, At, Issue, Sent, session
<1>9. CASE Rest
  BY <1>9 DEF Rest, Tick, Due, session
<1> QED
  BY <1>1, <1>2, <1>3, <1>4, <1>5, <1>6, <1>7, <1>8, <1>9 DEF Ticks

\* Every step keeps the invariant.
LEMMA NextInv == ASSUME Inv, [Next]_vars PROVE Inv'
<1>1. CASE Poll
  BY <1>1 DEF Poll, session
<1>2. CASE UNCHANGED vars
  BY <1>2 DEF vars, poll, session
<1> QED
  BY <1>1, <1>2, UserInv, ProcessInv, CheckLinkInv, TicksInv, HelperInv DEF Next

HIDE DEF Inv, Shape, PhaseOK, Phases, WireMatchesPhase, Awaited, WalkOK, LateOK,
         NoListingWhileAsking, NothingCollectedLate, In, Txn, NoTxn, Off, Connected

\* The phases and the wire agree, walks and deletes are as the invariant says.
THEOREM Invariance == Spec => []Inv
BY InitInv, NextInv, PTL DEF Spec

\* No completion finds another flow's phase and no flow waits for a command it never
\* sent, whatever the helper answers and whenever it ends (complete_flow, fail_flow).
THEOREM FlowsOwnTheWire == Spec => []WireMatchesPhase
<1>1. Inv => WireMatchesPhase
  BY DEF Inv
<1> QED
  BY <1>1, Invariance, PTL

\* drive_recop lists no directory while the question of its batch is open or was dropped.
THEOREM WalksWait == Spec => []NoListingWhileAsking
<1>1. Inv => NoListingWhileAsking
  BY DEF Inv, WalkOK
<1> QED
  BY <1>1, Invariance, PTL

\* A recursive delete lists nothing that it will not delete (ensure_collecting).
THEOREM DeletesAreComplete == Spec => []NothingCollectedLate
<1>1. Inv => NothingCollectedLate
  BY DEF Inv, LateOK
<1> QED
  BY <1>1, Invariance, PTL

-----------------------------------------------------------------------------
(* The wire.  What is on its way between poll() and the helper is said of  *)
(* constants: c is the reply the session waits for, arg the directory a    *)
(* `cd' names, dirs where the helper may be; h is the helper, q its        *)
(* messages, s the latch of its prompts.                                   *)

EntryOf(c, dirs, m) ==
  /\ m.type = "entry"
  /\ \/ c = "ls" /\ m.dir \in dirs
     \/ c = "rls" /\ m.dir \in Dir

Still(h, s)        == h.stdin = <<>> /\ s = "idle"
Names(c, arg, l)   == /\ l.name = c
                      /\ c \in {"cd", "cd_rollback"} => l.dir = arg
                      /\ c = "rls" => l.dir \in Dir
After(c, ok, arg, dirs) ==
  IF ok /\ c \in {"cd", "cd_rollback"} THEN {arg}
  ELSE IF ok /\ c = "open" THEN {Home} ELSE dirs

\* The helper is gone, with the reply.
Dead(c, dirs, h, q, s) ==
  h.proc = "off" /\ Still(h, s) /\ \A i \in 1 .. Len(q) : EntryOf(c, dirs, q[i])

\* Nothing is asked of it.
Idle(c, dirs, h, q, s) ==
  c = "none" /\ h.proc = "ready" /\ Still(h, s) /\ q = <<>> /\ h.cwd \in dirs

\* It starts.
Starts(c, dirs, h, q, s) ==
  c = "greeting" /\ h.proc = "greet" /\ Still(h, s) /\ q = <<>> /\ h.cwd \in dirs

\* The command is in the pipe.
Unread(c, arg, dirs, h, q, s) ==
  /\ c \in Commands /\ h.proc = "ready" /\ s = "idle" /\ q = <<>> /\ h.cwd \in dirs
  /\ Len(h.stdin) = 1 /\ Names(c, arg, h.stdin[1])

\* The helper is at it.
Works(c, arg, dirs, h, q, s) ==
  /\ c \in Commands /\ h.proc = "exec" /\ Still(h, s) /\ h.cwd \in dirs
  /\ Names(c, arg, h.cmd)
  /\ \A i \in 1 .. Len(q) : EntryOf(c, dirs, q[i])

\* It has asked for a secret: the question is unread, is being answered, or is answered.
Asks(c, dirs, h, q, s) ==
  /\ c = "open" /\ h.proc = "prompt" /\ h.cmd.name = "open" /\ h.cwd \in dirs
  /\ \/ Still(h, s) /\ Len(q) = 1 /\ q[1].type = "ask"
     \/ h.stdin = <<>> /\ s \in {"pending", "shown"} /\ q = <<>>
     \/ h.stdin = <<Secret>> /\ s = "idle" /\ q = <<>>

\* A reply to c.
ReplyTo(c, arg, dirs, h, m) ==
  /\ Terminal(m) /\ m.of = c
  /\ m.type = "reply" => m.ok
  /\ c = "greeting" => m.type = "reply"
  /\ c = "pwd" => m.ok /\ m.dir \in dirs
  /\ h.proc # "off" => h.cwd \in After(c, m.ok, arg, dirs) /\ (c = "pwd" => m.dir = h.cwd)

\* The reply is behind the entries of its listing.
Replied(c, arg, dirs, h, q, s) ==
  /\ c \in Commands \cup {"greeting"} /\ h.proc \in {"off", "ready"} /\ Still(h, s)
  /\ Len(q) > 0 /\ ReplyTo(c, arg, dirs, h, q[Len(q)])
  /\ \A i \in 1 .. Len(q) - 1 : EntryOf(c, dirs, q[i])

Wire(c, arg, dirs, h, q, s) ==
  \/ Dead(c, dirs, h, q, s) \/ Idle(c, dirs, h, q, s) \/ Starts(c, dirs, h, q, s)
  \/ Unread(c, arg, dirs, h, q, s) \/ Works(c, arg, dirs, h, q, s)
  \/ Asks(c, dirs, h, q, s) \/ Replied(c, arg, dirs, h, q, s)

\* A helper nobody waits for has no question.
Abandoned(h, q, s) ==
  /\ s = "idle" /\ h.proc \notin {"greet", "prompt"}
  /\ h.proc = "exec" => h.cmd.name # "open"
  /\ \A i \in 1 .. Len(h.stdin) : h.stdin[i].name \notin {"open", "secret"}
  /\ \A i \in 1 .. Len(q) : q[i].type # "ask"

Written(h, line) ==
  IF h.proc = "off" THEN h ELSE [h EXCEPT !.stdin = Append(@, line)]

\* What is left when the first message is read.
LEMMA TailOf ==
  ASSUME NEW S, NEW q \in Seq(S), Len(q) > 0
  PROVE  /\ Tail(q) \in Seq(S) /\ Len(Tail(q)) = Len(q) - 1 /\ Head(q) = q[1] /\ Head(q) \in S
         /\ \A i \in 1 .. Len(q) - 1 : Tail(q)[i] = q[i + 1]
OBVIOUS

\* Nothing is left of one.
LEMMA OneMessage ==
  ASSUME NEW S, NEW q \in Seq(S), Len(q) = 1
  PROVE  Tail(q) = <<>>
<1>1. Tail(q) \in Seq(S) /\ Len(Tail(q)) = 0
  OBVIOUS
<1> QED
  BY <1>1, EmptySeq

\* The reply a session reads is the one it waits for, and then the wire is free.
LEMMA ReadReply ==
  ASSUME NEW c, NEW arg, NEW dirs, NEW h \in HelperType, NEW q \in Seq(MessageType), NEW s,
         Len(q) > 0, Terminal(Head(q)), Wire(c, arg, dirs, h, q, s), NEW arg2
  PROVE  /\ c \in Commands \cup {"greeting"} /\ ReplyTo(c, arg, dirs, h, Head(q))
         /\ Tail(q) = <<>>
         /\ Wire("none", arg2, After(c, Head(q).ok, arg, dirs), h, Tail(q), s)
         /\ c = "pwd" => Wire("none", arg2, {Head(q).dir}, h, Tail(q), s)
<1>1. Head(q).type \in {"reply", "done"} /\ Head(q) = q[1]
  BY DEF Terminal
<1>2. ~Dead(c, dirs, h, q, s) /\ ~Works(c, arg, dirs, h, q, s)
  BY <1>1 DEF Dead, Works, EntryOf
<1>3. ~Idle(c, dirs, h, q, s) /\ ~Starts(c, dirs, h, q, s) /\ ~Unread(c, arg, dirs, h, q, s)
  BY DEF Idle, Starts, Unread
<1>4. ~Asks(c, dirs, h, q, s)
  BY <1>1 DEF Asks
<1>5. Replied(c, arg, dirs, h, q, s)
  BY <1>2, <1>3, <1>4 DEF Wire
<1>6. Len(q) = 1
  <2> SUFFICES ASSUME Len(q) # 1 PROVE FALSE
    OBVIOUS
  <2>1. PICK n \in Nat : n = Len(q)
    OBVIOUS
  <2>2. n > 0 /\ n # 1
    BY <2>1
  <2>3. 1 \in 1 .. n - 1
    BY <2>2
  <2> QED
    BY <1>1, <1>5, <2>1, <2>3 DEF Replied, EntryOf
<1>7. Tail(q) = <<>>
  BY <1>6, OneMessage
<1>8. /\ c \in Commands \cup {"greeting"} /\ h.proc \in {"off", "ready"} /\ Still(h, s)
      /\ ReplyTo(c, arg, dirs, h, Head(q))
  BY <1>1, <1>5, <1>6 DEF Replied
<1>9. ASSUME NEW to, h.proc # "off" => h.cwd \in to
      PROVE  Wire("none", arg2, to, h, Tail(q), s)
  <2>1. Len(Tail(q)) = 0
    BY <1>7, EmptySeq
  <2>2. CASE h.proc = "off"
    BY <1>8, <2>1, <2>2 DEF Wire, Dead
  <2>3. CASE h.proc = "ready"
    BY <1>7, <1>8, <1>9, <2>3 DEF Wire, Idle
  <2> QED
    BY <1>8, <2>2, <2>3
<1> QED
  BY <1>7, <1>8, <1>9 DEF ReplyTo

\* Entries come from a listing, of the directory the helper is in where it names none.
LEMMA ReadEntry ==
  ASSUME NEW c, NEW arg, NEW dirs, NEW h \in HelperType, NEW q \in Seq(MessageType), NEW s,
         Len(q) > 0, Head(q).type = "entry", Wire(c, arg, dirs, h, q, s)
  PROVE  /\ EntryOf(c, dirs, Head(q))
         /\ Wire(c, arg, dirs, h, Tail(q), s)
<1>1. /\ Head(q) = q[1] /\ Len(Tail(q)) = Len(q) - 1 /\ Tail(q) \in Seq(MessageType)
      /\ \A i \in 1 .. Len(q) - 1 : Tail(q)[i] = q[i + 1]
  BY TailOf
<1>2. Len(q) \in Nat \ {0}
  OBVIOUS
<1>3. ASSUME \A i \in 1 .. Len(q) : EntryOf(c, dirs, q[i])
      PROVE  /\ EntryOf(c, dirs, Head(q))
             /\ \A i \in 1 .. Len(Tail(q)) : EntryOf(c, dirs, Tail(q)[i])
  BY <1>1, <1>2, <1>3 DEF EntryOf
<1>4. CASE Dead(c, dirs, h, q, s)
  BY <1>3, <1>4 DEF Dead, Wire
<1>5. CASE Works(c, arg, dirs, h, q, s)
  BY <1>3, <1>5 DEF Works, Wire
<1>6. CASE Replied(c, arg, dirs, h, q, s)
  <2>1. Len(q) # 1
    BY <1>1, <1>6 DEF Replied, ReplyTo, Terminal
  <2>2. EntryOf(c, dirs, q[1]) /\ Len(Tail(q)) > 0
    BY <1>1, <1>2, <1>6, <2>1 DEF Replied
  <2>3. Tail(q)[Len(Tail(q))] = q[Len(q)]
    BY <1>1, <1>2, <2>1
  <2>4. \A i \in 1 .. Len(Tail(q)) - 1 : EntryOf(c, dirs, Tail(q)[i])
    <3> SUFFICES ASSUME NEW i \in 1 .. Len(Tail(q)) - 1 PROVE EntryOf(c, dirs, Tail(q)[i])
      OBVIOUS
    <3>1. i \in 1 .. Len(q) - 1 /\ i + 1 \in 1 .. Len(q) - 1
      BY <1>1, <1>2
    <3> QED
      BY <1>1, <1>6, <3>1 DEF Replied
  <2>5. Replied(c, arg, dirs, h, Tail(q), s)
    BY <1>6, <2>2, <2>3, <2>4 DEF Replied
  <2> QED
    BY <1>1, <2>2, <2>5 DEF Wire, EntryOf
<1>7. CASE Asks(c, dirs, h, q, s)
  BY <1>1, <1>7 DEF Asks
<1>8. CASE \/ Idle(c, dirs, h, q, s) \/ Starts(c, dirs, h, q, s)
           \/ Unread(c, arg, dirs, h, q, s)
  BY <1>8 DEF Idle, Starts, Unread
<1> QED
  BY <1>4, <1>5, <1>6, <1>7, <1>8 DEF Wire

\* A question is answered from the cache or waits for its dialog.
LEMMA ReadAsk ==
  ASSUME NEW c, NEW arg, NEW dirs, NEW h \in HelperType, NEW q \in Seq(MessageType), NEW s,
         Len(q) > 0, Head(q).type = "ask", Wire(c, arg, dirs, h, q, s)
  PROVE  /\ s = "idle"
         /\ Wire(c, arg, dirs, h, Tail(q), "pending")
         /\ Wire(c, arg, dirs, Written(h, Secret), Tail(q), s)
<1>1. Head(q) = q[1] /\ Len(q) \in Nat
  OBVIOUS
<1>2. Asks(c, dirs, h, q, s)
  BY <1>1 DEF Wire, Dead, Idle, Starts, Unread, Works, Replied, EntryOf, ReplyTo, Terminal
<1>3. Still(h, s) /\ Len(q) = 1
  BY <1>2 DEF Asks
<1>4. Tail(q) = <<>>
  BY <1>3, OneMessage
<1>5. Asks(c, dirs, h, Tail(q), "pending")
  BY <1>2, <1>3, <1>4 DEF Asks, Still
<1>6. Asks(c, dirs, Written(h, Secret), Tail(q), s)
  <2>1. /\ Written(h, Secret).proc = h.proc /\ Written(h, Secret).cmd = h.cmd
        /\ Written(h, Secret).cwd = h.cwd /\ Written(h, Secret).stdin = <<Secret>>
    BY <1>2, <1>3 DEF Asks, Still, Written, HelperType
  <2> QED
    BY <1>2, <1>3, <1>4, <2>1 DEF Asks, Still
<1> QED
  BY <1>3, <1>5, <1>6 DEF Wire, Still

\* A secret is sent to a helper that waits for it.
LEMMA SendSecret ==
  ASSUME NEW c, NEW arg, NEW dirs, NEW h \in HelperType, NEW q, NEW s, s # "idle",
         Wire(c, arg, dirs, h, q, s)
  PROVE  Wire(c, arg, dirs, Written(h, Secret), q, "idle")
<1>1. Asks(c, dirs, h, q, s) /\ h.stdin = <<>> /\ q = <<>>
  BY DEF Wire, Dead, Idle, Starts, Unread, Works, Asks, Replied, Still
<1>2. /\ Written(h, Secret).proc = h.proc /\ Written(h, Secret).cmd = h.cmd
      /\ Written(h, Secret).cwd = h.cwd /\ Written(h, Secret).stdin = <<Secret>>
  BY <1>1 DEF Asks, Written, HelperType
<1> QED
  BY <1>1, <1>2 DEF Wire, Asks

\* The dialog comes up.
LEMMA ShowPrompt ==
  ASSUME NEW c, NEW arg, NEW dirs, NEW h, NEW q, Wire(c, arg, dirs, h, q, "pending")
  PROVE  h.proc = "prompt" /\ Wire(c, arg, dirs, h, q, "shown")
BY DEF Wire, Dead, Idle, Starts, Unread, Works, Asks, Replied, Still

\* A free wire takes one command.
LEMMA SendCommand ==
  ASSUME NEW arg, NEW dirs, NEW h \in HelperType, NEW q \in Seq(MessageType), NEW s,
         Wire("none", arg, dirs, h, q, s),
         NEW c \in Commands, NEW dir, NEW arg2, NEW dirs2, dirs \subseteq dirs2,
         c \in {"cd", "cd_rollback"} => dir = arg2, c = "rls" => dir \in Dir
  PROVE  Wire(c, arg2, dirs2, Written(h, Line(c, dir)), q, s)
<1>1. \/ Dead("none", dirs, h, q, s) \/ Idle("none", dirs, h, q, s)
  BY DEF Wire, Starts, Unread, Works, Asks, Replied, Commands
<1>2. CASE Dead("none", dirs, h, q, s)
  <2>1. Len(q) = 0 /\ Written(h, Line(c, dir)) = h
    <3>1. Len(q) \in Nat /\ (1 \in 1 .. Len(q) => FALSE)
      BY <1>2 DEF Dead, EntryOf
    <3> QED
      BY <1>2, <3>1 DEF Dead, Written
  <2> QED
    BY <1>2, <2>1 DEF Wire, Dead
<1>3. CASE Idle("none", dirs, h, q, s)
  <2>1. /\ Written(h, Line(c, dir)).proc = h.proc /\ Written(h, Line(c, dir)).cwd = h.cwd
        /\ Written(h, Line(c, dir)).stdin = <<Line(c, dir)>>
    BY <1>3 DEF Idle, Still, Written, HelperType
  <2>2. Names(c, arg2, Line(c, dir))
    BY DEF Names, Line
  <2>3. /\ Len(Written(h, Line(c, dir)).stdin) = 1
        /\ Written(h, Line(c, dir)).stdin[1] = Line(c, dir)
    BY <2>1
  <2>4. Unread(c, arg2, dirs2, Written(h, Line(c, dir)), q, s)
    BY <1>3, <2>1, <2>2, <2>3 DEF Idle, Still, Unread
  <2> QED
    BY <2>4 DEF Wire
<1> QED
  BY <1>1, <1>2, <1>3

\* A free wire stays free.
LEMMA StayFree ==
  ASSUME NEW arg, NEW dirs, NEW h, NEW q \in Seq(MessageType), NEW s,
         Wire("none", arg, dirs, h, q, s), NEW arg2, NEW dirs2, dirs \subseteq dirs2
  PROVE  Wire("none", arg2, dirs2, h, q, s)
BY DEF Wire, Dead, Idle, Starts, Unread, Works, Asks, Replied, Commands, EntryOf

\* A recovery never leaves a helper behind that asks.
LEMMA Abandon ==
  ASSUME NEW c, NEW arg, NEW dirs, NEW h \in HelperType, NEW q \in Seq(MessageType), NEW s,
         Wire(c, arg, dirs, h, q, s), h.proc = "off" \/ c \notin {"greeting", "open"}
  PROVE  Abandoned(h, q, s)
<1>1. CASE Dead(c, dirs, h, q, s)
  BY <1>1 DEF Dead, Abandoned, Still, EntryOf
<1>2. CASE Idle(c, dirs, h, q, s)
  BY <1>2 DEF Idle, Abandoned, Still
<1>3. CASE Unread(c, arg, dirs, h, q, s)
  BY <1>3 DEF Unread, Abandoned, Names, Commands
<1>4. CASE Works(c, arg, dirs, h, q, s)
  BY <1>4 DEF Works, Abandoned, Still, Names, EntryOf
<1>5. CASE Replied(c, arg, dirs, h, q, s)
  <2>1. \A i \in 1 .. Len(q) : i = Len(q) \/ i \in 1 .. Len(q) - 1
    OBVIOUS
  <2>2. \A i \in 1 .. Len(q) : q[i].type # "ask"
    BY <1>5, <2>1 DEF Replied, ReplyTo, Terminal, EntryOf
  <2> QED
    BY <1>5, <2>2 DEF Replied, Abandoned, Still
<1>6. CASE Asks(c, dirs, h, q, s) \/ Starts(c, dirs, h, q, s)
  BY <1>6 DEF Asks, Starts
<1> QED
  BY <1>1, <1>2, <1>3, <1>4, <1>5, <1>6 DEF Wire

\* Nothing is asked by what is left of it either.
LEMMA AbandonTail ==
  ASSUME NEW h, NEW q \in Seq(MessageType), NEW s, Len(q) > 0, Abandoned(h, q, s)
  PROVE  Head(q).type # "ask" /\ Abandoned(h, Tail(q), s)
<1>1. Head(q) = q[1] /\ Len(Tail(q)) = Len(q) - 1 /\ Len(q) \in Nat
  OBVIOUS
<1>2. \A i \in 1 .. Len(q) - 1 : Tail(q)[i] = q[i + 1] /\ i + 1 \in 1 .. Len(q)
  OBVIOUS
<1> QED
  BY <1>1, <1>2 DEF Abandoned

\* The end of the pipe the helper has.
LEMMA Appended ==
  ASSUME NEW S, NEW q \in Seq(S), NEW m \in S
  PROVE  /\ Append(q, m) \in Seq(S) /\ Len(Append(q, m)) = Len(q) + 1
         /\ Append(q, m)[Len(q) + 1] = m
         /\ \A i \in 1 .. Len(q) : Append(q, m)[i] = q[i]
OBVIOUS

\* What the helper does about the command of a session.
LEMMA HelperWire ==
  ASSUME TypeOK, ~StalePrompts, Helper, NEW c, NEW arg, NEW dirs,
         Wire(c, arg, dirs, helper, inbox, sec)
  PROVE  Wire(c, arg, dirs, helper', inbox', sec')
<1>0. helper \in HelperType /\ inbox \in Seq(MessageType) /\ Len(inbox) \in Nat
  BY DEF TypeOK
<1>1. CASE HelperGreets
  <2>1. Starts(c, dirs, helper, inbox, sec)
    BY <1>1 DEF HelperGreets, Wire, Dead, Idle, Unread, Works, Asks, Replied
  <2>2. /\ helper'.proc = "ready" /\ helper'.stdin = helper.stdin /\ helper'.cwd = helper.cwd
        /\ inbox' = Append(inbox, Message("reply", "greeting", TRUE, NoDir)) /\ sec' = sec
    BY <1>0, <1>1 DEF HelperGreets, Emit, HelperStep, prompt, HelperType
  <2>3. Len(inbox') = 1 /\ inbox'[1] = Message("reply", "greeting", TRUE, NoDir)
    BY <2>1, <2>2 DEF Starts
  <2>4. ReplyTo(c, arg, dirs, helper', inbox'[1])
    BY <2>1, <2>2, <2>3 DEF Starts, ReplyTo, Terminal, Message, After
  <2>5. (\A i \in 1 .. Len(inbox') - 1 : FALSE) /\ Len(inbox') > 0
    BY <2>3
  <2>6. Replied(c, arg, dirs, helper', inbox', sec')
    BY <2>1, <2>2, <2>3, <2>4, <2>5, Zenon DEF Starts, Replied, Still
  <2> QED
    BY <2>6 DEF Wire
<1>2. CASE HelperReads
  <2>1. Unread(c, arg, dirs, helper, inbox, sec)
    BY <1>0, <1>2 DEF HelperReads, Wire, Dead, Idle, Starts, Works, Asks, Replied, Still
  <2>2. Head(helper.stdin) = helper.stdin[1] /\ Head(helper.stdin) # Secret
    BY <1>0, <2>1 DEF Unread, Names, Commands, Secret, Line, HelperType
  <2>3. /\ helper'.proc = "exec" /\ helper'.stdin = Tail(helper.stdin)
        /\ helper'.cwd = helper.cwd /\ helper'.cmd = helper.stdin[1]
        /\ inbox' = inbox /\ sec' = sec
    BY <1>0, <1>2, <2>2 DEF HelperReads, HelperStep, prompt, HelperType
  <2>4. helper'.stdin = <<>>
    <3>1. helper.stdin \in Seq(LineType)
      BY <1>0 DEF HelperType
    <3> QED
      BY <2>1, <2>3, <3>1, OneMessage DEF Unread
  <2>5. \A i \in 1 .. Len(inbox') : FALSE
    BY <2>1, <2>3 DEF Unread
  <2>6. Works(c, arg, dirs, helper', inbox', sec')
    BY <2>1, <2>3, <2>4, <2>5 DEF Unread, Works, Still
  <2> QED
    BY <2>6 DEF Wire
<1>3. CASE HelperPrompts
  <2>1. Works(c, arg, dirs, helper, inbox, sec)
    BY <1>3 DEF HelperPrompts, Wire, Dead, Idle, Starts, Unread, Asks, Replied
  <2>2. c = "open" /\ ~(1 \in 1 .. Len(inbox))
    BY <1>3, <2>1 DEF HelperPrompts, Works, Names, EntryOf
  <2>3. Len(inbox) = 0
    BY <1>0, <2>2
  <2>4. /\ helper'.proc = "prompt" /\ helper'.stdin = helper.stdin
        /\ helper'.cwd = helper.cwd /\ helper'.cmd = helper.cmd
        /\ inbox' = Append(inbox, Message("ask", "open", TRUE, NoDir)) /\ sec' = sec
    BY <1>0, <1>3 DEF HelperPrompts, Emit, HelperStep, prompt, HelperType
  <2>5. Len(inbox') = 1 /\ inbox'[1].type = "ask"
    BY <1>0, <2>3, <2>4 DEF Message
  <2>6. Asks(c, dirs, helper', inbox', sec')
    BY <1>3, <2>1, <2>2, <2>4, <2>5 DEF HelperPrompts, Works, Asks, Still
  <2> QED
    BY <2>6 DEF Wire
<1>4. CASE HelperHears
  <2>1. Asks(c, dirs, helper, inbox, sec)
    BY <1>4 DEF HelperHears, Wire, Dead, Idle, Starts, Unread, Works, Replied
  <2>2. helper.stdin = <<Secret>> /\ sec = "idle" /\ inbox = <<>>
    BY <1>4, <2>1 DEF HelperHears, Asks, Still
  <2>3. /\ helper'.proc = "exec" /\ helper'.stdin = <<>>
        /\ helper'.cwd = helper.cwd /\ helper'.cmd = helper.cmd
        /\ inbox' = inbox /\ sec' = sec
    BY <1>0, <1>4, <2>2 DEF HelperHears, HelperStep, prompt, HelperType
  <2>4. Len(inbox') = 0
    BY <2>2, <2>3
  <2>5. Works(c, arg, dirs, helper', inbox', sec')
    BY <2>1, <2>2, <2>3, <2>4 DEF Asks, Works, Still, Names, Commands
  <2> QED
    BY <2>5 DEF Wire
<1>5. CASE HelperLists
  <2>1. Works(c, arg, dirs, helper, inbox, sec)
    BY <1>5 DEF HelperLists, Wire, Dead, Idle, Starts, Unread, Asks, Replied
  <2>2. PICK m : m = Message("entry", helper.cmd.name, TRUE, Listed)
    OBVIOUS
  <2>3. EntryOf(c, dirs, m)
    <3>1. /\ helper.cmd.name = c /\ c \in {"ls", "rls"} /\ helper.cwd \in dirs
          /\ c = "rls" => helper.cmd.dir \in Dir
      BY <1>5, <2>1 DEF HelperLists, Works, Names
    <3>2. m.type = "entry" /\ m.dir = IF c = "ls" THEN helper.cwd ELSE helper.cmd.dir
      BY <2>2, <3>1 DEF Message, Listed
    <3> QED
      BY <3>1, <3>2 DEF EntryOf
  <2>4. /\ helper'.proc = "exec" /\ helper'.stdin = helper.stdin
        /\ helper'.cwd = helper.cwd /\ helper'.cmd = helper.cmd
        /\ inbox' = Append(inbox, m) /\ sec' = sec
    BY <1>0, <1>5, <2>2 DEF HelperLists, Emit, HelperStep, prompt, HelperType
  <2>5. \A i \in 1 .. Len(inbox') : EntryOf(c, dirs, inbox'[i])
    BY <1>0, <2>1, <2>3, <2>4 DEF Works
  <2>6. Works(c, arg, dirs, helper', inbox', sec')
    BY <2>1, <2>4, <2>5 DEF Works, Still
  <2> QED
    BY <2>6 DEF Wire
<1>6. CASE HelperSucceeds \/ HelperFails
  <2>1. Works(c, arg, dirs, helper, inbox, sec)
    BY <1>6 DEF HelperSucceeds, HelperFails, Wire, Dead, Idle, Starts, Unread, Asks, Replied
  <2>2. PICK m :
          /\ Terminates(m) /\ m.type \in {"reply", "done"} /\ m.of = helper.cmd.name
          /\ m.ok \in BOOLEAN /\ (m.type = "reply" => m.ok)
          /\ helper.cmd.name = "pwd" => m.ok /\ m.dir = helper.cwd
    <3>1. CASE HelperSucceeds
      <4> DEFINE m == Message(IF helper.cmd.name \in {"open", "keyfile", "ls", "rls"}
                              THEN "done" ELSE "reply", helper.cmd.name, TRUE, helper.cwd)
      <4>1. Terminates(m) /\ m.type \in {"reply", "done"} /\ m.of = helper.cmd.name
        BY <3>1 DEF HelperSucceeds, Message
      <4>2. m.ok /\ m.dir = helper.cwd
        BY DEF Message
      <4> HIDE DEF m
      <4> QED
        BY <4>1, <4>2
    <3>2. CASE HelperFails
      <4> DEFINE m == Message("done", helper.cmd.name, FALSE, NoDir)
      <4>1. Terminates(m) /\ m.type = "done" /\ m.of = helper.cmd.name /\ ~m.ok
        BY <3>2 DEF HelperFails, Message
      <4>2. helper.cmd.name # "pwd" /\ m.ok \in BOOLEAN
        BY <3>2 DEF HelperFails, Message
      <4> HIDE DEF m
      <4> QED
        BY <4>1, <4>2
    <3> QED
      BY <1>6, <3>1, <3>2
  <2>3. /\ helper'.proc = "ready" /\ helper'.stdin = helper.stdin /\ sec' = sec
        /\ inbox' = Append(inbox, m)
        /\ helper'.cwd = IF ~m.ok THEN helper.cwd
                         ELSE IF c \in {"cd", "cd_rollback"} THEN arg
                         ELSE IF c = "open" THEN Home ELSE helper.cwd
    <3>1. sec' = sec
      BY <1>6 DEF HelperSucceeds, HelperFails, HelperStep, prompt
    <3> QED
      BY <1>0, <2>1, <2>2, <3>1 DEF Terminates, Emit, HelperType, Works, Names
  <2>4. helper.cmd.name = c /\ helper.cwd \in dirs
    BY <2>1 DEF Works, Names
  <2>5. helper'.cwd \in After(c, m.ok, arg, dirs)
    BY <2>2, <2>3, <2>4 DEF After
  <2>6. ReplyTo(c, arg, dirs, helper', m)
    BY <2>1, <2>2, <2>3, <2>4, <2>5 DEF ReplyTo, Terminal, Works, Commands
  <2>7. /\ Len(inbox') = Len(inbox) + 1 /\ inbox'[Len(inbox) + 1] = m
        /\ \A i \in 1 .. Len(inbox) : inbox'[i] = inbox[i]
    BY <1>0, <2>3
  <2>8. Replied(c, arg, dirs, helper', inbox', sec')
    BY <1>0, <2>1, <2>3, <2>6, <2>7 DEF Replied, Works, Still
  <2> QED
    BY <2>8 DEF Wire
<1>7. CASE HelperDies
  <2>1. /\ helper.proc # "off" /\ helper.proc # "prompt" /\ sec' = sec /\ inbox' = inbox
        /\ helper'.proc = "off" /\ helper'.stdin = <<>> /\ sec = "idle"
    BY <1>7 DEF HelperDies, Prompting, HelperStep, prompt, Off
  <2>2. CASE Replied(c, arg, dirs, helper, inbox, sec)
    BY <2>1, <2>2 DEF Replied, ReplyTo, Still, Wire
  <2>3. CASE \/ Idle(c, dirs, helper, inbox, sec) \/ Starts(c, dirs, helper, inbox, sec)
             \/ Unread(c, arg, dirs, helper, inbox, sec)
    <3>1. Len(inbox) = 0
      BY <2>3 DEF Idle, Starts, Unread
    <3> QED
      BY <2>1, <3>1 DEF Dead, Still, Wire
  <2>4. CASE Works(c, arg, dirs, helper, inbox, sec)
    BY <2>1, <2>4 DEF Works, Dead, Still, Wire
  <2> QED
    BY <2>1, <2>2, <2>3, <2>4 DEF Wire, Dead, Asks
<1>8. CASE ReaderEnds
  <2>1. /\ helper.proc = "off" /\ sec' = sec /\ inbox' = inbox
        /\ helper'.proc = "off" /\ helper'.stdin = <<>>
    BY <1>8 DEF ReaderEnds, HelperStep, prompt, Off
  <2> QED
    BY <2>1 DEF Wire, Dead, Idle, Starts, Unread, Works, Asks, Replied, ReplyTo, Still
<1> QED
  BY <1>1, <1>2, <1>3, <1>4, <1>5, <1>6, <1>7, <1>8 DEF Helper

\* A helper nobody waits for never begins to ask.
LEMMA HelperAbandoned ==
  ASSUME TypeOK, Helper, Abandoned(helper, inbox, sec)
  PROVE  Abandoned(helper', inbox', sec')
<1>0. /\ helper \in HelperType /\ inbox \in Seq(MessageType) /\ Len(inbox) \in Nat
      /\ helper.stdin \in Seq(LineType)
  BY DEF TypeOK, HelperType
<1>1. sec' = sec
  BY DEF Helper, HelperGreets, HelperReads, HelperPrompts, HelperHears, HelperLists,
       HelperSucceeds, HelperFails, HelperDies, ReaderEnds, HelperStep, prompt
<1>2. ASSUME NEW m, m.type # "ask", inbox' = Append(inbox, m)
      PROVE  \A i \in 1 .. Len(inbox') : inbox'[i].type # "ask"
  BY <1>0, <1>2 DEF Abandoned
<1>3. CASE HelperGreets \/ HelperPrompts \/ HelperHears
  BY <1>3 DEF Abandoned, HelperGreets, HelperPrompts, HelperHears
<1>4. CASE HelperReads
  <2>1. /\ Head(helper.stdin) = helper.stdin[1] /\ Len(helper.stdin) > 0
        /\ Len(Tail(helper.stdin)) = Len(helper.stdin) - 1
        /\ \A i \in 1 .. Len(helper.stdin) - 1 : Tail(helper.stdin)[i] = helper.stdin[i + 1]
        /\ Len(helper.stdin) \in Nat
    BY <1>0, <1>4 DEF HelperReads
  <2>2. Head(helper.stdin).name \notin {"open", "secret"}
    BY <2>1 DEF Abandoned
  <2>3. /\ helper'.stdin = Tail(helper.stdin) /\ helper'.proc = "exec"
        /\ helper'.cmd = Head(helper.stdin) /\ inbox' = inbox
    <3>1. Head(helper.stdin) # Secret
      BY <2>2 DEF Secret, Line
    <3> QED
      BY <1>0, <1>4, <3>1 DEF HelperReads, HelperType
  <2>4. \A i \in 1 .. Len(helper'.stdin) : helper'.stdin[i].name \notin {"open", "secret"}
    BY <2>1, <2>3 DEF Abandoned
  <2> QED
    BY <1>1, <2>2, <2>3, <2>4 DEF Abandoned
<1>5. CASE HelperLists
  <2>1. /\ helper'.proc = helper.proc /\ helper'.cmd = helper.cmd
        /\ helper'.stdin = helper.stdin
    BY <1>0, <1>5 DEF HelperLists, HelperType
  <2>2. \A i \in 1 .. Len(inbox') : inbox'[i].type # "ask"
    BY <1>2, <1>5 DEF HelperLists, Emit, Message
  <2> QED
    BY <1>1, <2>1, <2>2 DEF Abandoned
<1>6. CASE HelperSucceeds \/ HelperFails
  <2>1. helper'.proc = "ready" /\ helper'.stdin = helper.stdin
    BY <1>0, <1>6 DEF HelperSucceeds, HelperFails, Terminates, HelperType
  <2>2. \A i \in 1 .. Len(inbox') : inbox'[i].type # "ask"
    BY <1>2, <1>6 DEF HelperSucceeds, HelperFails, Terminates, Emit, Message
  <2> QED
    BY <1>1, <2>1, <2>2 DEF Abandoned
<1>7. CASE HelperDies \/ ReaderEnds
  <2>1. helper'.proc = "off" /\ Len(helper'.stdin) = 0 /\ inbox' = inbox
    BY <1>7 DEF HelperDies, ReaderEnds, Off
  <2> QED
    BY <1>1, <2>1 DEF Abandoned
<1> QED
  BY <1>3, <1>4, <1>5, <1>6, <1>7 DEF Helper

-----------------------------------------------------------------------------
(* The session.                                                            *)

\* A stage belongs to a phase, and an upload gives its batch away before its last listing.
StageOK ==
  /\ (stage = "greeting") <=> In("connection", "waiting_greeting")
  /\ (stage = "opening") <=>
       (txn.kind = "connection" /\ txn.phase \in {"registering_key", "opening"})
  /\ stage \in {"idle", "failed"} => txn.kind = "none" \/ In("connection", "retry_wait")
  /\ In("connection", "retry_wait") => stage = "idle" /\ txn.reconnect
  /\ In("rec_upload", "listing_result") => walk = "none"

\* The reader sees the end of the pipe, not the other way round.
AliveOK == helper.proc # "off" => helper.alive

\* The directories a transaction remembers.
DirsOK ==
  /\ In("connection", "discovering_path") => ~txn.reconnect
  /\ In("connection", "restoring_path") => txn.reconnect
  /\ txn.kind = "connection" /\ txn.reconnect => txn.target \in Dir
  /\ In("connection", "listing") => txn.target \in Dir
  /\ txn.kind = "navigation" => txn.target \in Dir /\ txn.source = path
  /\ txn.kind \in {"rec_delete", "rec_upload"} /\ txn.phase \in {"executing", "probing_mkdir"}
       => txn.cmds > 0

\* The reply a session waits for, the directory its `cd' names, and where its helper is.
ReplyDue == IF command # "none" THEN command
            ELSE IF In("connection", "waiting_greeting") THEN "greeting" ELSE "none"
Going == IF In("navigation", "rolling_back") THEN txn.source ELSE txn.target
Where ==
  IF stage # "connected" THEN Dir \cup {NoDir}
  ELSE IF \/ In("connection", "listing")
          \/ txn.kind = "navigation" /\ txn.phase \in {"waiting_to_list", "listing_destination"}
       THEN {txn.target}
  ELSE IF txn.kind = "connection" \/ In("navigation", "rolling_back") THEN Dir
  ELSE {path}

WireOK == IF Live THEN Wire(ReplyDue, Going, Where, helper, inbox, sec)
          ELSE Abandoned(helper, inbox, sec)

\* One dialog, for the one question that is being asked.
ModalOK == modals = IF sec = "shown" THEN 1 ELSE 0

\* What a listing has staged is of the directory it will be shown for.
StagedOK == command = "ls" => staged \subseteq Where

Session ==
  /\ TypeOK /\ StageOK /\ AliveOK /\ DirsOK /\ WireOK /\ ModalOK /\ StagedOK
  /\ ItemsOfPath /\ WalkOwned

\* No helper is one, too.
LEMMA OffTyped == Off \in HelperType /\ Fresh \in HelperType
<1>1. <<>> \in Seq(LineType)
  OBVIOUS
<1>2. Off \in HelperType
  BY <1>1 DEF Off, HelperType
<1> QED
  BY <1>2 DEF Fresh, HelperType

\* Initially there is no helper.
LEMMA InitSession == Init => Session
<1> SUFFICES ASSUME Init PROVE Session
  OBVIOUS
<1>1. TypeOK
  <2>1. NoTxn \in TxnType /\ "idle" \in Phases["none"]
    BY ControlAssumption DEF NoTxn, Txn, TxnType, Phases, AnyPhase
  <2>2. Off \in HelperType
    BY OffTyped
  <2>3. txn.phase \in Phases[txn.kind]
    BY <2>1 DEF Init, NoTxn, Txn
  <2> QED
    <3>1. /\ inbox \in Seq(MessageType) /\ left \in 0 .. Len(inbox)
          /\ helper.cmd = NoLine /\ helper.proc = "off"
      BY DEF Init, Off
    <3>2. /\ path \in Dir /\ items \subseteq Dir /\ staged \subseteq Dir
          /\ refresh \in Dir \cup {NoDir} /\ modals \in Nat /\ asked \in BOOLEAN
      BY ControlAssumption DEF Init
    <3> QED
      BY <2>1, <2>2, <2>3, <3>1, <3>2 DEF Init, TypeOK
<1>2. ~Live /\ Abandoned(helper, inbox, sec)
  BY DEF Init, Live, Abandoned, Off
<1>3. StageOK /\ AliveOK /\ DirsOK
  BY DEF Init, StageOK, AliveOK, DirsOK, In, NoTxn, Txn, Off
<1> QED
  BY <1>1, <1>2, <1>3
     DEF Init, Session, WireOK, ModalOK, StagedOK, ItemsOfPath, WalkOwned

\* The helper and its messages are of their types.
LEMMA HelperTypes ==
  ASSUME TypeOK, Helper
  PROVE  /\ helper' \in HelperType
         /\ (helper'.cmd # NoLine <=> helper'.proc \in {"exec", "prompt"})
         /\ inbox' \in Seq(MessageType) /\ left' \in 0 .. Len(inbox')
<1> DEFINE Fine(h) == /\ h \in HelperType
                      /\ (h.cmd # NoLine <=> h.proc \in {"exec", "prompt"})
<1>0. /\ Fine(helper) /\ inbox \in Seq(MessageType) /\ Len(inbox) \in Nat
      /\ helper.stdin \in Seq(LineType) /\ left \in 0 .. Len(inbox) /\ left' = left
      /\ helper.cwd \in Dir \cup {NoDir}
  <2>1. left' = left
    BY DEF Helper, HelperGreets, HelperReads, HelperPrompts, HelperHears, HelperLists,
       HelperSucceeds, HelperFails, HelperDies, ReaderEnds, HelperStep, poll
  <2> QED
    BY <2>1 DEF TypeOK, HelperType
<1>1. ASSUME NEW m \in MessageType, Emit(m)
      PROVE  inbox' \in Seq(MessageType) /\ left' \in 0 .. Len(inbox')
  BY <1>0, <1>1 DEF Emit
<1>2. ASSUME inbox' = inbox
      PROVE  inbox' \in Seq(MessageType) /\ left' \in 0 .. Len(inbox')
  BY <1>0, <1>2
<1>10. ASSUME helper.proc \in {"exec", "prompt"}
      PROVE  /\ helper.cmd.dir \in Dir \cup {NoDir}
             /\ helper.cmd.name \in Commands \cup {"secret"}
  BY <1>0, <1>10 DEF HelperType, LineType
<1>3. CASE HelperGreets
  <2>1. Message("reply", "greeting", TRUE, NoDir) \in MessageType
    BY DEF Message, MessageType
  <2>2. Fine(helper')
    BY <1>0, <1>3 DEF HelperGreets, HelperType
  <2> QED
    BY <1>1, <1>3, <2>1, <2>2 DEF HelperGreets
<1>4. CASE HelperReads
  <2>1. Head(helper.stdin) \in LineType /\ Tail(helper.stdin) \in Seq(LineType)
    BY <1>0, <1>4 DEF HelperReads
  <2>2. Message("done", "secret", FALSE, NoDir) \in MessageType
    BY DEF Message, MessageType
  <2>3. Head(helper.stdin) # NoLine
    BY <2>1 DEF LineType, NoLine, Line, Commands
  <2>4. Fine(helper')
    <3>1. \/ helper' = [helper EXCEPT !.stdin = Tail(@)]
          \/ helper' = [helper EXCEPT !.stdin = Tail(@), !.cmd = Head(helper.stdin),
                                      !.proc = "exec", !.said = 0]
      BY <1>4 DEF HelperReads
    <3>2. CASE helper' = [helper EXCEPT !.stdin = Tail(@)]
      BY <1>0, <2>1, <3>2 DEF HelperType
    <3>3. CASE helper' = [helper EXCEPT !.stdin = Tail(@), !.cmd = Head(helper.stdin),
                                        !.proc = "exec", !.said = 0]
      BY <1>0, <2>1, <2>3, <3>3 DEF HelperType
    <3> QED
      BY <3>1, <3>2, <3>3
  <2> QED
    BY <1>1, <1>2, <1>4, <2>2, <2>4 DEF HelperReads
<1>5. CASE HelperPrompts
  <2>1. Message("ask", "open", TRUE, NoDir) \in MessageType
    BY DEF Message, MessageType, Commands
  <2>2. Fine(helper')
    <3>1. helper' = [helper EXCEPT !.proc = "prompt", !.said = @ + 1] /\ helper.proc = "exec"
      BY <1>5 DEF HelperPrompts
    <3>2. helper.said + 1 \in Nat
      BY <1>0 DEF HelperType
    <3> QED
      BY <1>0, <3>1, <3>2 DEF HelperType
  <2> QED
    BY <1>1, <1>5, <2>1, <2>2 DEF HelperPrompts
<1>6. CASE HelperHears
  <2>1. Tail(helper.stdin) \in Seq(LineType)
    BY <1>0, <1>6 DEF HelperHears
  <2>2. Fine(helper')
    BY <1>0, <1>6, <2>1 DEF HelperHears, HelperType
  <2> QED
    BY <1>2, <1>6, <2>2 DEF HelperHears
<1>7. CASE HelperLists
  <2>1. Message("entry", helper.cmd.name, TRUE, Listed) \in MessageType
    BY <1>0, <1>7, <1>10 DEF HelperLists, Listed, Message, MessageType, Commands
  <2>2. Fine(helper')
    BY <1>0, <1>7 DEF HelperLists, HelperType
  <2> QED
    BY <1>1, <1>7, <2>1, <2>2 DEF HelperLists
<1>8. CASE HelperSucceeds \/ HelperFails
  <2>1. /\ helper.proc = "exec"
        /\ helper.cmd.dir \in Dir \cup {NoDir}
        /\ helper.cmd.name \in Commands \cup {"secret"}
    BY <1>10, <1>8 DEF HelperSucceeds, HelperFails
  <2>2. PICK m \in MessageType : Terminates(m)
    <3>1. CASE HelperSucceeds
      BY <1>0, <2>1, <3>1 DEF HelperSucceeds, Message, MessageType
    <3>2. CASE HelperFails
      BY <2>1, <3>2 DEF HelperFails, Message, MessageType
    <3> QED
      BY <1>8, <3>1, <3>2
  <2>3. Fine(helper')
    <3>1. PICK d \in Dir \cup {NoDir} :
            helper' = [helper EXCEPT !.proc = "ready", !.cmd = NoLine, !.cwd = d]
      BY <1>0, <2>1, <2>2, ControlAssumption DEF Terminates
    <3> QED
      BY <1>0, <3>1 DEF HelperType
  <2> QED
    BY <1>1, <2>2, <2>3 DEF Terminates
<1>9. CASE HelperDies \/ ReaderEnds
  <2>1. Fine(helper')
    <3>1. Fine(Off) /\ Fine([Off EXCEPT !.alive = helper.alive])
      BY <1>0, OffTyped DEF HelperType, Off
    <3> QED
      BY <1>9, <3>1 DEF HelperDies, ReaderEnds
  <2> QED
    BY <1>2, <1>9, <2>1 DEF HelperDies, ReaderEnds
<1> QED
  BY <1>3, <1>4, <1>5, <1>6, <1>7, <1>8, <1>9 DEF Helper

\* The session does not move while the helper does.
LEMMA HelperSession == ASSUME ~StalePrompts, Session, Helper PROVE Session'
<1>1. HelperStep
  BY DEF Helper, HelperGreets, HelperReads, HelperPrompts, HelperHears, HelperLists,
       HelperSucceeds, HelperFails, HelperDies, ReaderEnds
<1>2. UNCHANGED <<pc, left, stage, txn, command, staged, path, items, refresh, walk, sec,
                  asked, modals>>
  BY <1>1 DEF HelperStep, poll, view, prompt
<1>3. TypeOK'
  BY <1>2, HelperTypes DEF Session, TypeOK
<1>4. helper'.proc # "off" => helper'.alive
  <2>1. helper \in HelperType
    BY DEF Session, TypeOK
  <2>2. helper.proc # "off" => helper.alive
    BY DEF Session, StageOK, AliveOK
  <2>3. CASE HelperGreets \/ HelperPrompts \/ HelperHears \/ HelperLists
    BY <2>1, <2>2, <2>3 DEF HelperGreets, HelperPrompts, HelperHears, HelperLists, HelperType
  <2>4. CASE HelperReads
    <3>1. helper'.alive = helper.alive /\ helper.proc # "off"
      BY <2>1, <2>4 DEF HelperReads, HelperType
    <3> QED
      BY <2>2, <3>1
  <2>5. CASE HelperSucceeds \/ HelperFails
    <3>1. helper'.alive = helper.alive /\ helper.proc # "off"
      BY <2>1, <2>5 DEF HelperSucceeds, HelperFails, Terminates, HelperType
    <3> QED
      BY <2>2, <3>1
  <2>6. CASE HelperDies \/ ReaderEnds
    BY <2>6 DEF HelperDies, ReaderEnds, Off
  <2> QED
    BY <2>3, <2>4, <2>5, <2>6 DEF Helper
<1>5. StageOK' /\ AliveOK' /\ DirsOK'
  BY <1>2, <1>4 DEF Session, StageOK, AliveOK, DirsOK, In
<1>6. WireOK'
  <2>1. /\ Live' = Live /\ ReplyDue' = ReplyDue /\ Going' = Going /\ Where' = Where
    BY <1>2 DEF Live, ReplyDue, Going, Where, In
  <2>2. CASE Live
    <3>1. PICK c, arg, dirs : c = ReplyDue /\ arg = Going /\ dirs = Where
      OBVIOUS
    <3>2. Wire(c, arg, dirs, helper', inbox', sec')
      BY <2>2, <3>1, HelperWire DEF Session, WireOK
    <3> QED
      BY <2>1, <2>2, <3>1, <3>2 DEF WireOK
  <2>3. CASE ~Live
    BY <2>1, <2>3, HelperAbandoned DEF Session, WireOK
  <2> QED
    BY <2>2, <2>3
<1>7. ModalOK' /\ StagedOK' /\ ItemsOfPath' /\ WalkOwned'
  <2>1. Where' = Where
    BY <1>2 DEF Where, In
  <2> QED
    BY <1>2, <2>1 DEF Session, ModalOK, StagedOK, ItemsOfPath, WalkOwned
<1> QED
  BY <1>3, <1>5, <1>6, <1>7 DEF Session

-----------------------------------------------------------------------------
(* The wire, at the steps of poll() and of the user.                       *)

\* Who waits for a reply is in a session.
LEMMA Waiting == ASSUME Inv, Session, command # "none" PROVE Live /\ ReplyDue = command
BY DEF Inv, Session, StageOK, AliveOK, WireMatchesPhase, Awaited, PhaseOK, Phases, In, Live,
   ReplyDue, TypeOK

\* Types the wire is spoken about with.
LEMMA WireTyped ==
  Session => helper \in HelperType /\ inbox \in Seq(MessageType) /\ Len(inbox) \in Nat
BY DEF Session, TypeOK

\* A reply is read: it is the one that is due, and the wire is free.
LEMMA Hear ==
  ASSUME Session, Live, Got({"reply", "done"}), left \in 0 .. Len(inbox)
  PROVE  /\ ReplyDue \in Commands \cup {"greeting"}
         /\ ReplyTo(ReplyDue, Going, Where, helper, Head(inbox))
         /\ Len(inbox) > 0
         /\ \A to : Wire("none", to, After(ReplyDue, Head(inbox).ok, Going, Where),
                         helper, Tail(inbox), sec)
         /\ ReplyDue = "pwd" =>
              \A to : Wire("none", to, {Head(inbox).dir}, helper, Tail(inbox), sec)
<1>1. Len(inbox) > 0 /\ Terminal(Head(inbox))
  BY WireTyped DEF Got, Terminal
<1>2. Wire(ReplyDue, Going, Where, helper, inbox, sec)
  BY DEF Session, WireOK
<1> QED
  BY <1>1, <1>2, WireTyped, ReadReply

\* The wire of a session that goes on with what it is told to be free.
LEMMA FreeWireIssues ==
  ASSUME helper \in HelperType, inbox' \in Seq(MessageType),
         NEW arg, NEW dirs, Wire("none", arg, dirs, helper, inbox', sec), UNCHANGED sec,
         NEW name \in Commands, NEW dir, Issue(name, dir), Live',
         dirs \subseteq Where', name \in {"cd", "cd_rollback"} => dir = Going',
         name = "rls" => dir \in Dir
  PROVE  WireOK'
<1>1. ReplyDue' = name /\ helper' = Written(helper, Line(name, dir))
  BY DEF Issue, Sent, Written, ReplyDue, Commands
<1>2. Wire(name, Going', Where', helper', inbox', sec')
  BY <1>1, SendCommand
<1> QED
  BY <1>1, <1>2 DEF WireOK

\* And of one that has nothing to send.
LEMMA FreeWireStays ==
  ASSUME inbox' \in Seq(MessageType),
         NEW arg, NEW dirs, Wire("none", arg, dirs, helper, inbox', sec),
         UNCHANGED <<helper, sec>>, ReplyDue' = "none", Live', dirs \subseteq Where'
  PROVE  WireOK'
BY StayFree DEF WireOK

\* A reply is followed by a command, by none, or by the end of the session.
LEMMA HearAndIssue ==
  ASSUME Session, Live, Got({"reply", "done"}), Popped, UNCHANGED sec,
         NEW name \in Commands, NEW dir, Issue(name, dir), Live',
         \/ After(ReplyDue, Head(inbox).ok, Going, Where) \subseteq Where'
         \/ ReplyDue = "pwd" /\ Head(inbox).dir \in Where',
         name \in {"cd", "cd_rollback"} => dir = Going',
         name = "rls" => dir \in Dir
  PROVE  WireOK'
<1>1. helper \in HelperType /\ inbox' \in Seq(MessageType) /\ left \in 0 .. Len(inbox)
  BY DEF Session, TypeOK, Got, Popped
<1>2. PICK dirs : Wire("none", NoDir, dirs, helper, inbox', sec) /\ dirs \subseteq Where'
  BY <1>1, Hear DEF Popped
<1> QED
  BY <1>1, <1>2, FreeWireIssues

\* The flow that heard it sends nothing yet.
LEMMA HearAndRest ==
  ASSUME Session, Live, Got({"reply", "done"}), Popped, UNCHANGED <<helper, sec>>,
         ReplyDue' = "none", Live',
         After(ReplyDue, Head(inbox).ok, Going, Where) \subseteq Where'
  PROVE  WireOK'
<1>1. helper \in HelperType /\ inbox' \in Seq(MessageType) /\ left \in 0 .. Len(inbox)
  BY DEF Session, TypeOK, Got, Popped
<1>2. PICK dirs : Wire("none", NoDir, dirs, helper, inbox', sec) /\ dirs \subseteq Where'
  BY <1>1, Hear DEF Popped
<1> QED
  BY <1>1, <1>2, FreeWireStays

\* The flow that heard it gives the session up.
LEMMA HearAndLeave ==
  ASSUME Session, Live, Got({"reply", "done"}), Popped, UNCHANGED <<helper, sec>>, ~Live'
  PROVE  WireOK'
<1>1. helper \in HelperType /\ inbox' \in Seq(MessageType) /\ left \in 0 .. Len(inbox)
  BY DEF Session, TypeOK, Got, Popped
<1>2. PICK dirs : Wire("none", NoDir, dirs, helper, inbox', sec)
  BY <1>1, Hear DEF Popped
<1>3. Abandoned(helper, inbox', sec)
  BY <1>1, <1>2, Abandon
<1> QED
  BY <1>3 DEF WireOK

\* A command on a free wire.
LEMMA IssueOnFree ==
  ASSUME Session, Live, ReplyDue = "none", UNCHANGED <<inbox, sec>>,
         NEW name \in Commands, NEW dir, Issue(name, dir), Live', Where \subseteq Where',
         name \in {"cd", "cd_rollback"} => dir = Going',
         name = "rls" => dir \in Dir
  PROVE  WireOK'
<1>1. helper \in HelperType /\ inbox' \in Seq(MessageType)
  BY DEF Session, TypeOK
<1>2. PICK arg, dirs : Wire("none", arg, dirs, helper, inbox', sec) /\ dirs \subseteq Where'
  BY DEF Session, WireOK
<1> QED
  BY <1>1, <1>2, FreeWireIssues

\* Nothing happens on it.
LEMMA WireStays ==
  ASSUME Session, UNCHANGED <<helper, inbox, sec>>, Live' = Live,
         \/ ~Live
         \/ ReplyDue' = ReplyDue /\ Going' = Going /\ Where' = Where
         \/ ReplyDue = "none" /\ ReplyDue' = "none" /\ Where \subseteq Where'
  PROVE  WireOK'
<1>1. CASE ~Live
  BY <1>1 DEF Session, WireOK
<1>2. CASE Live /\ ReplyDue' = ReplyDue /\ Going' = Going /\ Where' = Where
  BY <1>2 DEF Session, WireOK
<1>3. CASE Live /\ ReplyDue = "none" /\ ReplyDue' = "none" /\ Where \subseteq Where'
  <2>1. inbox' \in Seq(MessageType)
    BY DEF Session, TypeOK
  <2>2. PICK arg, dirs : Wire("none", arg, dirs, helper, inbox', sec) /\ dirs \subseteq Where'
    BY <1>3 DEF Session, WireOK
  <2> QED
    BY <1>3, <2>1, <2>2, FreeWireStays
<1> QED
  BY <1>1, <1>2, <1>3

\* The helper is stopped, or a new one starts.
LEMMA StopWire ==
  ASSUME Stop, sec' = "idle", ~Live' PROVE WireOK'
<1>1. Len(helper'.stdin) = 0 /\ helper'.proc = "off" /\ Len(inbox') = 0
  BY DEF Stop, Off
<1> QED
  BY <1>1 DEF WireOK, Abandoned

\* The new helper is expected to greet.
LEMMA LaunchWire ==
  ASSUME Launched, sec' = "idle", stage' = "greeting", command' = "none",
         In("connection", "waiting_greeting")'
  PROVE  WireOK'
<1>1. /\ helper'.proc = "greet" /\ helper'.stdin = <<>> /\ helper'.cwd = NoDir
      /\ inbox' = <<>>
  BY DEF Launched, Fresh, Off
<1>2. Live' /\ ReplyDue' = "greeting" /\ Where' = Dir \cup {NoDir}
  BY DEF Live, ReplyDue, Where
<1>3. Starts(ReplyDue', Where', helper', inbox', sec')
  BY <1>1, <1>2 DEF Starts, Still
<1> QED
  BY <1>2, <1>3 DEF WireOK, Wire

\* The kind and the phase of a transaction are of their types.
LEMMA PhaseTyped ==
  PhaseOK =>
    txn.kind \in DOMAIN Phases /\ txn.phase \in Phases[txn.kind] /\ txn.phase \in AnyPhase
BY DEF PhaseOK, Phases, AnyPhase

\* The same after a step.
LEMMA PhaseTypedNext ==
  PhaseOK' =>
    txn'.kind \in DOMAIN Phases /\ txn'.phase \in Phases[txn'.kind] /\ txn'.phase \in AnyPhase
BY DEF PhaseOK, Phases, AnyPhase

\* A new transaction is of its type.
LEMMA TxnTyped ==
  ASSUME NEW kind \in DOMAIN Phases, NEW phase \in AnyPhase PROVE Txn(kind, phase) \in TxnType
BY ControlAssumption DEF Txn, TxnType

\* The kinds, and phases that are often cited.
LEMMA AnyPhases ==
  /\ DOMAIN Phases = {"none", "connection", "navigation", "refresh", "mutation",
                      "rec_download", "rec_delete", "rec_upload", "keepalive"}
  /\ {"idle", "retry_wait", "waiting_greeting", "changing_directory", "listing", "executing",
      "collecting", "waiting"} \subseteq AnyPhase
BY DEF Phases, AnyPhase

\* Nothing is sent and nothing of a session changes but what is shown of its walk.
LEMMA WalkOnly ==
  ASSUME Session,
         UNCHANGED <<stage, txn, command, staged, path, items, prompt, session>>,
         pc' \in {"ui", "drain", "tick"}, left' \in 0 .. Len(inbox'),
         refresh' \in Dir \cup {NoDir},
         walk' \in {"none", "open", "waiting", "stuck", "cancelled"},
         walk' # "none" => walk # "none"
  PROVE  Session'
<1>1. UNCHANGED <<helper, inbox, sec, asked, modals>>
  BY DEF session, prompt
<1>2. TypeOK'
  BY <1>1 DEF Session, TypeOK
<1>3. StageOK' /\ AliveOK' /\ DirsOK' /\ ModalOK' /\ StagedOK' /\ ItemsOfPath' /\ WalkOwned'
  BY <1>1 DEF Session, StageOK, AliveOK, DirsOK, ModalOK, StagedOK, ItemsOfPath,
              WalkOwned, In, Where
<1>4. WireOK'
  BY <1>1, WireStays DEF Live, ReplyDue, Going, Where, In
<1> QED
  BY <1>2, <1>3, <1>4 DEF Session

\* No more of a batch is left than there is.
LEMMA LeftTyped == Session => left \in 0 .. Len(inbox)
BY DEF Session, TypeOK

\* The user asks for a refresh (request_refresh): a note for a later tick.
LEMMA RequestRefreshSession == ASSUME Session, RequestRefresh PROVE Session'
<1>1. walk \in {"none", "open", "waiting", "stuck", "cancelled"} /\ path \in Dir
  BY DEF Session, TypeOK
<1> QED
  BY <1>1, WalkOnly, LeftTyped DEF RequestRefresh, AtUi, poll, session

\* The user answers the question of a walk (deliver).
LEMMA AnswerConflictSession == ASSUME Session, AnswerConflict PROVE Session'
<1>1. pc \in {"ui", "drain", "tick"} /\ refresh \in Dir \cup {NoDir}
  BY DEF Session, TypeOK
<1>2. walk' \in {"none", "open", "waiting", "stuck", "cancelled"} /\ walk # "none"
  BY DEF AnswerConflict
<1> QED
  BY <1>1, <1>2, WalkOnly, LeftTyped DEF AnswerConflict, poll, session, view

\* A poll() begins.
LEMMA PollSession == ASSUME Session, Poll PROVE Session'
<1>1. /\ walk \in {"none", "open", "waiting", "stuck", "cancelled"}
      /\ refresh \in Dir \cup {NoDir} /\ Len(inbox) \in Nat
  BY DEF Session, TypeOK
<1>2. left' \in 0 .. Len(inbox') /\ pc' = "drain"
  BY <1>1 DEF Poll, session
<1> QED
  BY <1>1, <1>2, WalkOnly DEF Poll, view

\* A tick finds nothing due.
LEMMA RestSession == ASSUME Session, Rest PROVE Session'
<1>1. /\ walk \in {"none", "open", "waiting", "stuck", "cancelled"}
      /\ refresh \in Dir \cup {NoDir}
  BY DEF Session, TypeOK
<1> QED
  BY <1>1, WalkOnly, LeftTyped DEF Rest, Tick, view, session

\* A walk collects: it has no command on the wire, before and after.
LEMMA CollectSession ==
  ASSUME Inv, Session, NEW kind \in {"rec_download", "rec_delete", "rec_upload"},
         Connected, Collecting(kind), NEW rec \in TxnType, Collect(rec),
         rec.kind = kind, rec.phase = "collecting",
         walk' \in {"none", "open", "waiting", "stuck", "cancelled"},
         walk' # walk => kind # "rec_delete"
  PROVE  Session'
<1>1. /\ UNCHANGED <<pc, left, stage, path, items, refresh, sec, asked, modals, helper, inbox>>
      /\ txn' = rec /\ stage = "connected"
      /\ txn.kind \in {"none", kind}
      /\ txn.kind # "none" => txn.phase = "collecting"
  BY DEF Collect, Collecting, Connected, poll, view, prompt, session, In
<1>2. command = "none" /\ command' = "none"
  BY <1>1 DEF Inv, WireMatchesPhase, Awaited, PhaseOK, Collect
<1>3. staged' \subseteq Dir
  BY DEF Collect, Session, TypeOK
<1>4. TypeOK'
  <2>1. txn'.phase \in Phases[txn'.kind]
    BY <1>1 DEF Phases
  <2>2. TypeOK
    BY DEF Session
  <2> QED
    BY <1>1, <1>2, <1>3, <2>1, <2>2 DEF TypeOK
<1>5. StageOK' /\ AliveOK' /\ DirsOK'
  BY <1>1 DEF Session, StageOK, AliveOK, DirsOK, In
<1>6. WireOK'
  BY <1>1, <1>2, WireStays DEF Live, ReplyDue, Where, In
<1>7. ModalOK' /\ StagedOK' /\ ItemsOfPath'
  BY <1>1, <1>2 DEF Session, ModalOK, StagedOK, ItemsOfPath
<1>8. WalkOwned'
  BY <1>1 DEF Session, WalkOwned
<1> QED
  BY <1>4, <1>5, <1>6, <1>7, <1>8 DEF Session

\* The transaction a walk is collected into.
LEMMA CollectorTyped ==
  ASSUME Session, NEW kind \in {"rec_download", "rec_delete", "rec_upload"}, Collecting(kind)
  PROVE  /\ Collector(kind) \in TxnType /\ Collector(kind).kind = kind
         /\ Collector(kind).phase = "collecting"
BY TxnTyped, AnyPhases DEF Session, TypeOK, Collecting, Collector, In, Txn

\* The batch a walk is collected into.
LEMMA EnsuredTyped ==
  ASSUME Session, EnsureWalkBatch
  PROVE  walk' \in {"none", "open", "waiting", "stuck", "cancelled"}
BY DEF Session, TypeOK, EnsureWalkBatch

\* The user starts or extends a walk (ensure_collecting).
LEMMA FolderSession ==
  ASSUME Inv, Session, DownloadFolder \/ DeleteFolder \/ DeleteRemoteFile \/ UploadFolder
  PROVE  Session'
<1>1. CASE DownloadFolder
  <2>1. Connected /\ Collecting("rec_download") /\ EnsureWalkBatch
    BY <1>1 DEF DownloadFolder
  <2>2. PICK rec \in TxnType : /\ Collect(rec) /\ rec.kind = "rec_download"
                               /\ rec.phase = "collecting"
    BY <1>1, <2>1, CollectorTyped DEF DownloadFolder, TxnType
  <2> QED
    BY <2>1, <2>2, CollectSession, EnsuredTyped
<1>2. CASE DeleteFolder \/ DeleteRemoteFile
  <2>1. Connected /\ Collecting("rec_delete") /\ UNCHANGED walk
    BY <1>2 DEF DeleteFolder, DeleteRemoteFile
  <2>2. PICK rec \in TxnType : /\ Collect(rec) /\ rec.kind = "rec_delete"
                               /\ rec.phase = "collecting"
    <3>1. /\ Collector("rec_delete") \in TxnType
          /\ Collector("rec_delete").kind = "rec_delete"
          /\ Collector("rec_delete").phase = "collecting"
      BY <2>1, CollectorTyped
    <3>2. PICK c \in TxnType : c = Collector("rec_delete")
      BY <3>1
    <3>3. Counted(c, 1) \in Nat
      BY <3>2 DEF Counted, TxnType
    <3>4. CASE DeleteFolder
      <4>1. Collect([c EXCEPT !.stack = @ + 1, !.cmds = Counted(c, 1)])
        BY <3>2, <3>4 DEF DeleteFolder
      <4> DEFINE rec == [c EXCEPT !.stack = @ + 1, !.cmds = Counted(c, 1)]
      <4>2. c.stack + 1 \in Nat
        BY DEF TxnType
      <4>3. rec \in TxnType /\ rec.kind = "rec_delete" /\ rec.phase = "collecting"
        BY <3>1, <3>2, <3>3, <4>2 DEF TxnType
      <4> HIDE DEF rec
      <4> QED
        BY <4>1, <4>3 DEF rec
    <3>5. CASE DeleteRemoteFile
      <4>1. Collect([c EXCEPT !.cmds = Counted(c, 1)])
        BY <3>2, <3>5 DEF DeleteRemoteFile
      <4> QED
        BY <3>1, <3>2, <3>3, <4>1 DEF TxnType
    <3> QED
      BY <1>2, <3>4, <3>5
  <2>3. walk' \in {"none", "open", "waiting", "stuck", "cancelled"}
    BY <2>1 DEF Session, TypeOK
  <2> QED
    BY <2>1, <2>2, <2>3, CollectSession
<1>3. CASE UploadFolder
  <2>1. Connected /\ Collecting("rec_upload") /\ EnsureWalkBatch
    BY <1>3 DEF UploadFolder
  <2>2. PICK rec \in TxnType : /\ Collect(rec) /\ rec.kind = "rec_upload"
                               /\ rec.phase = "collecting"
    BY <1>3, <2>1, CollectorTyped, ControlAssumption DEF UploadFolder, TxnType
  <2> QED
    BY <2>1, <2>2, CollectSession, EnsuredTyped
<1> QED
  BY <1>1, <1>2, <1>3

\* A line in its pipe changes nothing else of the helper.
LEMMA SentTyped ==
  ASSUME TypeOK, NEW line \in LineType, helper' = Sent(line)
  PROVE  /\ helper' \in HelperType
         /\ (helper'.cmd # NoLine <=> helper'.proc \in {"exec", "prompt"})
         /\ helper'.proc = helper.proc /\ helper'.alive = helper.alive
<1>1. helper \in HelperType /\ helper.stdin \in Seq(LineType)
  BY DEF TypeOK, HelperType
<1>2. Append(helper.stdin, line) \in Seq(LineType)
  BY <1>1
<1>3. helper' = helper \/ helper' = [helper EXCEPT !.stdin = Append(@, line)]
  BY DEF Sent
<1>4. /\ helper' \in HelperType /\ helper'.cmd = helper.cmd
      /\ helper'.proc = helper.proc /\ helper'.alive = helper.alive
  BY <1>1, <1>2, <1>3 DEF HelperType
<1> QED
  BY <1>4 DEF TypeOK

\* So does a command.
LEMMA IssueTyped ==
  ASSUME TypeOK, NEW name \in Commands, NEW dir \in Dir \cup {NoDir}, Issue(name, dir)
  PROVE  /\ helper' \in HelperType
         /\ (helper'.cmd # NoLine <=> helper'.proc \in {"exec", "prompt"})
         /\ helper'.proc = helper.proc /\ helper'.alive = helper.alive
<1>1. Line(name, dir) \in LineType
  BY DEF Line, LineType
<1> QED
  BY <1>1, SentTyped DEF Issue

\* An answer is a line.
LEMMA SecretTyped == Secret \in LineType
BY DEF Secret, Line, LineType

\* A one-shot flow starts on a free wire.
LEMMA LaunchSession ==
  ASSUME Inv, Session, BrowseAvailable, NEW flow \in TxnType, NEW name \in Commands,
         NEW dir \in Dir \cup {NoDir}, Launch(flow, name, dir),
         pc' \in {"ui", "drain", "tick"}, refresh' \in Dir \cup {NoDir},
         \/ flow.kind = "navigation" /\ flow.phase = "changing_directory"
            /\ flow.source = path /\ flow.target = dir /\ dir \in Dir /\ name = "cd"
         \/ flow.kind \in {"mutation", "refresh", "keepalive"}
            /\ flow.phase \in Phases[flow.kind]
            /\ name \notin {"rls", "cd", "cd_rollback"}
  PROVE  Session'
<1>1. /\ UNCHANGED <<left, stage, path, items, walk, sec, asked, modals, inbox>>
      /\ txn' = flow /\ staged' = {} /\ Issue(name, dir)
      /\ txn.kind = "none" /\ stage = "connected"
  BY DEF Launch, prompt, BrowseAvailable, Connected
<1>2. command = "none"
  BY <1>1 DEF Inv, WireMatchesPhase, Awaited, PhaseOK
<1>3. /\ helper' \in HelperType
      /\ (helper'.cmd # NoLine <=> helper'.proc \in {"exec", "prompt"})
      /\ helper'.proc = helper.proc /\ helper'.alive = helper.alive
  BY <1>1, IssueTyped DEF Session
<1>4. TypeOK'
  <2>1. TypeOK
    BY DEF Session
  <2>2. flow.phase \in Phases[flow.kind]
    BY DEF Phases
  <2> QED
    BY <1>1, <1>3, <2>1, <2>2 DEF TypeOK, Issue
<1>5. StageOK' /\ AliveOK' /\ DirsOK'
  BY <1>1, <1>3 DEF Session, StageOK, AliveOK, DirsOK, In, Phases
<1>6. WireOK'
  <2>1. Live /\ Live' /\ ReplyDue = "none" /\ Where = {path} /\ Where' = {path}
    BY <1>1, <1>2 DEF Live, ReplyDue, Where, In
  <2>2. (name \in {"cd", "cd_rollback"} => dir = Going') /\ name # "rls"
    BY <1>1 DEF Going, In
  <2>3. UNCHANGED <<inbox, sec>>
    BY <1>1
  <2> QED
    BY <1>1, <2>1, <2>2, <2>3, IssueOnFree
<1>7. ModalOK' /\ StagedOK' /\ ItemsOfPath' /\ WalkOwned'
  BY <1>1 DEF Session, ModalOK, StagedOK, ItemsOfPath, WalkOwned
<1> QED
  BY <1>4, <1>5, <1>6, <1>7 DEF Session

\* The one-shot flows: navigation, mutation, keep-alive and refresh (launch).
LEMMA BeginSession ==
  ASSUME Inv, Session,
         \/ \E dir \in Dir : BeginNavigation(dir)
         \/ BeginMutation \/ MaybeKeepalive \/ BeginRefresh
  PROVE  Session'
<1>1. /\ pc \in {"ui", "drain", "tick"} /\ refresh \in Dir \cup {NoDir} /\ path \in Dir
      /\ walk \in {"none", "open", "waiting", "stuck", "cancelled"}
  BY DEF Session, TypeOK
<1>2. ASSUME NEW dir \in Dir, BeginNavigation(dir) PROVE Session'
  <2> DEFINE flow == [Txn("navigation", "changing_directory")
                        EXCEPT !.source = path, !.target = dir]
  <2>1. /\ flow \in TxnType /\ flow.kind = "navigation" /\ flow.phase = "changing_directory"
        /\ flow.source = path /\ flow.target = dir
    BY <1>1, TxnTyped, AnyPhases DEF TxnType, Txn
  <2>2. /\ BrowseAvailable /\ Launch(flow, "cd", dir) /\ "cd" \in Commands
        /\ pc' = pc /\ refresh' = refresh
    BY <1>2 DEF BeginNavigation, Commands
  <2> HIDE DEF flow
  <2> QED
    BY <1>1, <2>1, <2>2, LaunchSession
<1>3. ASSUME NEW kind \in {"mutation", "refresh", "keepalive"}, NEW phase \in Phases[kind],
             NEW name \in {"op", "ls", "pwd"}, Launch(Txn(kind, phase), name, NoDir),
             BrowseAvailable, pc' \in {"ui", "drain", "tick"}, refresh' \in Dir \cup {NoDir}
      PROVE  Session'
  <2>1. /\ Txn(kind, phase) \in TxnType
        /\ Txn(kind, phase).kind = kind /\ Txn(kind, phase).phase = phase
    BY TxnTyped DEF Phases, AnyPhase, Txn
  <2>2. name \in Commands /\ name \notin {"rls", "cd", "cd_rollback"}
    BY DEF Commands
  <2> QED
    BY <1>3, <2>1, <2>2, LaunchSession
<1>4. CASE BeginMutation
  BY <1>1, <1>3, <1>4 DEF BeginMutation, Phases
<1>5. CASE MaybeKeepalive
  BY <1>1, <1>3, <1>5 DEF MaybeKeepalive, Tick, Phases
<1>6. CASE BeginRefresh
  <2>1. CASE refresh = path
    BY <1>1, <1>3, <1>6, <2>1 DEF BeginRefresh, Tick, Phases
  <2>2. CASE refresh # path
    BY <1>1, <1>6, <2>2, WalkOnly, LeftTyped DEF BeginRefresh, Tick, session
  <2> QED
    BY <2>1, <2>2
<1> QED
  BY <1>2, <1>4, <1>5, <1>6

\* The answer goes to the helper that asked.
LEMMA ProvideSecretSession == ASSUME Session, ProvideSecret PROVE Session'
<1>1. /\ UNCHANGED <<pc, left, stage, txn, command, staged, path, items, refresh, walk, asked,
                     inbox>>
      /\ sec' = "idle" /\ modals' = modals - 1 /\ helper' = Sent(Secret) /\ modals > 0
  BY DEF ProvideSecret, poll, view
<1>2. modals = 1 /\ sec = "shown"
  BY <1>1 DEF Session, ModalOK
<1>3. /\ helper' \in HelperType
      /\ (helper'.cmd # NoLine <=> helper'.proc \in {"exec", "prompt"})
      /\ helper'.proc = helper.proc /\ helper'.alive = helper.alive
  BY <1>1, SentTyped, SecretTyped DEF Session
<1>4. TypeOK'
  BY <1>1, <1>2, <1>3 DEF Session, TypeOK
<1>5. StageOK' /\ AliveOK' /\ DirsOK'
  BY <1>1, <1>3 DEF Session, StageOK, AliveOK, DirsOK, In
<1>6. WireOK'
  <2>1. Live' = Live /\ ReplyDue' = ReplyDue /\ Going' = Going /\ Where' = Where
    BY <1>1 DEF Live, ReplyDue, Going, Where, In
  <2>2. Live
    BY <1>2 DEF Session, WireOK, Abandoned
  <2>3. Wire(ReplyDue, Going, Where, helper, inbox, sec) /\ helper \in HelperType
    BY <2>2 DEF Session, WireOK, TypeOK
  <2>4. helper' = Written(helper, Secret)
    BY <1>1 DEF Sent, Written
  <2>5. Wire(ReplyDue, Going, Where, helper', inbox, "idle")
    BY <1>2, <2>3, <2>4, SendSecret
  <2> QED
    BY <1>1, <2>1, <2>2, <2>5 DEF WireOK
<1>7. ModalOK' /\ StagedOK' /\ ItemsOfPath' /\ WalkOwned'
  BY <1>1, <1>2 DEF Session, ModalOK, StagedOK, ItemsOfPath, WalkOwned, Where, In
<1> QED
  BY <1>4, <1>5, <1>6, <1>7 DEF Session

\* The session ends, or begins anew, with no helper or a new one.
LEMMA EndSession ==
  ASSUME Session, Stop, sec' = "idle", modals' = 0, asked' \in BOOLEAN,
         txn' = NoTxn, command' = "none", staged' = {}, stage' \in {"idle", "failed"},
         path' \in Dir, items' \subseteq {path'}, refresh' \in Dir \cup {NoDir},
         walk' = "none", pc' \in {"ui", "drain", "tick"}
  PROVE  Session'
<1>1. /\ helper' \in HelperType /\ helper'.cmd = NoLine /\ helper'.proc = "off"
      /\ inbox' \in Seq(MessageType) /\ left' \in 0 .. Len(inbox')
  BY OffTyped DEF Stop, Off
<1>2. NoTxn \in TxnType /\ NoTxn.kind = "none" /\ NoTxn.phase = "idle"
  BY TxnTyped, AnyPhases DEF NoTxn, Txn
<1>3. TypeOK'
  <2>1. txn'.phase \in Phases[txn'.kind]
    BY <1>2 DEF Phases
  <2> QED
    BY <1>1, <1>2, <2>1 DEF TypeOK
<1>4. StageOK' /\ AliveOK' /\ DirsOK'
  BY <1>1, <1>2 DEF StageOK, AliveOK, DirsOK, In
<1>5. WireOK'
  BY StopWire DEF Live
<1>6. ModalOK' /\ StagedOK' /\ ItemsOfPath' /\ WalkOwned'
  BY DEF ModalOK, StagedOK, ItemsOfPath, WalkOwned
<1> QED
  BY <1>3, <1>4, <1>5, <1>6 DEF Session

\* A helper starts, for a first or a further attempt.
LEMMA StartSession ==
  ASSUME Session, Launched, sec' = "idle", modals' = 0, asked' \in BOOLEAN,
         txn' \in TxnType, txn'.kind = "connection", txn'.phase = "waiting_greeting",
         txn'.reconnect => txn'.target \in Dir,
         command' = "none", staged' = {}, stage' = "greeting",
         path' \in Dir, items' \subseteq {path'}, refresh' \in Dir \cup {NoDir},
         walk' = "none", pc' \in {"ui", "drain", "tick"}
  PROVE  Session'
<1>1. /\ helper' \in HelperType /\ helper'.cmd = NoLine /\ helper'.proc = "greet"
      /\ helper'.alive /\ inbox' \in Seq(MessageType) /\ left' \in 0 .. Len(inbox')
  BY OffTyped DEF Launched, Fresh, Off
<1>2. TypeOK'
  <2>1. txn'.phase \in Phases[txn'.kind]
    BY DEF Phases
  <2> QED
    BY <1>1, <2>1 DEF TypeOK
<1>3. StageOK' /\ AliveOK' /\ DirsOK'
  BY <1>1 DEF StageOK, AliveOK, DirsOK, In
<1>4. WireOK'
  BY LaunchWire DEF In
<1>5. ModalOK' /\ StagedOK' /\ ItemsOfPath' /\ WalkOwned'
  BY DEF ModalOK, StagedOK, ItemsOfPath, WalkOwned
<1> QED
  BY <1>2, <1>3, <1>4, <1>5 DEF Session

\* The user begins or ends a session.
LEMMA ConnectSession ==
  ASSUME Inv, Session, Connect \/ Disconnect \/ CancelSecret PROVE Session'
<1>1. /\ pc \in {"ui", "drain", "tick"} /\ path \in Dir /\ items \subseteq {path}
      /\ refresh \in Dir \cup {NoDir} /\ asked \in BOOLEAN
      /\ modals = IF sec = "shown" THEN 1 ELSE 0
  BY DEF Session, TypeOK, ModalOK, ItemsOfPath
<1>2. CASE Connect /\ stage' = "greeting"
  <2>1. /\ Launched /\ sec' = "idle" /\ modals' = 0 /\ asked' \in BOOLEAN
        /\ txn' = Txn("connection", "waiting_greeting")
        /\ command' = "none" /\ staged' = {} /\ path' \in Dir /\ items' \subseteq {path'}
        /\ refresh' \in Dir \cup {NoDir} /\ walk' = "none" /\ pc' = pc
    BY <1>2, ControlAssumption DEF Connect, AtUi
  <2>2. /\ txn' \in TxnType /\ txn'.kind = "connection" /\ txn'.phase = "waiting_greeting"
        /\ ~txn'.reconnect
    BY <2>1, TxnTyped, AnyPhases DEF Txn
  <2> QED
    BY <1>1, <1>2, <2>1, <2>2, StartSession
<1>3. CASE Connect /\ stage' # "greeting"
  <2>1. /\ Stop /\ sec' = "idle" /\ modals' = 0 /\ asked' \in BOOLEAN
        /\ txn' = NoTxn /\ stage' = "failed"
        /\ command' = "none" /\ staged' = {} /\ path' \in Dir /\ items' \subseteq {path'}
        /\ refresh' \in Dir \cup {NoDir} /\ walk' = "none" /\ pc' = pc
    BY <1>3, ControlAssumption DEF Connect, AtUi
  <2> QED
    BY <1>1, <2>1, EndSession
<1>4. CASE Disconnect
  <2>1. /\ Stop /\ sec' = "idle" /\ modals' = 0 /\ asked' \in BOOLEAN
        /\ txn' = NoTxn /\ stage' = "idle"
        /\ command' = "none" /\ staged' = {} /\ path' \in Dir /\ items' \subseteq {path'}
        /\ refresh' \in Dir \cup {NoDir} /\ walk' = "none" /\ pc' = pc
    BY <1>1, <1>4 DEF Disconnect, AtUi, Reset
  <2> QED
    BY <1>1, <2>1, EndSession
<1>5. CASE CancelSecret
  <2>1. walk = "none"
    <3>1. Live
      BY <1>1, <1>5 DEF CancelSecret, Session, WireOK, Abandoned
    <3>2. command = "open"
      <4>1. ReplyDue = "open"
        BY <1>1, <1>5, <3>1
           DEF CancelSecret, Session, WireOK, Wire, Dead, Idle, Starts, Unread, Works, Asks,
               Replied, Still
      <4> QED
        BY <4>1 DEF ReplyDue
    <3>3. txn.kind = "connection"
      BY <3>2 DEF Inv, WireMatchesPhase, Awaited, PhaseOK, Phases
    <3> QED
      BY <3>3 DEF Session, WalkOwned
  <2>2. /\ Stop /\ sec' = "idle" /\ modals' = 0 /\ asked' \in BOOLEAN
        /\ txn' = NoTxn /\ stage' = "failed"
        /\ command' = "none" /\ staged' = {} /\ path' \in Dir /\ items' \subseteq {path'}
        /\ refresh' \in Dir \cup {NoDir} /\ walk' = "none" /\ pc' = pc
    BY <1>1, <1>5, <2>1 DEF CancelSecret, Reset, view
  <2> QED
    BY <1>1, <2>2, EndSession
<1> QED
  BY <1>2, <1>3, <1>4, <1>5

\* Reading a message shortens what is left of the batch.
LEMMA PopTyped ==
  ASSUME Session, NEW types, Got(types), Popped
  PROVE  /\ Len(inbox) > 0 /\ Head(inbox) \in MessageType /\ Head(inbox).type \in types
         /\ inbox' = Tail(inbox) /\ inbox' \in Seq(MessageType) /\ left' \in 0 .. Len(inbox')
<1>1. /\ inbox \in Seq(MessageType) /\ left \in 0 .. Len(inbox) /\ left > 0
      /\ inbox' = Tail(inbox) /\ left' = left - 1 /\ Len(inbox) \in Nat
  BY DEF Session, TypeOK, Got, Popped
<1>2. /\ Len(inbox) > 0 /\ Tail(inbox) \in Seq(MessageType)
      /\ Len(Tail(inbox)) = Len(inbox) - 1 /\ Head(inbox) \in MessageType
  BY <1>1
<1> QED
  BY <1>1, <1>2 DEF Got

\* A reply is followed by a command ...
LEMMA ReplyThenCommand ==
  ASSUME Inv', Session, Live, Got({"reply", "done"}), Popped, UNCHANGED <<pc, prompt, view>>,
         walk' = walk \/ walk' = "none", WalkOwned', txn' \in TxnType, StageOK', DirsOK',
         stage' \in {"opening", "connected"},
         NEW name \in Commands, NEW dir \in Dir \cup {NoDir}, Issue(name, dir),
         staged' = {} \/ (staged' = staged /\ name # "ls"),
         \/ After(ReplyDue, Head(inbox).ok, Going, Where) \subseteq Where'
         \/ ReplyDue = "pwd" /\ Head(inbox).dir \in Where',
         name \in {"cd", "cd_rollback"} => dir = Going', name = "rls" => dir \in Dir
  PROVE  Session'
<1>1. UNCHANGED <<pc, sec, asked, modals, path, items, refresh>> /\ command' = name
  BY DEF prompt, view, Issue
<1>2. inbox' \in Seq(MessageType) /\ left' \in 0 .. Len(inbox')
  BY PopTyped
<1>3. /\ helper' \in HelperType
      /\ (helper'.cmd # NoLine <=> helper'.proc \in {"exec", "prompt"})
      /\ helper'.proc = helper.proc /\ helper'.alive = helper.alive
  BY IssueTyped DEF Session
<1>4. TypeOK'
  <2>1. txn'.phase \in Phases[txn'.kind]
    BY PhaseTypedNext DEF Inv
  <2>2. TypeOK /\ staged' \subseteq Dir /\ command' \in Commands
    BY <1>1 DEF Session, TypeOK
  <2> QED
    BY <1>1, <1>2, <1>3, <2>1, <2>2 DEF TypeOK
<1>5. WireOK'
  <2>1. Live' /\ UNCHANGED sec
    BY <1>1 DEF Live
  <2> QED
    BY <2>1, HearAndIssue
<1>6. AliveOK' /\ ModalOK' /\ StagedOK' /\ ItemsOfPath'
  BY <1>1, <1>3 DEF Session, AliveOK, ModalOK, StagedOK, ItemsOfPath
<1> QED
  BY <1>4, <1>5, <1>6 DEF Session

\* ... or by none: the flow waits, or is over ...
LEMMA ReplyThenNone ==
  ASSUME Inv', Session, Live, Got({"reply", "done"}), Popped,
         UNCHANGED <<pc, stage, prompt, helper>>,
         path' \in Dir, items' \subseteq {path'}, refresh' \in Dir \cup {NoDir},
         walk' \in {"none", "open", "waiting", "stuck", "cancelled"}, WalkOwned',
         txn' \in TxnType, txn'.kind # "connection", StageOK', DirsOK',
         command' = "none", staged' \subseteq Dir,
         After(ReplyDue, Head(inbox).ok, Going, Where) \subseteq Where'
  PROVE  Session'
<1>1. UNCHANGED <<pc, stage, sec, asked, modals, helper>>
  BY DEF prompt
<1>2. inbox' \in Seq(MessageType) /\ left' \in 0 .. Len(inbox')
  BY PopTyped
<1>3. TypeOK'
  <2>1. txn'.phase \in Phases[txn'.kind]
    BY PhaseTypedNext DEF Inv
  <2>2. items' \subseteq Dir /\ TypeOK
    BY DEF Session
  <2> QED
    BY <1>1, <1>2, <2>1, <2>2 DEF TypeOK
<1>4. WireOK'
  <2>1. Live' /\ ReplyDue' = "none" /\ UNCHANGED <<helper, sec>>
    BY <1>1 DEF Live, ReplyDue, In
  <2> QED
    BY <2>1, HearAndRest
<1>5. AliveOK' /\ ModalOK' /\ StagedOK' /\ ItemsOfPath'
  BY <1>1 DEF Session, AliveOK, ModalOK, StagedOK, ItemsOfPath
<1> QED
  BY <1>3, <1>4, <1>5 DEF Session

\* ... which frees the session.
LEMMA ReplyThenFree ==
  ASSUME Inv', Session, Live, stage = "connected", Got({"reply", "done"}), Popped,
         UNCHANGED <<pc, stage, prompt, helper>>, Reset,
         path' \in Dir, items' \subseteq {path'}, refresh' \in Dir \cup {NoDir},
         walk' = "none", After(ReplyDue, Head(inbox).ok, Going, Where) \subseteq {path'}
  PROVE  Session'
<1>1. /\ txn' \in TxnType /\ txn'.kind = "none" /\ command' = "none" /\ staged' = {}
      /\ stage' = "connected"
  BY TxnTyped, AnyPhases DEF Reset, NoTxn, Txn
<1>2. StageOK' /\ DirsOK' /\ WalkOwned' /\ Where' = {path'}
  BY <1>1 DEF StageOK, DirsOK, WalkOwned, In, Where
<1> QED
  BY <1>1, <1>2, ReplyThenNone

\* The recovery of a session leaves the helper to itself.
LEMMA RecoverSession ==
  ASSUME Inv', Session,
         BeginRecover(0) \/ (BeginRecover(TriesUsed) /\ UNCHANGED <<inbox, left>>),
         UNCHANGED <<path, items, asked, helper>>, pc' \in {"ui", "drain", "tick"},
         inbox' \in Seq(MessageType), left' \in 0 .. Len(inbox'),
         sec' = "idle", modals' = 0, Abandoned(helper', inbox', sec')
  PROVE  Session'
<1>1. PICK tries \in 0 .. MaxTries : BeginRecover(tries)
  <2>1. 0 \in 0 .. MaxTries
    BY ControlAssumption
  <2>2. TriesUsed \in 0 .. MaxTries
    BY <2>1 DEF TriesUsed, Session, TypeOK, TxnType
  <2> QED
    BY <2>1, <2>2
<1>2. /\ txn' \in TxnType /\ txn'.kind = "connection" /\ txn'.phase = "retry_wait"
      /\ txn'.reconnect /\ txn'.target = path
  <2>1. path \in Dir
    BY DEF Session, TypeOK
  <2>2. Txn("connection", "retry_wait") \in TxnType
    BY TxnTyped, AnyPhases
  <2>3. txn' = [Txn("connection", "retry_wait") EXCEPT
                  !.reconnect = TRUE, !.attempts = tries, !.target = path]
    BY <1>1 DEF BeginRecover, Reconnecting
  <2> QED
    BY <2>1, <2>2, <2>3 DEF TxnType, Txn
<1>3. command' = "none" /\ staged' = {} /\ walk' = "none" /\ refresh' = NoDir /\ stage' = "idle"
  BY <1>1 DEF BeginRecover
<1>4. TypeOK'
  <2>1. txn'.phase \in Phases[txn'.kind]
    BY <1>2 DEF Phases
  <2>2. TypeOK
    BY DEF Session
  <2> QED
    BY <1>2, <1>3, <2>1, <2>2 DEF TypeOK
<1>5. StageOK' /\ AliveOK' /\ DirsOK'
  <2>1. path \in Dir
    BY DEF Session, TypeOK
  <2> QED
    BY <1>2, <1>3, <2>1 DEF Session, StageOK, AliveOK, DirsOK, In
<1>6. WireOK'
  BY <1>3 DEF WireOK, Live
<1>7. ModalOK' /\ StagedOK' /\ ItemsOfPath' /\ WalkOwned'
  BY <1>3 DEF Session, ModalOK, StagedOK, ItemsOfPath, WalkOwned
<1> QED
  BY <1>4, <1>5, <1>6, <1>7 DEF Session

\* So does one after a failed rollback or keep-alive.
LEMMA ReplyThenRecover ==
  ASSUME Inv', Session, Live, Got({"reply", "done"}), Popped, BeginRecover(0),
         UNCHANGED <<pc, path, items, prompt, helper>>
  PROVE  Session'
<1>1. inbox' \in Seq(MessageType) /\ left' \in 0 .. Len(inbox')
  BY PopTyped
<1>2. UNCHANGED <<sec, asked, modals>> /\ ~Live'
  BY DEF prompt, BeginRecover, Live
<1>3. WireOK' /\ Abandoned(helper', inbox', sec')
  <2>1. UNCHANGED <<helper, sec>>
    BY <1>2
  <2>2. WireOK'
    BY <1>2, <2>1, HearAndLeave
  <2> QED
    BY <1>2, <2>2 DEF WireOK
<1>4. sec' = "idle" /\ modals' = 0 /\ pc' \in {"ui", "drain", "tick"}
  <2>1. sec' = "idle"
    BY <1>3 DEF Abandoned
  <2> QED
    BY <1>2, <2>1 DEF Session, ModalOK, TypeOK
<1> QED
  BY <1>1, <1>2, <1>3, <1>4, RecoverSession

\* Who reads a reply waits for it.
LEMMA Completing ==
  ASSUME Inv, Session, Completes \/ Fails
  PROVE  /\ Got({"reply", "done"}) /\ command # "none" /\ Live /\ ReplyDue = command
         /\ command = Awaited /\ PhaseOK
         /\ stage \in {"greeting", "opening", "connected"}
         /\ txn.kind # "connection" => stage = "connected"
         /\ txn \in TxnType /\ path \in Dir /\ items \subseteq {path} /\ staged \subseteq Dir
         /\ refresh \in Dir \cup {NoDir}
<1>1. Got({"reply", "done"}) /\ command # "none"
  BY DEF Completes, Fails, Got
<1>2. Live /\ ReplyDue = command
  BY <1>1, Waiting
<1>3. command = Awaited /\ PhaseOK
  BY DEF Inv, WireMatchesPhase
<1>4. /\ txn \in TxnType /\ path \in Dir /\ items \subseteq {path} /\ staged \subseteq Dir
      /\ refresh \in Dir \cup {NoDir}
      /\ stage \in {"idle", "greeting", "opening", "connected", "failed"}
  BY DEF Session, TypeOK, ItemsOfPath
<1>5. /\ stage \in {"greeting", "opening", "connected"}
      /\ txn.kind # "connection" => stage = "connected"
  BY <1>2, <1>4 DEF Live, Session, StageOK, In
<1> QED
  BY <1>1, <1>2, <1>3, <1>4, <1>5

\* Where the helper is when it has replied.
LEMMA Moved ==
  ASSUME Session, Live, Got({"reply", "done"})
  PROVE  /\ ReplyDue = "pwd" => Head(inbox).dir \in Where
         /\ Head(inbox).type = "reply" => Head(inbox).ok
         /\ ReplyDue \notin {"open", "cd", "cd_rollback"} =>
              After(ReplyDue, Head(inbox).ok, Going, Where) = Where
         /\ ~Head(inbox).ok => After(ReplyDue, Head(inbox).ok, Going, Where) = Where
         /\ Head(inbox).ok /\ ReplyDue = "open" =>
              After(ReplyDue, Head(inbox).ok, Going, Where) = {Home}
         /\ Head(inbox).ok /\ ReplyDue \in {"cd", "cd_rollback"} =>
              After(ReplyDue, Head(inbox).ok, Going, Where) = {Going}
BY Hear, LeftTyped DEF ReplyTo, After

\* The next key file, or the connection itself.
LEMMA KeyfileOrOpen ==
  ASSUME Inv', Session, Live, Got({"reply", "done"}), Popped,
         UNCHANGED <<pc, prompt, view, walk>>,
         txn.kind = "connection", stage # "connected", stage' = "opening", UNCHANGED staged,
         NEW keys \in 0 .. Keys, SendNextKeyfileOrOpen(keys),
         ReplyDue \notin {"open", "cd", "cd_rollback"}
  PROVE  Session'
<1>1. txn \in TxnType
  BY DEF Session, TypeOK
<1>2. PICK name \in {"keyfile", "open"} :
        /\ Issue(name, NoDir)
        /\ txn' \in TxnType /\ txn'.kind = "connection" /\ txn'.target = txn.target
        /\ txn'.reconnect = txn.reconnect
        /\ txn'.phase \in {"registering_key", "opening"}
  <2>1. {"registering_key", "opening"} \subseteq AnyPhase
    BY DEF AnyPhase, Phases
  <2>2. CASE keys > 0
    <3>1. keys - 1 \in 0 .. Keys
      BY <2>2, ControlAssumption
    <3>2. /\ txn' = [txn EXCEPT !.phase = "registering_key", !.keys = keys - 1]
          /\ Issue("keyfile", NoDir)
      BY <2>2 DEF SendNextKeyfileOrOpen, At
    <3> QED
      BY <1>1, <2>1, <3>1, <3>2 DEF TxnType
  <2>3. CASE ~(keys > 0)
    <3>1. txn' = [txn EXCEPT !.phase = "opening"] /\ Issue("open", NoDir)
      BY <2>3 DEF SendNextKeyfileOrOpen, At
    <3> QED
      BY <1>1, <2>1, <3>1 DEF TxnType
  <2> QED
    BY <2>2, <2>3
<1>3. StageOK' /\ DirsOK' /\ WalkOwned'
  BY <1>2 DEF Session, StageOK, DirsOK, WalkOwned, In
<1>4. After(ReplyDue, Head(inbox).ok, Going, Where) \subseteq Where'
  BY Moved DEF Where
<1>5. name \in Commands /\ name \notin {"ls", "rls", "cd", "cd_rollback"}
  BY DEF Commands
<1> QED
  BY <1>2, <1>3, <1>4, <1>5, ReplyThenCommand

\* The helper has greeted (on_reply).
LEMMA GreetingSession == ASSUME Inv, Inv', Session, Greeting PROVE Session'
<1>1. /\ Got({"reply", "done"}) /\ Popped /\ In("connection", "waiting_greeting")
      /\ stage' = "opening" /\ SendNextKeyfileOrOpen(Keys) /\ UNCHANGED staged
      /\ UNCHANGED <<pc, prompt, view, walk>>
  BY DEF Greeting, Got
<1>2. stage = "greeting" /\ Live /\ txn.kind = "connection" /\ Keys \in 0 .. Keys
  BY <1>1, ControlAssumption DEF Session, StageOK, Live, In
<1>3. ReplyDue \notin {"open", "cd", "cd_rollback"}
  BY <1>1 DEF Inv, WireMatchesPhase, Awaited, In, ReplyDue
<1> QED
  BY <1>1, <1>2, <1>3, KeyfileOrOpen

\* The handshake, up to the first listing.
LEMMA CompleteConnectionSession ==
  ASSUME Inv, Inv', Session, CompleteConnection PROVE Session'
<1>0. /\ Completes /\ txn.kind = "connection" /\ Popped /\ UNCHANGED <<pc, prompt>>
      /\ walk = "none"
  <2>1. txn.kind = "connection" /\ Completes
    BY DEF CompleteConnection
  <2>2. walk = "none"
    BY <2>1 DEF Session, WalkOwned
  <2>3. txn.phase \in {"registering_key", "opening", "discovering_path", "restoring_path",
                       "listing"}
    BY <2>1, Completing DEF Awaited, PhaseOK, Phases
  <2> QED
    BY <2>1, <2>2, <2>3 DEF CompleteConnection, Advance, Shown
<1>1. /\ Got({"reply", "done"}) /\ Live /\ ReplyDue = command /\ command = Awaited
      /\ txn \in TxnType /\ path \in Dir /\ refresh \in Dir \cup {NoDir}
      /\ txn.phase \in {"registering_key", "opening", "discovering_path", "restoring_path",
                        "listing"}
  BY <1>0, Completing DEF Awaited, PhaseOK, Phases
<1>2. txn.phase \in {"registering_key", "opening"} <=> stage = "opening"
  BY <1>0 DEF Session, StageOK
<1>3. stage \in {"opening", "connected"}
  BY <1>0, <1>1, Completing DEF Session, StageOK, In
<1>4. Head(inbox).ok \/ txn.phase = "registering_key"
  BY <1>0, <1>1, Moved DEF Completes, In
<1>5. CASE txn.phase = "registering_key"
  <2>1. /\ SendNextKeyfileOrOpen(txn.keys) /\ UNCHANGED <<staged, view, walk>>
        /\ stage' = "opening" /\ stage = "opening"
    BY <1>2, <1>5 DEF CompleteConnection
  <2>2. txn.keys \in 0 .. Keys /\ ReplyDue = "keyfile"
    BY <1>0, <1>1, <1>5 DEF TxnType, Awaited
  <2> QED
    BY <1>0, <1>1, <2>1, <2>2, KeyfileOrOpen
<1>6. CASE txn.phase = "opening"
  <2>1. stage = "opening" /\ ReplyDue = "open" /\ Head(inbox).ok
    BY <1>0, <1>1, <1>2, <1>4, <1>6 DEF Awaited
  <2>2. /\ stage' = "connected" /\ UNCHANGED <<staged, view, walk>>
        /\ IF txn.reconnect
           THEN txn' = [txn EXCEPT !.phase = "restoring_path"] /\ Issue("cd", txn.target)
           ELSE txn' = [txn EXCEPT !.phase = "discovering_path"] /\ Issue("pwd", NoDir)
    BY <1>6 DEF CompleteConnection, At
  <2>3. /\ txn' \in TxnType /\ txn'.kind = "connection" /\ txn'.target = txn.target
        /\ txn'.reconnect = txn.reconnect
        /\ txn'.phase = IF txn.reconnect THEN "restoring_path" ELSE "discovering_path"
    <3>1. {"restoring_path", "discovering_path"} \subseteq AnyPhase
      BY DEF AnyPhase, Phases
    <3> QED
      BY <1>0, <1>1, <2>2, <3>1 DEF TxnType
  <2>4. StageOK' /\ DirsOK' /\ WalkOwned' /\ Where' = Dir /\ Going' = txn.target
    BY <1>0, <2>2, <2>3 DEF Session, StageOK, DirsOK, WalkOwned, In, Where, Going
  <2>5. After(ReplyDue, Head(inbox).ok, Going, Where) \subseteq Where'
    BY <1>1, <2>1, <2>4, Moved, ControlAssumption
  <2>6. PICK name \in {"cd", "pwd"}, dir \in Dir \cup {NoDir} :
          Issue(name, dir) /\ (name = "cd" => dir = Going')
    BY <1>1, <2>2, <2>4 DEF TxnType
  <2>7. name \in Commands /\ name \notin {"ls", "cd_rollback"}
    BY DEF Commands
  <2> QED
    BY <1>0, <1>1, <2>2, <2>3, <2>4, <2>5, <2>6, <2>7, ReplyThenCommand
<1>7. CASE txn.phase \in {"discovering_path", "restoring_path"}
  <2>1. /\ stage = "connected" /\ Head(inbox).ok
        /\ ReplyDue = IF txn.phase = "discovering_path" THEN "pwd" ELSE "cd"
        /\ Where = Dir /\ Going = txn.target
        /\ txn.reconnect <=> txn.phase = "restoring_path"
    <3>1. stage = "connected"
      BY <1>2, <1>3, <1>7
    <3> QED
      BY <1>0, <1>1, <1>4, <1>7, <3>1 DEF Awaited, Where, Going, In, Session, DirsOK
  <2>2. /\ UNCHANGED <<stage, view, walk>> /\ staged' = {} /\ Issue("ls", NoDir)
        /\ txn' = [txn EXCEPT !.phase = "listing",
                              !.target = IF txn.reconnect THEN @ ELSE Head(inbox).dir]
    BY <1>7 DEF CompleteConnection, Advance, At
  <2>3. PICK to \in Dir : /\ to = IF txn.reconnect THEN txn.target ELSE Head(inbox).dir
                          /\ txn' = [txn EXCEPT !.phase = "listing", !.target = to]
    <3>1. txn.reconnect => txn.target \in Dir
      BY <1>0 DEF Session, DirsOK
    <3>2. ~txn.reconnect => Head(inbox).dir \in Dir
      BY <1>1, <1>7, <2>1, Moved
    <3> QED
      BY <2>2, <3>1, <3>2
  <2>4. /\ txn' \in TxnType /\ txn'.kind = "connection" /\ txn'.phase = "listing"
        /\ txn'.target = to
    BY <1>0, <1>1, <2>3, AnyPhases DEF TxnType
  <2>5. StageOK' /\ DirsOK' /\ WalkOwned' /\ Where' = {to}
    BY <1>0, <2>1, <2>2, <2>4 DEF Session, StageOK, DirsOK, WalkOwned, In, Where
  <2>6. \/ After(ReplyDue, Head(inbox).ok, Going, Where) \subseteq Where'
        \/ ReplyDue = "pwd" /\ Head(inbox).dir \in Where'
    BY <1>1, <1>7, <2>1, <2>3, <2>5, Moved
  <2>7. "ls" \in Commands
    BY DEF Commands
  <2> QED
    BY <1>0, <1>1, <2>1, <2>2, <2>4, <2>5, <2>6, <2>7, ReplyThenCommand
<1>8. CASE txn.phase = "listing"
  <2>1. /\ stage = "connected" /\ ReplyDue = "ls" /\ command = "ls"
        /\ Where = {txn.target} /\ txn.target \in Dir
    <3>1. stage = "connected"
      BY <1>2, <1>3, <1>8
    <3> QED
      BY <1>0, <1>1, <1>8, <3>1 DEF Awaited, Where, In, Session, DirsOK
  <2>2. /\ path' = txn.target /\ items' = staged /\ Reset
        /\ UNCHANGED <<stage, refresh, helper, walk>>
    BY <1>8 DEF CompleteConnection, Shown, CommitStagedListing
  <2>3. items' \subseteq {path'}
    BY <2>1, <2>2 DEF Session, StagedOK
  <2>4. After(ReplyDue, Head(inbox).ok, Going, Where) \subseteq {path'}
    BY <1>1, <2>1, <2>2, Moved
  <2> QED
    BY <1>0, <1>1, <2>1, <2>2, <2>3, <2>4, ReplyThenFree
<1> QED
  BY <1>1, <1>5, <1>6, <1>7, <1>8

\* A reply was the last thing in the pipe: nobody is asking.
LEMMA NoQuestion ==
  ASSUME Session, Live, Got({"reply", "done"})
  PROVE  sec = "idle" /\ modals = 0
<1>1. PICK dirs : Wire("none", NoDir, dirs, helper, Tail(inbox), sec)
  BY Hear, LeftTyped
<1>2. sec = "idle"
  BY <1>1 DEF Wire, Dead, Idle, Starts, Unread, Works, Asks, Replied, Still, Commands
<1> QED
  BY <1>2 DEF Session, ModalOK

\* An attempt to reconnect fails; the next one waits, the helper is left or stopped.
LEMMA RetrySession ==
  ASSUME Session, txn.kind = "connection", txn.reconnect,
         NEW tries \in 0 .. MaxTries,
         txn' = [txn EXCEPT !.phase = "retry_wait", !.attempts = tries],
         command' = "none", stage' = "idle", staged' \subseteq Dir,
         UNCHANGED <<view, walk, asked>>,
         pc' \in {"ui", "drain", "tick"}, sec' = "idle", modals' = 0,
         helper' \in HelperType, helper'.cmd # NoLine <=> helper'.proc \in {"exec", "prompt"},
         inbox' \in Seq(MessageType), left' \in 0 .. Len(inbox'),
         AliveOK', Abandoned(helper', inbox', sec')
  PROVE  Session'
<1>1. UNCHANGED <<path, items, refresh>>
  BY DEF view
<1>2. /\ txn' \in TxnType /\ txn'.kind = "connection" /\ txn'.phase = "retry_wait"
      /\ txn'.reconnect /\ txn'.target = txn.target
  BY AnyPhases DEF Session, TypeOK, TxnType
<1>3. TypeOK'
  <2>1. txn'.phase \in Phases[txn'.kind]
    BY <1>2 DEF Phases
  <2>2. TypeOK
    BY DEF Session
  <2> QED
    BY <1>1, <1>2, <2>1, <2>2 DEF TypeOK
<1>4. StageOK' /\ DirsOK'
  BY <1>2 DEF Session, StageOK, DirsOK, In
<1>5. WireOK'
  BY DEF WireOK, Live
<1>6. ModalOK' /\ StagedOK' /\ ItemsOfPath' /\ WalkOwned'
  BY <1>1 DEF Session, ModalOK, StagedOK, ItemsOfPath, WalkOwned
<1> QED
  BY <1>3, <1>4, <1>5, <1>6 DEF Session

\* There is no session any more.
LEMMA OverSession ==
  ASSUME Session, Reset, stage' = "failed", UNCHANGED <<view, asked>>,
         walk' = "none", pc' \in {"ui", "drain", "tick"}, sec' = "idle", modals' = 0,
         helper' \in HelperType, helper'.cmd # NoLine <=> helper'.proc \in {"exec", "prompt"},
         inbox' \in Seq(MessageType), left' \in 0 .. Len(inbox'),
         AliveOK', Abandoned(helper', inbox', sec')
  PROVE  Session'
<1>1. UNCHANGED <<path, items, refresh>>
  BY DEF view
<1>2. /\ txn' \in TxnType /\ txn'.kind = "none" /\ txn'.phase = "idle"
      /\ command' = "none" /\ staged' = {}
  BY TxnTyped, AnyPhases DEF Reset, NoTxn, Txn
<1>3. TypeOK'
  <2>1. txn'.phase \in Phases[txn'.kind]
    BY <1>2 DEF Phases
  <2>2. TypeOK
    BY DEF Session
  <2> QED
    BY <1>1, <1>2, <2>1, <2>2 DEF TypeOK
<1>4. StageOK' /\ DirsOK'
  BY <1>2 DEF StageOK, DirsOK, In
<1>5. WireOK'
  BY DEF WireOK, Live
<1>6. ModalOK' /\ StagedOK' /\ ItemsOfPath' /\ WalkOwned'
  BY <1>1, <1>2 DEF Session, ModalOK, StagedOK, ItemsOfPath, WalkOwned
<1> QED
  BY <1>3, <1>4, <1>5, <1>6 DEF Session

\* The attempts are counted as they are.
LEMMA RetryAt ==
  ASSUME Session, txn' = At("retry_wait")
  PROVE  \E tries \in 0 .. MaxTries :
           txn' = [txn EXCEPT !.phase = "retry_wait", !.attempts = tries]
<1>1. txn.attempts \in 0 .. MaxTries /\ txn \in TxnType
  BY DEF Session, TypeOK, TxnType
<1>2. txn' = [txn EXCEPT !.phase = "retry_wait", !.attempts = txn.attempts]
  BY <1>1 DEF At, TxnType
<1> QED
  BY <1>1, <1>2

\* A helper that was stopped.
LEMMA Stopped ==
  ASSUME Stop, sec' = "idle"
  PROVE  /\ helper' \in HelperType
         /\ (helper'.cmd # NoLine <=> helper'.proc \in {"exec", "prompt"})
         /\ inbox' \in Seq(MessageType) /\ left' \in 0 .. Len(inbox')
         /\ AliveOK' /\ Abandoned(helper', inbox', sec')
<1>1. /\ helper' = Off /\ Off.cmd = NoLine /\ Off.proc = "off" /\ Len(Off.stdin) = 0
      /\ inbox' = <<>> /\ Len(inbox') = 0 /\ left' = 0
  BY DEF Stop, Off
<1> QED
  BY <1>1, OffTyped DEF AliveOK, Abandoned

\* The handshake fails, by a reply or in time.
LEMMA ConnectionFailedSession ==
  ASSUME Session, txn.kind = "connection", ConnectionFailed, UNCHANGED <<walk, prompt>>,
         pc' \in {"ui", "drain", "tick"}, sec = "idle"
  PROVE  Session'
<1>1. /\ UNCHANGED <<sec, asked, modals, walk>> /\ sec' = "idle" /\ modals' = 0
      /\ walk = "none"
  BY DEF prompt, Session, ModalOK, WalkOwned
<1>2. CASE txn.reconnect
  <2>1. txn' = At("retry_wait") /\ staged' \subseteq Dir
    BY <1>2 DEF ConnectionFailed, Session, TypeOK
  <2>2. PICK tries \in 0 .. MaxTries :
          txn' = [txn EXCEPT !.phase = "retry_wait", !.attempts = tries]
    BY <2>1, RetryAt
  <2> QED
    BY <1>1, <1>2, <2>1, <2>2, Stopped, RetrySession DEF ConnectionFailed
<1>3. CASE ~txn.reconnect
  BY <1>1, <1>3, Stopped, OverSession DEF ConnectionFailed
<1> QED
  BY <1>2, <1>3

\* A step of the handshake fails (fail_flow).
LEMMA FailConnectionSession == ASSUME Inv, Inv', Session, FailConnection PROVE Session'
<1>1. /\ Got({"reply", "done"}) /\ Live /\ ReplyDue = command /\ command = Awaited
      /\ txn.kind = "connection" /\ UNCHANGED <<pc, walk, prompt>>
      /\ path \in Dir /\ refresh \in Dir \cup {NoDir} /\ walk = "none"
      /\ pc' \in {"ui", "drain", "tick"}
  BY Completing DEF FailConnection, Session, TypeOK, WalkOwned
<1>2. CASE ConnectionFailed
  BY <1>1, <1>2, NoQuestion, ConnectionFailedSession
<1>3. CASE ~ConnectionFailed
  <2>1. /\ In("connection", "listing") /\ path' = txn.target /\ items' = {} /\ Reset
        /\ Popped /\ UNCHANGED <<stage, refresh, helper>>
    BY <1>3 DEF FailConnection
  <2>2. /\ txn.target \in Dir /\ ReplyDue = "ls" /\ stage = "connected"
        /\ Where = {txn.target}
    <3>1. stage = "connected"
      BY <1>1, <2>1, Completing DEF Session, StageOK, FailConnection, In
    <3> QED
      BY <1>1, <2>1, <3>1 DEF Session, DirsOK, Awaited, In, Where
  <2>3. After(ReplyDue, Head(inbox).ok, Going, Where) \subseteq {path'}
    BY <1>1, <2>1, <2>2, Moved
  <2> QED
    BY <1>1, <2>1, <2>2, <2>3, ReplyThenFree
<1> QED
  BY <1>2, <1>3

\* A listing that is shown belongs to the path it is shown with.
LEMMA ShownSession ==
  ASSUME Inv, Inv', Session, Completes, command = "ls", stage = "connected",
         NEW dir \in Dir, Where = {dir}, Shown(dir),
         walk' = "none"
  PROVE  Session'
<1>1. /\ Got({"reply", "done"}) /\ Live /\ ReplyDue = "ls" /\ refresh \in Dir \cup {NoDir}
  BY Completing
<1>2. /\ path' = dir /\ items' = staged /\ Reset /\ Popped
      /\ UNCHANGED <<pc, stage, refresh, prompt, helper>>
  BY DEF Shown, CommitStagedListing
<1>3. items' \subseteq {path'}
  BY <1>2 DEF Session, StagedOK
<1>4. After(ReplyDue, Head(inbox).ok, Going, Where) \subseteq {path'}
  BY <1>1, <1>2, Moved
<1> QED
  BY <1>1, <1>2, <1>3, <1>4, ReplyThenFree

\* A flow that ends where it was.
LEMMA FreeSession ==
  ASSUME Inv, Inv', Session, Completes \/ Fails, stage = "connected", Free,
         path' = path, items' = items, refresh' = refresh, walk' = "none",
         After(ReplyDue, Head(inbox).ok, Going, Where) \subseteq {path}
  PROVE  Session'
<1>1. /\ Got({"reply", "done"}) /\ Live /\ path \in Dir /\ items \subseteq {path}
      /\ refresh \in Dir \cup {NoDir}
  BY Completing
<1>2. Reset /\ Popped /\ UNCHANGED <<pc, stage, prompt, helper>>
  BY DEF Free
<1> QED
  BY <1>1, <1>2, ReplyThenFree

\* The facts of a reply in a session that browses.
LEMMA Browsing ==
  ASSUME Inv, Session, Completes \/ Fails, txn.kind # "connection"
  PROVE  /\ Got({"reply", "done"}) /\ Live /\ ReplyDue = command /\ command = Awaited
         /\ PhaseOK /\ stage = "connected" /\ txn \in TxnType
         /\ path \in Dir /\ items \subseteq {path} /\ refresh \in Dir \cup {NoDir}
         /\ staged \subseteq Dir
         /\ Completes => Head(inbox).ok
         /\ Fails => ~Head(inbox).ok
         /\ txn.kind \notin {"rec_download", "rec_upload"} => walk = "none"
         /\ walk \in {"none", "open", "waiting", "stuck", "cancelled"}
<1>1. /\ Got({"reply", "done"}) /\ Live /\ ReplyDue = command /\ command = Awaited
      /\ PhaseOK /\ stage = "connected" /\ txn \in TxnType
      /\ path \in Dir /\ items \subseteq {path} /\ refresh \in Dir \cup {NoDir}
      /\ staged \subseteq Dir
  BY Completing
<1>2. (Completes => Head(inbox).ok) /\ (Fails => ~Head(inbox).ok)
  BY <1>1, Moved DEF Completes, Fails, In
<1>3. /\ txn.kind \notin {"rec_download", "rec_upload"} => walk = "none"
      /\ walk \in {"none", "open", "waiting", "stuck", "cancelled"}
  BY DEF Session, WalkOwned, TypeOK
<1> QED
  BY <1>1, <1>2, <1>3

\* The next phase of a flow.
LEMMA AtTyped ==
  ASSUME txn \in TxnType, NEW phase \in AnyPhase, txn' = At(phase)
  PROVE  /\ txn' \in TxnType /\ txn'.kind = txn.kind /\ txn'.phase = phase
         /\ txn'.target = txn.target /\ txn'.source = txn.source
         /\ txn'.cmds = txn.cmds
BY DEF At, TxnType

\* A `cd', its listing and its rollback succeed (complete_flow).
LEMMA CompleteNavigationSession ==
  ASSUME Inv, Inv', Session, CompleteNavigation PROVE Session'
<1>0. Completes /\ txn.kind = "navigation"
  BY DEF CompleteNavigation
<1>1. /\ Got({"reply", "done"}) /\ Live /\ ReplyDue = Awaited /\ command = Awaited
      /\ stage = "connected" /\ txn \in TxnType
      /\ path \in Dir /\ items \subseteq {path} /\ refresh \in Dir \cup {NoDir}
      /\ staged \subseteq Dir /\ Head(inbox).ok /\ walk = "none" /\ command # "none"
      /\ txn.phase \in Phases.navigation
  BY <1>0, Browsing DEF PhaseOK, Completes
<1>2. txn.target \in Dir /\ txn.source = path
  BY <1>0 DEF Session, DirsOK
<1>3. CASE txn.phase = "changing_directory"
  <2>1. ReplyDue = "cd" /\ Going = txn.target
    BY <1>0, <1>1, <1>3 DEF Awaited, Going, In
  <2>2. After(ReplyDue, Head(inbox).ok, Going, Where) = {txn.target}
    BY <1>1, <2>1, Moved
  <2>3. /\ Popped /\ UNCHANGED <<pc, stage, view, walk, prompt>>
        /\ \/ txn' = At("listing_destination") /\ staged' = {} /\ Issue("ls", NoDir)
           \/ txn' = At("waiting_to_list") /\ Quiet /\ UNCHANGED staged
    BY <1>3 DEF CompleteNavigation, Advance
  <2>4. /\ txn' \in TxnType /\ txn'.kind = "navigation"
        /\ txn'.phase \in {"listing_destination", "waiting_to_list"}
        /\ txn'.target = txn.target /\ txn'.source = txn.source
    <3>1. {"listing_destination", "waiting_to_list"} \subseteq AnyPhase
      BY DEF AnyPhase, Phases
    <3> QED
      BY <1>0, <1>1, <2>3, <3>1, AtTyped
  <2>5. StageOK' /\ DirsOK' /\ WalkOwned' /\ Where' = {txn.target}
    BY <1>1, <1>2, <2>3, <2>4 DEF StageOK, DirsOK, WalkOwned, In, Where, view
  <2>6. CASE staged' = {} /\ Issue("ls", NoDir)
    <3>1. "ls" \in Commands
      BY DEF Commands
    <3> QED
      BY <1>1, <2>2, <2>3, <2>4, <2>5, <2>6, <3>1, ReplyThenCommand
  <2>7. CASE Quiet /\ UNCHANGED staged
    BY <1>1, <2>2, <2>3, <2>4, <2>5, <2>7, ReplyThenNone DEF Quiet, view
  <2> QED
    BY <2>3, <2>6, <2>7
<1>4. CASE txn.phase = "listing_destination"
  <2>1. command = "ls" /\ Where = {txn.target}
    BY <1>0, <1>1, <1>4 DEF Awaited, Where, In
  <2>2. Shown(txn.target) /\ walk' = "none"
    BY <1>1, <1>4 DEF CompleteNavigation
  <2> QED
    BY <1>0, <1>1, <1>2, <2>1, <2>2, ShownSession
<1>5. CASE txn.phase = "rolling_back"
  <2>1. ReplyDue = "cd_rollback" /\ Going = path
    BY <1>0, <1>1, <1>2, <1>5 DEF Awaited, Going, In
  <2>2. After(ReplyDue, Head(inbox).ok, Going, Where) = {path}
    BY <1>1, <2>1, Moved
  <2>3. Free /\ walk' = "none" /\ UNCHANGED view
    BY <1>1, <1>5 DEF CompleteNavigation, Free
  <2> QED
    BY <1>0, <1>1, <2>2, <2>3, FreeSession DEF view
<1>6. txn.phase # "waiting_to_list"
  BY <1>0, <1>1 DEF Awaited
<1> QED
  BY <1>1, <1>3, <1>4, <1>5, <1>6 DEF Phases

\* They fail (fail_flow).
LEMMA FailNavigationSession ==
  ASSUME Inv, Inv', Session, FailNavigation PROVE Session'
<1>0. Fails /\ txn.kind = "navigation"
  BY DEF FailNavigation
<1>1. /\ Got({"reply", "done"}) /\ Live /\ ReplyDue = Awaited /\ command = Awaited
      /\ stage = "connected" /\ txn \in TxnType
      /\ path \in Dir /\ items \subseteq {path} /\ refresh \in Dir \cup {NoDir}
      /\ staged \subseteq Dir /\ ~Head(inbox).ok /\ walk = "none" /\ command # "none"
      /\ txn.phase \in Phases.navigation
  BY <1>0, Browsing DEF PhaseOK, Fails
<1>2. txn.target \in Dir /\ txn.source = path
  BY <1>0 DEF Session, DirsOK
<1>3. CASE txn.phase = "changing_directory"
  <2>1. After(ReplyDue, Head(inbox).ok, Going, Where) = {path}
    <3>1. Where = {path}
      BY <1>0, <1>1, <1>3 DEF Where, In
    <3> QED
      BY <1>1, <3>1, Moved
  <2>2. Free /\ walk' = "none" /\ UNCHANGED view
    BY <1>1, <1>3 DEF FailNavigation, Free
  <2> QED
    BY <1>0, <1>1, <2>1, <2>2, FreeSession DEF view
<1>4. CASE txn.phase = "listing_destination"
  <2>1. /\ Popped /\ UNCHANGED <<pc, stage, view, walk, prompt>>
        /\ txn' = At("rolling_back") /\ staged' = {} /\ Issue("cd_rollback", txn.source)
    BY <1>4 DEF FailNavigation, Advance
  <2>2. /\ txn' \in TxnType /\ txn'.kind = "navigation" /\ txn'.phase = "rolling_back"
        /\ txn'.target = txn.target /\ txn'.source = txn.source
    <3>1. "rolling_back" \in AnyPhase
      BY DEF AnyPhase, Phases
    <3> QED
      BY <1>0, <1>1, <2>1, <3>1, AtTyped
  <2>3. /\ StageOK' /\ DirsOK' /\ WalkOwned' /\ Where' = Dir /\ Going' = txn.source
    BY <1>1, <1>2, <2>1, <2>2 DEF StageOK, DirsOK, WalkOwned, In, Where, Going, view
  <2>4. After(ReplyDue, Head(inbox).ok, Going, Where) \subseteq Where'
    <3>1. Where = {txn.target}
      BY <1>0, <1>1, <1>4 DEF Where, In
    <3> QED
      BY <1>1, <1>2, <2>3, <3>1, Moved
  <2>5. "cd_rollback" \in Commands /\ txn.source \in Dir \cup {NoDir}
    BY <1>1, <1>2 DEF Commands
  <2> QED
    BY <1>1, <2>1, <2>2, <2>3, <2>4, <2>5, ReplyThenCommand
<1>5. CASE txn.phase = "rolling_back"
  BY <1>1, <1>5, ReplyThenRecover DEF FailNavigation
<1>6. txn.phase # "waiting_to_list"
  BY <1>0, <1>1 DEF Awaited
<1> QED
  BY <1>1, <1>3, <1>4, <1>5, <1>6 DEF Phases

\* The other kinds run where the pane is.
LEMMA OneShotSession ==
  ASSUME Inv, Inv', Session, CompleteOneShot \/ FailOneShot PROVE Session'
<1>0. (Completes \/ Fails) /\ txn.kind \in {"refresh", "mutation", "keepalive"}
  BY DEF CompleteOneShot, FailOneShot, In
<1>1. /\ Got({"reply", "done"}) /\ Live /\ ReplyDue = Awaited /\ command = Awaited
      /\ stage = "connected" /\ txn \in TxnType
      /\ path \in Dir /\ items \subseteq {path} /\ refresh \in Dir \cup {NoDir}
      /\ staged \subseteq Dir /\ walk = "none" /\ PhaseOK
  BY <1>0, Browsing
<1>2. Where = {path} /\ ReplyDue \notin {"open", "cd", "cd_rollback"}
  BY <1>0, <1>1 DEF Where, In, Awaited, PhaseOK, Phases
<1>3. After(ReplyDue, Head(inbox).ok, Going, Where) = {path}
  BY <1>1, <1>2, Moved
<1>4. ASSUME Shown(path) /\ UNCHANGED walk,
             Completes, txn.kind = "refresh" \/ txn.phase # "executing",
             txn.kind # "keepalive"
      PROVE  Session'
  <2>1. command = "ls"
    BY <1>0, <1>1, <1>4 DEF Awaited, PhaseOK, Phases
  <2> QED
    BY <1>1, <1>2, <1>4, <2>1, ShownSession
<1>5. ASSUME Free /\ UNCHANGED walk PROVE Session'
  <2>1. UNCHANGED view
    BY <1>5 DEF Free
  <2> QED
    BY <1>0, <1>1, <1>3, <1>5, <2>1, FreeSession DEF view
<1>6. ASSUME NEW phase \in {"listing_after_success", "listing_after_failure"},
             txn.kind = "mutation", Advance(At(phase)), staged' = {}, Issue("ls", NoDir)
      PROVE  Session'
  <2>1. /\ Popped /\ UNCHANGED <<pc, stage, view, walk, prompt>> /\ txn' = At(phase)
    BY <1>6 DEF Advance
  <2>2. txn' \in TxnType /\ txn'.kind = "mutation"
    <3>1. phase \in AnyPhase
      BY DEF AnyPhase, Phases
    <3> QED
      BY <1>1, <1>6, <2>1, <3>1, AtTyped
  <2>3. StageOK' /\ DirsOK' /\ WalkOwned' /\ Where' = {path} /\ "ls" \in Commands
    BY <1>1, <2>1, <2>2 DEF StageOK, DirsOK, WalkOwned, In, Where, view, Commands
  <2> QED
    BY <1>1, <1>3, <1>6, <2>1, <2>2, <2>3, ReplyThenCommand
<1>7. CASE CompleteOneShot
  BY <1>4, <1>5, <1>6, <1>7 DEF CompleteOneShot, In
<1>8. CASE FailOneShot
  BY <1>1, <1>5, <1>6, <1>8, ReplyThenRecover DEF FailOneShot, In
<1> QED
  BY <1>7, <1>8

\* A walk runs where the pane is, with commands that do not move the helper.
LEMMA Walking ==
  ASSUME Inv, Session, Completes \/ Fails,
         txn.kind \in {"rec_download", "rec_delete", "rec_upload"}
  PROVE  /\ Got({"reply", "done"}) /\ Live /\ ReplyDue = Awaited /\ command = Awaited
         /\ stage = "connected" /\ txn \in TxnType
         /\ path \in Dir /\ items \subseteq {path} /\ refresh \in Dir \cup {NoDir}
         /\ staged \subseteq Dir /\ PhaseOK /\ txn.phase # "collecting"
         /\ walk \in {"none", "open", "waiting", "stuck", "cancelled"}
         /\ txn.kind = "rec_delete" => walk = "none"
         /\ Where = {path} /\ After(ReplyDue, Head(inbox).ok, Going, Where) = {path}
<1>1. /\ Got({"reply", "done"}) /\ Live /\ ReplyDue = Awaited /\ command = Awaited
      /\ stage = "connected" /\ txn \in TxnType
      /\ path \in Dir /\ items \subseteq {path} /\ refresh \in Dir \cup {NoDir}
      /\ staged \subseteq Dir /\ PhaseOK
      /\ walk \in {"none", "open", "waiting", "stuck", "cancelled"}
      /\ txn.kind = "rec_delete" => walk = "none"
      /\ command # "none"
  BY Browsing DEF Completes, Fails
<1>2. /\ Where = {path} /\ ReplyDue \notin {"open", "cd", "cd_rollback"}
      /\ txn.phase # "collecting"
  BY <1>1 DEF Where, In, Awaited, PhaseOK, Phases
<1>3. After(ReplyDue, Head(inbox).ok, Going, Where) = {path}
  BY <1>1, <1>2, Moved
<1> QED
  BY <1>1, <1>2, <1>3

\* It goes on collecting,
LEMMA WalkCollects ==
  ASSUME Inv, Inv', Session, Completes \/ Fails,
         txn.kind \in {"rec_download", "rec_delete", "rec_upload"},
         NEW stack \in Nat, NEW cmds \in Nat,
         txn' = [At("collecting") EXCEPT !.stack = stack, !.cmds = cmds],
         Quiet, Popped, UNCHANGED <<pc, stage, view, prompt>>, staged' = {} \/ UNCHANGED staged,
         walk' = walk \/ (walk' = "waiting" /\ txn.kind = "rec_download")
  PROVE  Session'
<1>1. /\ txn' \in TxnType /\ txn'.kind = txn.kind /\ txn'.phase = "collecting"
  BY Walking, AnyPhases DEF At, TxnType
<1>2. StageOK' /\ DirsOK' /\ WalkOwned' /\ Where' = {path}
  BY <1>1, Walking DEF Session, StageOK, DirsOK, WalkOwned, In, Where, view
<1>3. /\ walk' \in {"none", "open", "waiting", "stuck", "cancelled"}
      /\ path' = path /\ items' = items /\ refresh' = refresh
      /\ command' = "none" /\ UNCHANGED helper /\ staged' \subseteq Dir
  BY Walking DEF view, Quiet
<1> QED
  BY <1>1, <1>2, <1>3, Walking, ReplyThenNone

\* goes on with a command,
LEMMA WalkCommands ==
  ASSUME Inv, Inv', Session, Completes \/ Fails,
         txn.kind \in {"rec_download", "rec_delete", "rec_upload"},
         NEW phase \in {"probing_mkdir", "listing_after_abort"},
         phase = "probing_mkdir" => txn.cmds > 0,
         Advance(At(phase)), staged' = {},
         NEW name \in {"rls", "ls"}, NEW dir \in Dir \cup {NoDir}, Issue(name, dir),
         name = "rls" => dir \in Dir
  PROVE  Session'
<1>1. Popped /\ UNCHANGED <<pc, stage, view, walk, prompt>> /\ txn' = At(phase)
  BY DEF Advance
<1>2. phase \in AnyPhase /\ name \in Commands
  BY DEF AnyPhase, Phases, Commands
<1>3. txn' \in TxnType /\ txn'.kind = txn.kind /\ txn'.phase = phase /\ txn'.cmds = txn.cmds
  BY <1>1, <1>2, Walking, AtTyped
<1>4. StageOK' /\ DirsOK' /\ WalkOwned' /\ Where' = {path}
  BY <1>1, <1>3, Walking DEF Session, StageOK, DirsOK, WalkOwned, In, Where, view
<1> QED
  BY <1>1, <1>2, <1>3, <1>4, Walking, ReplyThenCommand

\* or is over.
LEMMA WalkEnds ==
  ASSUME Inv, Inv', Session, Completes \/ Fails,
         txn.kind \in {"rec_download", "rec_delete", "rec_upload"},
         Free \/ (Completes /\ command = "ls" /\ Shown(path)),
         walk' = "none"
  PROVE  Session'
<1>1. CASE Free
  <2>1. UNCHANGED view
    BY <1>1 DEF Free
  <2> QED
    BY <1>1, <2>1, Walking, FreeSession DEF view
<1>2. CASE Completes /\ command = "ls" /\ Shown(path)
  BY <1>2, Walking, ShownSession
<1> QED
  BY <1>1, <1>2

\* A directory of a recursive download is listed, or cannot be.
LEMMA RecDownloadSession ==
  ASSUME Inv, Inv', Session, CompleteRecDownload \/ FailRecDownload PROVE Session'
<1>1. CASE CompleteRecDownload
  <2>1. Completes /\ txn.kind = "rec_download"
    BY <1>1 DEF CompleteRecDownload
  <2>2. PICK n \in 0 .. MaxWork - txn.stack :
          txn' = [At("collecting") EXCEPT !.stack = @ + n]
    BY <1>1 DEF CompleteRecDownload
  <2>3. PICK stack \in Nat : stack = txn.stack + n
    BY <2>1, Walking, ControlAssumption DEF TxnType
  <2>4. /\ txn.cmds \in Nat
        /\ txn' = [At("collecting") EXCEPT !.stack = stack, !.cmds = txn.cmds]
    BY <2>1, <2>2, <2>3, Walking DEF At, TxnType
  <2>5. /\ Quiet /\ Popped /\ UNCHANGED <<pc, stage, view, prompt>> /\ staged' = {}
        /\ walk' = walk \/ walk' = "waiting"
    BY <1>1 DEF CompleteRecDownload
  <2> QED
    BY <2>1, <2>4, <2>5, WalkCollects
<1>2. CASE FailRecDownload
  BY <1>2, WalkEnds DEF FailRecDownload
<1> QED
  BY <1>1, <1>2

\* One command of a walk is done.
LEMMA CommandDone ==
  ASSUME Inv, Inv', Session, Completes \/ Fails, txn.kind \in {"rec_delete", "rec_upload"},
         txn.phase \in {"executing", "probing_mkdir"},
         Advance([At("collecting") EXCEPT !.cmds = @ - 1]), Quiet, UNCHANGED view,
         staged' = {} \/ UNCHANGED staged
  PROVE  Session'
<1>1. /\ Popped /\ UNCHANGED <<pc, stage, view, walk, prompt>>
      /\ txn' = [At("collecting") EXCEPT !.cmds = @ - 1]
  BY DEF Advance
<1>2. txn.cmds - 1 \in Nat /\ txn.stack \in Nat
  <2>1. txn.cmds > 0
    BY DEF Session, DirsOK
  <2> QED
    BY <2>1, Walking DEF TxnType
<1>3. txn' = [At("collecting") EXCEPT !.stack = txn.stack, !.cmds = txn.cmds - 1]
  BY <1>1, Walking DEF At, TxnType
<1> QED
  BY <1>1, <1>2, <1>3, WalkCollects

\* The same of a recursive delete, whose commands may fail one by one.
LEMMA RecDeleteSession ==
  ASSUME Inv, Inv', Session, CompleteRecDelete \/ FailRecDelete PROVE Session'
<1>0. (Completes \/ Fails) /\ txn.kind = "rec_delete"
  BY DEF CompleteRecDelete, FailRecDelete
<1>1. /\ txn.phase \in {"listing", "executing", "listing_result"} /\ walk = "none"
      /\ command = Awaited /\ txn \in TxnType
  BY <1>0, Walking DEF PhaseOK, Phases
<1>2. CASE txn.phase = "listing" /\ CompleteRecDelete
  <2>1. PICK dirs \in 0 .. MaxWork, files \in 0 .. MaxWork :
          /\ Advance([At("collecting") EXCEPT
                        !.stack = @ + dirs, !.cmds = Counted(txn, dirs + files)])
          /\ staged' = {} /\ Quiet
    BY <1>2 DEF CompleteRecDelete
  <2>2. PICK stack \in Nat, cmds \in Nat :
          stack = txn.stack + dirs /\ cmds = Counted(txn, dirs + files)
    BY <1>1, ControlAssumption DEF TxnType, Counted
  <2>3. /\ Popped /\ UNCHANGED <<pc, stage, view, walk, prompt>>
        /\ txn' = [At("collecting") EXCEPT !.stack = stack, !.cmds = cmds]
    BY <1>1, <2>1, <2>2 DEF Advance, At, TxnType
  <2> QED
    BY <1>0, <2>1, <2>3, WalkCollects
<1>3. CASE txn.phase = "listing_result" /\ CompleteRecDelete
  <2>1. command = "ls"
    BY <1>0, <1>1, <1>3 DEF Awaited
  <2> QED
    BY <1>0, <1>1, <1>3, <2>1, WalkEnds DEF CompleteRecDelete
<1>4. CASE txn.phase = "executing"
  BY <1>0, <1>4, CommandDone DEF CompleteRecDelete, FailRecDelete
<1>5. CASE txn.phase \in {"listing", "listing_result"} /\ FailRecDelete
  BY <1>0, <1>1, <1>5, WalkEnds DEF FailRecDelete
<1> QED
  BY <1>1, <1>2, <1>3, <1>4, <1>5

\* And of a recursive upload, which probes the directory it could not make.
LEMMA RecUploadSession ==
  ASSUME Inv, Inv', Session, CompleteRecUpload \/ FailRecUpload PROVE Session'
<1>0. (Completes \/ Fails) /\ txn.kind = "rec_upload"
  BY DEF CompleteRecUpload, FailRecUpload
<1>1. /\ txn.phase \in {"executing", "probing_mkdir", "listing_after_abort", "listing_result"}
      /\ command = Awaited
  BY <1>0, Walking DEF PhaseOK, Phases
<1>2. CASE AbortRecursiveUpload
  BY <1>0, <1>2, WalkCommands DEF AbortRecursiveUpload
<1>3. CASE txn.phase = "executing" /\ CompleteRecUpload
  BY <1>0, <1>3, CommandDone DEF CompleteRecUpload
<1>4. CASE txn.phase = "executing" /\ FailRecUpload
  <2>1. PICK dir \in Dir : Issue("rls", dir)
    BY <1>4 DEF FailRecUpload
  <2>2. txn.cmds > 0
    BY <1>0, <1>4 DEF Session, DirsOK
  <2>3. Advance(At("probing_mkdir")) /\ staged' = {}
    BY <1>4 DEF FailRecUpload
  <2> QED
    BY <1>0, <2>1, <2>2, <2>3, WalkCommands
<1>5. CASE txn.phase = "probing_mkdir" /\ ~AbortRecursiveUpload
  BY <1>0, <1>5, CommandDone DEF CompleteRecUpload, FailRecUpload
<1>6. CASE txn.phase \in {"listing_after_abort", "listing_result"}
  <2>1. command = "ls"
    BY <1>0, <1>1, <1>6 DEF Awaited
  <2>2. txn.phase = "listing_result" => walk = "none"
    BY <1>0 DEF Session, StageOK, In
  <2> QED
    BY <1>0, <1>6, <2>1, <2>2, WalkEnds DEF CompleteRecUpload, FailRecUpload
<1> QED
  BY <1>1, <1>2, <1>3, <1>4, <1>5, <1>6

\* What a message or a dialog changes where no flow moves.
LEMMA OnlyTheWire ==
  ASSUME Session, UNCHANGED <<stage, txn, command, view, walk>>,
         pc' \in {"ui", "drain", "tick"}, asked' \in BOOLEAN,
         sec' \in {"idle", "pending", "shown"}, modals' = IF sec' = "shown" THEN 1 ELSE 0,
         staged' \subseteq Dir, command = "ls" => staged' \subseteq Where,
         helper' \in HelperType, helper'.cmd # NoLine <=> helper'.proc \in {"exec", "prompt"},
         helper'.proc = helper.proc, helper'.alive = helper.alive,
         inbox' \in Seq(MessageType), left' \in 0 .. Len(inbox'),
         IF Live THEN Wire(ReplyDue, Going, Where, helper', inbox', sec')
         ELSE Abandoned(helper', inbox', sec')
  PROVE  Session'
<1>1. UNCHANGED <<path, items, refresh>>
  BY DEF view
<1>2. Live' = Live /\ ReplyDue' = ReplyDue /\ Going' = Going /\ Where' = Where
  BY <1>1 DEF Live, ReplyDue, Going, Where, In
<1>3. TypeOK'
  BY <1>1 DEF Session, TypeOK
<1>4. StageOK' /\ AliveOK' /\ DirsOK'
  BY <1>1 DEF Session, StageOK, AliveOK, DirsOK, In
<1>5. WireOK'
  BY <1>2 DEF WireOK
<1>6. ModalOK' /\ StagedOK' /\ ItemsOfPath' /\ WalkOwned'
  BY <1>1, <1>2 DEF Session, ModalOK, StagedOK, ItemsOfPath, WalkOwned
<1> QED
  BY <1>3, <1>4, <1>5, <1>6 DEF Session

\* A listing is of a directory.
LEMMA ListsAt == ASSUME Inv, Session, Live, command = "ls" PROVE Where \subseteq Dir
<1>1. /\ path \in Dir /\ txn.kind # "none" /\ txn.phase \notin {"retry_wait"}
      /\ stage \in {"idle", "greeting", "opening", "connected", "failed"}
  BY DEF Session, TypeOK, Inv, WireMatchesPhase, Awaited, PhaseOK
<1>2. txn.phase \notin {"waiting_greeting", "registering_key", "opening"}
  BY DEF Inv, WireMatchesPhase, Awaited
<1>3. stage = "connected"
  BY <1>1, <1>2 DEF Session, StageOK, Live, In
<1>4. txn.kind = "connection" => txn.phase = "listing"
  BY DEF Inv, WireMatchesPhase, Awaited, PhaseOK, Phases
<1> QED
  BY <1>1, <1>3, <1>4 DEF Where, In, Session, DirsOK

\* An entry joins the listing that asked for it (process).
LEMMA ListEntrySession == ASSUME Inv, Session, ListEntry PROVE Session'
<1>1. /\ UNCHANGED <<pc, stage, txn, command, view, walk, sec, asked, modals, helper>>
      /\ Got({"entry"}) /\ Popped
      /\ staged' = IF AcceptsListing THEN staged \cup {Head(inbox).dir} ELSE staged
  BY DEF ListEntry, prompt
<1>2. /\ Len(inbox) > 0 /\ Head(inbox).type = "entry"
      /\ inbox' = Tail(inbox) /\ inbox' \in Seq(MessageType) /\ left' \in 0 .. Len(inbox')
  BY <1>1, PopTyped
<1>3. /\ pc' \in {"ui", "drain", "tick"} /\ asked' \in BOOLEAN
      /\ sec' \in {"idle", "pending", "shown"} /\ modals' = IF sec' = "shown" THEN 1 ELSE 0
      /\ helper \in HelperType /\ inbox \in Seq(MessageType) /\ staged \subseteq Dir
      /\ helper'.cmd # NoLine <=> helper'.proc \in {"exec", "prompt"}
  BY <1>1 DEF Session, TypeOK, ModalOK
<1>4. CASE Live
  <2>1. Wire(ReplyDue, Going, Where, helper, inbox, sec)
    BY <1>4 DEF Session, WireOK
  <2>2. /\ EntryOf(ReplyDue, Where, Head(inbox))
        /\ Wire(ReplyDue, Going, Where, helper, inbox', sec)
    BY <1>2, <1>3, <2>1, ReadEntry
  <2>3. /\ Head(inbox).dir \in Dir
        /\ command = "ls" => Head(inbox).dir \in Where
    BY <1>4, <2>2, ListsAt DEF EntryOf, ReplyDue
  <2>4. staged' \subseteq Dir /\ (command = "ls" => staged' \subseteq Where)
    BY <1>1, <1>3, <2>3 DEF Session, StagedOK
  <2> QED
    BY <1>1, <1>2, <1>3, <1>4, <2>2, <2>4, OnlyTheWire
<1>5. CASE ~Live
  <2>1. Abandoned(helper, inbox', sec)
    BY <1>2, <1>3, <1>5, AbandonTail DEF Session, WireOK
  <2>2. staged' = staged
    BY <1>1, <1>5 DEF AcceptsListing, In, Session, StageOK, Live
  <2> QED
    BY <1>1, <1>2, <1>3, <1>5, <2>1, <2>2, OnlyTheWire DEF Session, StagedOK
<1> QED
  BY <1>4, <1>5

\* The helper asks for a secret (process).
LEMMA AskPasswordSession == ASSUME Session, AskPassword PROVE Session'
<1>1. /\ UNCHANGED <<pc, stage, txn, command, staged, view, walk, modals>>
      /\ Got({"ask"}) /\ Popped /\ asked' = TRUE
      /\ \/ helper' = Sent(Secret) /\ UNCHANGED sec
         \/ sec' = "pending" /\ UNCHANGED helper
  BY DEF AskPassword
<1>2. /\ Len(inbox) > 0 /\ Head(inbox).type = "ask"
      /\ inbox' = Tail(inbox) /\ inbox' \in Seq(MessageType) /\ left' \in 0 .. Len(inbox')
  BY <1>1, PopTyped
<1>3. /\ helper \in HelperType /\ inbox \in Seq(MessageType) /\ pc' \in {"ui", "drain", "tick"}
      /\ staged \subseteq Dir
      /\ helper.cmd # NoLine <=> helper.proc \in {"exec", "prompt"}
  BY <1>1 DEF Session, TypeOK
<1>4. Live
  BY <1>2, <1>3, AbandonTail DEF Session, WireOK
<1>5. /\ sec = "idle" /\ Wire(ReplyDue, Going, Where, helper, inbox', "pending")
      /\ Wire(ReplyDue, Going, Where, Written(helper, Secret), inbox', sec)
  <2>1. Wire(ReplyDue, Going, Where, helper, inbox, sec)
    BY <1>4 DEF Session, WireOK
  <2> QED
    BY <1>2, <1>3, <2>1, ReadAsk
<1>6. modals' = 0 /\ (command = "ls" => staged' \subseteq Where)
  BY <1>1, <1>5 DEF Session, ModalOK, StagedOK
<1>7. CASE helper' = Sent(Secret) /\ UNCHANGED sec
  <2>1. /\ helper' \in HelperType
        /\ (helper'.cmd # NoLine <=> helper'.proc \in {"exec", "prompt"})
        /\ helper'.proc = helper.proc /\ helper'.alive = helper.alive
    BY <1>7, SentTyped, SecretTyped DEF Session
  <2>2. helper' = Written(helper, Secret)
    BY <1>7 DEF Sent, Written
  <2> QED
    BY <1>1, <1>2, <1>3, <1>4, <1>5, <1>6, <1>7, <2>1, <2>2, OnlyTheWire
<1>8. CASE sec' = "pending" /\ UNCHANGED helper
  BY <1>1, <1>2, <1>3, <1>4, <1>5, <1>6, <1>8, OnlyTheWire
<1> QED
  BY <1>1, <1>7, <1>8

\* A reply nobody waits for is one of an abandoned helper.
LEMMA SkipTerminalSession == ASSUME Session, SkipTerminal PROVE Session'
<1>1. /\ UNCHANGED <<pc, stage, txn, command, staged, view, walk, sec, asked, modals, helper>>
      /\ Got({"reply", "done"}) /\ Popped /\ command = "none"
      /\ Head(inbox).type = "done" \/ ~In("connection", "waiting_greeting")
  BY DEF SkipTerminal, prompt
<1>2. /\ Len(inbox) > 0
      /\ inbox' = Tail(inbox) /\ inbox' \in Seq(MessageType) /\ left' \in 0 .. Len(inbox')
  BY <1>1, PopTyped
<1>3. ~Live
  BY <1>1, Hear, LeftTyped DEF ReplyDue, ReplyTo, Commands
<1>4. Abandoned(helper, inbox', sec)
  BY <1>2, <1>3, AbandonTail DEF Session, WireOK, TypeOK
<1> QED
  BY <1>1, <1>2, <1>3, <1>4, OnlyTheWire DEF Session, TypeOK, ModalOK, StagedOK

\* After a poll() has drained its batch it looks at the link.
LEMMA CheckLinkSession == ASSUME Inv, Inv', Session, CheckLink PROVE Session'
<1>1. /\ pc' = "tick" /\ RaisePrompt /\ UNCHANGED <<left, asked, helper, inbox>>
  BY DEF CheckLink, session
<1>2. /\ helper \in HelperType /\ inbox \in Seq(MessageType) /\ left \in 0 .. Len(inbox)
      /\ helper.cmd # NoLine <=> helper.proc \in {"exec", "prompt"}
      /\ asked \in BOOLEAN /\ staged \subseteq Dir /\ AliveOK
      /\ modals = IF sec = "shown" THEN 1 ELSE 0
      /\ sec \in {"idle", "pending", "shown"}
  BY DEF Session, TypeOK, ModalOK
<1>3. AliveOK'
  BY <1>1, <1>2 DEF AliveOK
<1>4. ASSUME Live, ~helper.alive
      PROVE  sec' = "idle" /\ modals' = 0 /\ Abandoned(helper', inbox', sec')
  <2>1. helper.proc = "off"
    BY <1>2, <1>4 DEF AliveOK
  <2>2. Abandoned(helper, inbox, sec)
    BY <1>2, <1>4, <2>1, Abandon DEF Session, WireOK
  <2>3. sec = "idle"
    BY <2>2 DEF Abandoned
  <2> QED
    BY <1>1, <1>2, <2>2, <2>3 DEF RaisePrompt
<1>5. CASE ~helper.alive /\ stage = "connected"
  <2>1. BeginRecover(TriesUsed) /\ UNCHANGED <<path, items>> /\ Live
    BY <1>5 DEF CheckLink, Live
  <2> QED
    BY <1>1, <1>2, <1>4, <1>5, <2>1, RecoverSession
<1>6. CASE ~helper.alive /\ HandshakeActive /\ stage # "connected"
  <2>1. Live /\ txn.kind = "connection" /\ walk = "none"
    BY <1>6 DEF HandshakeActive, Session, StageOK, WalkOwned, Live, In
  <2>2. /\ UNCHANGED <<view, walk>>
        /\ IF txn.reconnect
           THEN /\ txn' = At("retry_wait") /\ command' = "none" /\ stage' = "idle"
                /\ UNCHANGED staged
           ELSE Reset /\ stage' = "failed"
    BY <1>6 DEF CheckLink
  <2>3. CASE txn.reconnect
    <3>1. PICK tries \in 0 .. MaxTries :
            txn' = [txn EXCEPT !.phase = "retry_wait", !.attempts = tries]
      BY <2>2, <2>3, RetryAt
    <3> QED
      BY <1>1, <1>2, <1>3, <1>4, <1>6, <2>1, <2>2, <2>3, <3>1, RetrySession
  <2>4. CASE ~txn.reconnect
    BY <1>1, <1>2, <1>3, <1>4, <1>6, <2>1, <2>2, <2>4, OverSession
  <2> QED
    BY <2>3, <2>4
<1>7. CASE ~(~helper.alive /\ (stage = "connected" \/ HandshakeActive))
  <2>1. UNCHANGED <<stage, txn, command, staged, view, walk>>
    BY <1>7 DEF CheckLink
  <2>2. modals' = (IF sec' = "shown" THEN 1 ELSE 0) /\ sec' \in {"idle", "pending", "shown"}
    BY <1>1, <1>2 DEF RaisePrompt
  <2>3. CASE Live
    <3>1. Wire(ReplyDue, Going, Where, helper, inbox, sec)
      BY <2>3 DEF Session, WireOK
    <3>2. Wire(ReplyDue, Going, Where, helper', inbox', sec')
      BY <1>1, <3>1, ShowPrompt DEF RaisePrompt
    <3> QED
      BY <1>1, <1>2, <2>1, <2>2, <2>3, <3>2, OnlyTheWire DEF Session, StagedOK
  <2>4. CASE ~Live
    <3>1. Abandoned(helper, inbox, sec)
      BY <2>4 DEF Session, WireOK
    <3>2. Abandoned(helper', inbox', sec')
      BY <1>1, <3>1 DEF RaisePrompt, Abandoned
    <3> QED
      BY <1>1, <1>2, <2>1, <2>2, <2>4, <3>2, OnlyTheWire DEF Session, StagedOK
  <2> QED
    BY <2>3, <2>4
<1> QED
  BY <1>5, <1>6, <1>7

\* The next attempt, or the end of them.
LEMMA DriveReconnectSession == ASSUME Session, DriveReconnect PROVE Session'
<1>1. /\ pc' = "ui" /\ In("connection", "retry_wait") /\ UNCHANGED <<view, walk, sec, modals>>
      /\ stage = "idle" /\ txn.reconnect /\ txn.target \in Dir /\ walk = "none"
  BY DEF DriveReconnect, Tick, Session, StageOK, DirsOK, WalkOwned, In
<1>2. Abandoned(helper, inbox, sec)
  BY <1>1 DEF Session, WireOK, Live
<1>3. /\ sec' = "idle" /\ modals' = 0 /\ asked \in BOOLEAN
      /\ txn \in TxnType /\ path \in Dir /\ items \subseteq {path}
      /\ refresh \in Dir \cup {NoDir}
  BY <1>1, <1>2 DEF Abandoned, Session, ModalOK, TypeOK, ItemsOfPath
<1>4. CASE txn.attempts >= MaxTries
  <2>1. Reset /\ stage' = "failed" /\ UNCHANGED <<left, asked, helper, inbox>>
    BY <1>4 DEF DriveReconnect, session
  <2>2. /\ helper' \in HelperType /\ inbox' \in Seq(MessageType) /\ left' \in 0 .. Len(inbox')
        /\ helper'.cmd # NoLine <=> helper'.proc \in {"exec", "prompt"}
        /\ AliveOK'
    BY <2>1 DEF Session, TypeOK, AliveOK
  <2>3. Abandoned(helper', inbox', sec')
    BY <1>1, <1>2, <2>1
  <2> QED
    BY <1>1, <1>3, <2>1, <2>2, <2>3, OverSession
<1>5. CASE ~(txn.attempts >= MaxTries)
  <2>1. PICK tries \in 0 .. MaxTries : tries = txn.attempts + 1
    BY <1>3, <1>5, ControlAssumption DEF TxnType
  <2>2. command' = "none" /\ staged' = {}
    BY <1>5 DEF DriveReconnect
  <2>3. CASE Launched /\ stage' = "greeting"
    <3>1. /\ txn' = [txn EXCEPT !.attempts = tries, !.phase = "waiting_greeting"]
          /\ asked' = FALSE
      <4>1. /\ txn' = [[txn EXCEPT !.attempts = @ + 1] EXCEPT !.phase = "waiting_greeting"]
            /\ asked' = FALSE
        BY <1>5, <2>3 DEF DriveReconnect
      <4> QED
        BY <1>3, <2>1, <4>1 DEF TxnType
    <3>2. /\ txn' \in TxnType /\ txn'.kind = "connection" /\ txn'.phase = "waiting_greeting"
          /\ txn'.target \in Dir
      BY <1>1, <1>3, <3>1, AnyPhases DEF TxnType, In
    <3>3. path' \in Dir /\ items' \subseteq {path'} /\ refresh' \in Dir \cup {NoDir}
      BY <1>1, <1>3 DEF view
    <3> QED
      BY <1>1, <1>3, <2>2, <2>3, <3>1, <3>2, <3>3, StartSession
  <2>4. CASE /\ Stop /\ UNCHANGED asked /\ stage' = "idle"
             /\ txn' = [txn EXCEPT !.attempts = @ + 1]
    <3>1. txn' = [txn EXCEPT !.phase = "retry_wait", !.attempts = tries]
      BY <1>1, <1>3, <2>1, <2>4 DEF TxnType, In
    <3>2. staged' \subseteq Dir /\ txn.kind = "connection"
      BY <1>1, <2>2 DEF In
    <3> QED
      BY <1>1, <1>3, <2>2, <2>4, <3>1, <3>2, Stopped, RetrySession
  <2> QED
    BY <1>5, <2>3, <2>4 DEF DriveReconnect
<1> QED
  BY <1>4, <1>5

\* The watchdog gives up on a command, not on a question.
LEMMA MaybeWatchdogSession == ASSUME Inv, Inv', Session, MaybeWatchdog PROVE Session'
<1>1. /\ pc' = "ui" /\ command # "none" /\ sec = "idle" /\ UNCHANGED <<sec, asked, modals>>
      /\ modals = 0
  BY DEF MaybeWatchdog, Tick, prompt, Session, ModalOK
<1>2. Live /\ ReplyDue = command
  BY <1>1, Waiting
<1>3. CASE stage = "connected"
  <2>1. BeginRecover(TriesUsed) /\ UNCHANGED <<left, path, items, helper, inbox>>
    BY <1>3 DEF MaybeWatchdog, session
  <2>2. command \notin {"greeting", "open"}
    <3>1. command = "open" => In("connection", "opening")
      BY DEF Inv, WireMatchesPhase, Awaited, PhaseOK, Phases, In
    <3>2. command # "greeting"
      BY DEF Session, TypeOK, Commands
    <3> QED
      BY <1>3, <3>1, <3>2 DEF Session, StageOK, In
  <2>3. /\ helper \in HelperType /\ inbox \in Seq(MessageType) /\ left \in 0 .. Len(inbox)
    BY DEF Session, TypeOK
  <2>4. Abandoned(helper, inbox, sec)
    BY <1>2, <2>2, <2>3, Abandon DEF Session, WireOK
  <2>5. /\ Abandoned(helper', inbox', sec')
        /\ inbox' \in Seq(MessageType) /\ left' \in 0 .. Len(inbox')
    BY <1>1, <2>1, <2>3, <2>4
  <2> QED
    BY <1>1, <2>1, <2>5, RecoverSession
<1>4. CASE stage # "connected"
  BY <1>1, <1>4, ConnectionFailedSession DEF MaybeWatchdog, HandshakeActive
<1> QED
  BY <1>3, <1>4

\* The next command of a flow that had none.
LEMMA DriveSession ==
  ASSUME Inv, Inv', Session, txn.kind \notin {"none", "connection"}, command = "none",
         NEW flow \in TxnType, txn' = flow, flow.kind = txn.kind,
         NEW name \in {"ls", "rls", "recop"}, NEW dir \in Dir \cup {NoDir}, Issue(name, dir),
         name = "rls" => dir \in Dir,
         UNCHANGED <<left, stage, view, prompt, inbox>>, pc' = "ui",
         staged' = {} \/ (UNCHANGED staged /\ name # "ls"), UNCHANGED walk \/ walk' = "none",
         Where' = Where, DirsOK', In("rec_upload", "listing_result")' => walk' = "none"
  PROVE  Session'
<1>1. /\ UNCHANGED <<left, stage, path, items, refresh, sec, asked, modals, inbox>>
      /\ command' = name /\ name \in Commands
  BY DEF view, prompt, Issue, Commands
<1>2. /\ helper' \in HelperType
      /\ (helper'.cmd # NoLine <=> helper'.proc \in {"exec", "prompt"})
      /\ helper'.proc = helper.proc /\ helper'.alive = helper.alive
  BY <1>1, IssueTyped DEF Session
<1>3. TypeOK'
  <2>1. txn'.phase \in Phases[txn'.kind]
    BY PhaseTypedNext DEF Inv
  <2>2. TypeOK /\ staged' \subseteq Dir
    BY DEF Session, TypeOK
  <2> QED
    BY <1>1, <1>2, <2>1, <2>2 DEF TypeOK
<1>4. Live /\ Live' /\ ReplyDue = "none"
  BY <1>1 DEF Session, StageOK, Live, ReplyDue, In
<1>5. StageOK' /\ AliveOK'
  BY <1>1, <1>2 DEF Session, StageOK, AliveOK, In
<1>6. WireOK'
  <2>1. name \notin {"cd", "cd_rollback"} /\ UNCHANGED <<inbox, sec>>
    BY <1>1
  <2> QED
    BY <1>1, <1>4, <2>1, IssueOnFree
<1>7. ModalOK' /\ StagedOK' /\ ItemsOfPath' /\ WalkOwned'
  BY <1>1 DEF Session, ModalOK, StagedOK, ItemsOfPath, WalkOwned
<1> QED
  BY <1>3, <1>5, <1>6, <1>7 DEF Session

\* What a tick sends for a flow: a delayed listing and the steps of the walks.
LEMMA DriveFlowsSession ==
  ASSUME Inv, Inv', Session,
         StartNavigationListing \/ DriveRecDownload \/ DriveRecDelete \/ DriveRecUpload
  PROVE  Session'
<1>0. /\ txn \in TxnType /\ {"listing_destination", "listing", "executing", "listing_result"}
                              \subseteq AnyPhase
  BY DEF Session, TypeOK, AnyPhase, Phases
<1>1. CASE StartNavigationListing
  <2>1. /\ txn.kind = "navigation" /\ txn.phase = "waiting_to_list" /\ command = "none"
        /\ txn' = At("listing_destination") /\ staged' = {} /\ Issue("ls", NoDir)
        /\ UNCHANGED <<left, stage, view, walk, prompt, inbox>> /\ pc' = "ui"
    BY <1>1 DEF StartNavigationListing, Tick, In, Inv, WireMatchesPhase, Awaited
  <2>2. /\ txn' \in TxnType /\ txn'.kind = "navigation" /\ txn'.phase = "listing_destination"
        /\ txn'.target = txn.target /\ txn'.source = txn.source
    BY <1>0, <2>1, AtTyped
  <2>3. Where' = Where /\ DirsOK'
    BY <2>1, <2>2 DEF Where, In, DirsOK, Session, view
  <2> QED
    BY <2>1, <2>2, <2>3, DriveSession DEF In
<1>2. ASSUME NEW rec \in TxnType, NEW name \in {"ls", "rls", "recop"},
             NEW dir \in Dir \cup {NoDir}, Drive(rec, name, dir), WireIdle, Recursive,
             rec.kind = txn.kind, rec.phase \in {"listing", "executing", "listing_result"},
             rec.phase = "executing" => rec.cmds > 0, name = "rls" => dir \in Dir,
             staged' = {} \/ (UNCHANGED staged /\ name # "ls"),
             UNCHANGED walk \/ walk' = "none",
             rec.kind = "rec_upload" /\ rec.phase = "listing_result" => walk' = "none"
      PROVE  Session'
  <2>1. /\ txn' = rec /\ Issue(name, dir) /\ UNCHANGED <<left, stage, view, prompt, inbox>>
        /\ pc' = "ui" /\ command = "none" /\ stage = "connected"
        /\ txn.kind \in {"rec_download", "rec_delete", "rec_upload"}
    BY <1>2 DEF Drive, WireIdle, Tick, Connected, Recursive
  <2>2. Where' = Where /\ DirsOK'
    BY <1>2, <2>1 DEF Where, In, DirsOK, view
  <2> QED
    BY <1>2, <2>1, <2>2, DriveSession DEF In
<1>3. ASSUME NEW n \in Nat, txn.stack > 0, txn.stack = n
      PROVE  /\ [At("listing") EXCEPT !.stack = @ - 1] \in TxnType
             /\ [At("listing") EXCEPT !.stack = @ - 1].kind = txn.kind
             /\ [At("listing") EXCEPT !.stack = @ - 1].phase = "listing"
  <2>1. PICK m \in Nat : m = n - 1
    BY <1>3
  <2>2. [At("listing") EXCEPT !.stack = @ - 1] = [txn EXCEPT !.phase = "listing", !.stack = m]
    BY <1>0, <1>3, <2>1 DEF At, TxnType
  <2> QED
    BY <1>0, <2>2 DEF TxnType
<1>4. txn.stack \in Nat /\ txn.cmds \in Nat
  BY <1>0 DEF TxnType
<1>5. CASE DriveRecDownload /\ walk # "cancelled" /\ txn.stack > 0
  <2>1. PICK dir \in Dir : Drive([At("listing") EXCEPT !.stack = @ - 1], "rls", dir)
    BY <1>5 DEF DriveRecDownload
  <2>2. WireIdle /\ Recursive /\ txn.kind = "rec_download" /\ staged' = {} /\ UNCHANGED walk
    BY <1>5 DEF DriveRecDownload, Recursive
  <2> QED
    BY <1>2, <1>3, <1>4, <1>5, <2>1, <2>2
<1>6. CASE DriveRecDownload /\ ~(walk # "cancelled" /\ txn.stack > 0)
  <2>1. /\ UNCHANGED <<left, stage, path, items, refresh, sec, asked, modals, helper, inbox>>
        /\ Reset /\ walk' = "none" /\ pc' = "ui" /\ command = "none" /\ stage = "connected"
        /\ txn.kind = "rec_download"
    BY <1>6 DEF DriveRecDownload, WireIdle, Tick, Connected, view, prompt, session
  <2>2. /\ txn' \in TxnType /\ txn'.kind = "none" /\ txn'.phase = "idle"
        /\ command' = "none" /\ staged' = {}
    BY <2>1, TxnTyped, AnyPhases DEF Reset, NoTxn, Txn
  <2>3. TypeOK'
    <3>1. txn'.phase \in Phases[txn'.kind]
      BY <2>2 DEF Phases
    <3> QED
      BY <2>1, <2>2, <3>1 DEF Session, TypeOK
  <2>4. StageOK' /\ AliveOK' /\ DirsOK'
    BY <2>1, <2>2 DEF Session, StageOK, AliveOK, DirsOK, In
  <2>5. WireOK'
    <3>1. Live' = Live /\ ReplyDue = "none" /\ ReplyDue' = "none" /\ Where' = Where
      BY <2>1, <2>2 DEF Live, ReplyDue, Where, In
    <3> QED
      BY <2>1, <3>1, WireStays
  <2>6. ModalOK' /\ StagedOK' /\ ItemsOfPath' /\ WalkOwned'
    BY <2>1, <2>2 DEF Session, ModalOK, StagedOK, ItemsOfPath, WalkOwned
  <2> QED
    BY <2>3, <2>4, <2>5, <2>6 DEF Session
<1>7. CASE DriveRecDelete
  <2>1. WireIdle /\ Recursive /\ txn.kind = "rec_delete" /\ UNCHANGED walk
    BY <1>7 DEF DriveRecDelete, Recursive
  <2>2. CASE txn.stack > 0
    <3>1. PICK dir \in Dir : Drive([At("listing") EXCEPT !.stack = @ - 1], "rls", dir)
      BY <1>7, <2>2 DEF DriveRecDelete
    <3>2. staged' = {}
      BY <1>7, <2>2 DEF DriveRecDelete
    <3> QED
      BY <1>2, <1>3, <1>4, <2>1, <2>2, <3>1, <3>2
  <2>3. ASSUME NEW phase \in {"executing", "listing_result"}
        PROVE  /\ [At(phase) EXCEPT !.built = TRUE] \in TxnType
               /\ [At(phase) EXCEPT !.built = TRUE].kind = txn.kind
               /\ [At(phase) EXCEPT !.built = TRUE].phase = phase
               /\ [At(phase) EXCEPT !.built = TRUE].cmds = txn.cmds
    BY <1>0 DEF At, TxnType
  <2>4. CASE ~(txn.stack > 0) /\ txn.cmds > 0
    <3>1. Drive([At("executing") EXCEPT !.built = TRUE], "recop", NoDir) /\ UNCHANGED staged
      BY <1>7, <2>4 DEF DriveRecDelete
    <3> QED
      BY <1>2, <2>1, <2>3, <2>4, <3>1
  <2>5. CASE ~(txn.stack > 0) /\ ~(txn.cmds > 0)
    <3>1. Drive([At("listing_result") EXCEPT !.built = TRUE], "ls", NoDir) /\ staged' = {}
      BY <1>7, <2>5 DEF DriveRecDelete
    <3> QED
      BY <1>2, <2>1, <2>3, <3>1
  <2> QED
    BY <2>2, <2>4, <2>5
<1>8. CASE DriveRecUpload
  <2>1. WireIdle /\ Recursive /\ txn.kind = "rec_upload"
    BY <1>8 DEF DriveRecUpload, Recursive
  <2>2. ASSUME NEW phase \in {"executing", "listing_result"}
        PROVE  /\ At(phase) \in TxnType /\ At(phase).kind = txn.kind
               /\ At(phase).phase = phase /\ At(phase).cmds = txn.cmds
    BY <1>0 DEF At, TxnType
  <2>3. CASE txn.cmds > 0
    <3>1. Drive(At("executing"), "recop", NoDir) /\ UNCHANGED <<staged, walk>>
      BY <1>8, <2>3 DEF DriveRecUpload
    <3> QED
      BY <1>2, <2>1, <2>2, <2>3, <3>1
  <2>4. CASE ~(txn.cmds > 0)
    <3>1. Drive(At("listing_result"), "ls", NoDir) /\ staged' = {} /\ walk' = "none"
      BY <1>8, <2>4 DEF DriveRecUpload
    <3> QED
      BY <1>2, <2>1, <2>2, <3>1
  <2> QED
    BY <2>3, <2>4
<1> QED
  BY <1>1, <1>5, <1>6, <1>7, <1>8

\* Every step of a session keeps it.
LEMMA NextSession ==
  ASSUME ~StalePrompts, Inv, Inv', Session, [Next]_vars PROVE Session'
<1>1. CASE User
  BY <1>1, ConnectSession, BeginSession, RequestRefreshSession, FolderSession,
     AnswerConflictSession, ProvideSecretSession DEF User
<1>2. CASE Poll
  BY <1>2, PollSession
<1>3. CASE Process
  BY <1>3, ListEntrySession, AskPasswordSession, GreetingSession, SkipTerminalSession,
     CompleteConnectionSession, FailConnectionSession,
     CompleteNavigationSession, FailNavigationSession, OneShotSession,
     RecDownloadSession, RecDeleteSession, RecUploadSession DEF Process
<1>4. CASE CheckLink
  BY <1>4, CheckLinkSession
<1>5. CASE Ticks
  BY <1>5, DriveReconnectSession, MaybeWatchdogSession, BeginSession, DriveFlowsSession,
     RestSession DEF Ticks
<1>6. CASE Helper
  BY <1>6, HelperSession
<1>7. CASE UNCHANGED vars
  <2>1. UNCHANGED <<pc, left, stage, txn, command, staged, path, items, refresh, walk, sec,
                    asked, modals, helper, inbox>>
    BY <1>7 DEF vars, poll, view, prompt, session
  <2>2. /\ Live' = Live /\ ReplyDue' = ReplyDue /\ Going' = Going /\ Where' = Where
    BY <2>1 DEF Live, ReplyDue, Going, Where, In
  <2> QED
    BY <2>1, <2>2
       DEF Session, TypeOK, StageOK, AliveOK, DirsOK, WireOK, ModalOK, StagedOK, ItemsOfPath,
           WalkOwned, In
<1> QED
  BY <1>1, <1>2, <1>3, <1>4, <1>5, <1>6, <1>7 DEF Next


\* A session whose helper does not die while it waits for a secret keeps its parts.
THEOREM SessionHolds == ~StalePrompts => (Spec => []Session)
<1> SUFFICES ASSUME ~StalePrompts PROVE Spec => []Session
  OBVIOUS
<1>1. Init => Session
  BY InitSession
<1>2. Inv /\ Inv' /\ Session /\ [Next]_vars => Session'
  BY NextSession
<1> QED
  BY <1>1, <1>2, Invariance, PTL DEF Spec

\* The variables keep the types and phases of the C++ ones.
THEOREM TypesHold == ~StalePrompts => (Spec => []TypeOK)
<1> SUFFICES ASSUME ~StalePrompts PROVE Spec => []TypeOK
  OBVIOUS
<1>1. Session => TypeOK
  BY DEF Session
<1> QED
  BY <1>1, SessionHolds, PTL

\* The pane shows entries of its own path only.
THEOREM ItemsAreOfPath == ~StalePrompts => (Spec => []ItemsOfPath)
<1> SUFFICES ASSUME ~StalePrompts PROVE Spec => []ItemsOfPath
  OBVIOUS
<1>1. Session => ItemsOfPath
  BY DEF Session
<1> QED
  BY <1>1, SessionHolds, PTL

\* No batch outlives its walk.
THEOREM WalksAreOwned == ~StalePrompts => (Spec => []WalkOwned)
<1> SUFFICES ASSUME ~StalePrompts PROVE Spec => []WalkOwned
  OBVIOUS
<1>1. Session => WalkOwned
  BY DEF Session
<1> QED
  BY <1>1, SessionHolds, PTL

\* The helper of a session that is not connecting or navigating is where the pane is.
THEOREM CwdIsThePath == ~StalePrompts => (Spec => []CwdIsPath)
<1> SUFFICES ASSUME ~StalePrompts PROVE Spec => []CwdIsPath
  OBVIOUS
<1>1. Inv /\ Session => CwdIsPath
  <2> SUFFICES ASSUME Inv, Session, stage = "connected", helper.proc # "off",
                      txn.kind \notin {"connection", "navigation"}
               PROVE  helper.cwd = path
    BY DEF CwdIsPath
  <2>1. Wire(ReplyDue, Going, {path}, helper, inbox, sec)
    BY DEF Session, WireOK, Live, Where, In
  <2>2. ReplyDue \notin {"open", "cd", "cd_rollback"}
    BY DEF ReplyDue, Inv, WireMatchesPhase, Awaited, PhaseOK, Phases, In
  <2> QED
    BY <2>1, <2>2
       DEF Wire, Dead, Idle, Starts, Unread, Works, Asks, Replied, ReplyTo, After
<1> QED
  BY <1>1, Invariance, SessionHolds, PTL

\* What is owed: replies in the pipe, the command at work, lines unread.
Answered(q)  == {<<q[i].of, "answered", i>> : i \in {k \in DOMAIN q : Terminal(q[k])}}
Working(h)   == IF h.proc = "greet" THEN {<<"greeting", "working", 0>>}
                ELSE IF h.proc \in {"exec", "prompt"} THEN {<<h.cmd.name, "working", 0>>}
                ELSE {}
Waits(h)     == {<<h.stdin[i].name, "unread", i>> :
                   i \in {k \in DOMAIN h.stdin : h.stdin[k] # Secret}}
OwedBy(h, q) == Answered(q) \cup Working(h) \cup Waits(h)
Single(c, S) == \E place, i : S = {<<c, place, i>>}

\* One reply is on its way, and it is the one that is due; or the helper is gone with it.
LEMMA OwedOnWire ==
  ASSUME NEW c, NEW arg, NEW dirs, NEW h \in HelperType, NEW q \in Seq(MessageType), NEW s,
         Wire(c, arg, dirs, h, q, s)
  PROVE  \/ OwedBy(h, q) = {} /\ (c = "none" \/ h.proc = "off")
         \/ c # "none" /\ Single(c, OwedBy(h, q))
<1>0. /\ DOMAIN q = 1 .. Len(q) /\ Len(q) \in Nat /\ h.stdin \in Seq(LineType)
      /\ DOMAIN h.stdin = 1 .. Len(h.stdin) /\ Len(h.stdin) \in Nat
  BY DEF HelperType
<1>1. ASSUME \A i \in 1 .. Len(q) : EntryOf(c, dirs, q[i]) PROVE Answered(q) = {}
  BY <1>0, <1>1 DEF Answered, EntryOf, Terminal
<1>2. ASSUME h.stdin = <<>> PROVE Waits(h) = {}
  BY <1>0, <1>2 DEF Waits
<1>3. CASE Dead(c, dirs, h, q, s) \/ Idle(c, dirs, h, q, s)
  <2>1. h.proc \in {"off", "ready"} /\ h.stdin = <<>> /\ (c = "none" \/ h.proc = "off")
    BY <1>3 DEF Dead, Idle, Still
  <2>2. Answered(q) = {}
    <3>1. Idle(c, dirs, h, q, s) => Len(q) = 0
      BY DEF Idle
    <3> QED
      BY <1>1, <1>3, <3>1 DEF Dead
  <2> QED
    BY <1>2, <2>1, <2>2 DEF OwedBy, Working
<1>4. CASE Starts(c, dirs, h, q, s)
  <2>1. Len(q) = 0 /\ h.stdin = <<>> /\ h.proc = "greet" /\ c = "greeting"
    BY <1>4 DEF Starts, Still
  <2>2. OwedBy(h, q) = {<<c, "working", 0>>}
    BY <1>1, <1>2, <2>1 DEF OwedBy, Working
  <2> QED
    BY <2>1, <2>2 DEF Single
<1>5. CASE Unread(c, arg, dirs, h, q, s)
  <2>1. /\ Len(q) = 0 /\ h.proc = "ready" /\ Len(h.stdin) = 1 /\ h.stdin[1].name = c
        /\ c \in Commands
    BY <1>5 DEF Unread, Names
  <2>2. h.stdin[1] # Secret
    BY <2>1 DEF Secret, Line, Commands
  <2>3. {k \in DOMAIN h.stdin : h.stdin[k] # Secret} = {1}
    BY <1>0, <2>1, <2>2
  <2>4. Waits(h) = {<<c, "unread", 1>>}
    BY <2>1, <2>3 DEF Waits
  <2>5. c # "none"
    BY <2>1 DEF Commands
  <2>6. OwedBy(h, q) = {<<c, "unread", 1>>}
    BY <1>1, <2>1, <2>4 DEF OwedBy, Working
  <2> QED
    BY <2>5, <2>6 DEF Single
<1>6. CASE Works(c, arg, dirs, h, q, s)
  <2>1. h.proc = "exec" /\ h.stdin = <<>> /\ h.cmd.name = c /\ c # "none"
    BY <1>6 DEF Works, Still, Names, Commands
  <2>2. OwedBy(h, q) = {<<c, "working", 0>>}
    BY <1>1, <1>2, <1>6, <2>1 DEF OwedBy, Working, Works
  <2> QED
    BY <2>1, <2>2 DEF Single
<1>7. CASE Asks(c, dirs, h, q, s)
  <2>1. h.proc = "prompt" /\ h.cmd.name = c /\ c # "none"
    BY <1>7 DEF Asks
  <2>2. Answered(q) = {}
    <3>1. \A i \in 1 .. Len(q) : ~Terminal(q[i])
      BY <1>7 DEF Asks, Terminal
    <3> QED
      BY <1>0, <3>1 DEF Answered
  <2>3. Waits(h) = {}
    <3>1. h.stdin = <<>> \/ h.stdin = <<Secret>>
      BY <1>7 DEF Asks, Still
    <3>2. CASE h.stdin = <<Secret>>
      BY <1>0, <3>2 DEF Waits
    <3> QED
      BY <1>2, <3>1, <3>2
  <2>4. OwedBy(h, q) = {<<c, "working", 0>>}
    BY <2>1, <2>2, <2>3 DEF OwedBy, Working
  <2> QED
    BY <2>1, <2>4 DEF Single
<1>8. CASE Replied(c, arg, dirs, h, q, s)
  <2>1. /\ h.proc \in {"off", "ready"} /\ h.stdin = <<>> /\ c # "none"
        /\ Len(q) > 0 /\ Terminal(q[Len(q)]) /\ q[Len(q)].of = c
        /\ \A i \in 1 .. Len(q) - 1 : ~Terminal(q[i])
    BY <1>8 DEF Replied, ReplyTo, Still, Commands, EntryOf, Terminal
  <2>2. {k \in DOMAIN q : Terminal(q[k])} = {Len(q)}
    BY <1>0, <2>1
  <2>3. Answered(q) = {<<c, "answered", Len(q)>>}
    BY <2>1, <2>2 DEF Answered
  <2>4. OwedBy(h, q) = {<<c, "answered", Len(q)>>}
    BY <1>2, <2>1, <2>3 DEF OwedBy, Working
  <2> QED
    BY <2>1, <2>4 DEF Single
<1> QED
  BY <1>3, <1>4, <1>5, <1>6, <1>7, <1>8 DEF Wire

\* A live session is owed the reply it waits for and no other (write_line, complete_flow).
THEOREM OneReplyIsOwed == ~StalePrompts => (Spec => []OneReplyOwed)
<1> SUFFICES ASSUME ~StalePrompts PROVE Spec => []OneReplyOwed
  OBVIOUS
<1>1. Session => OneReplyOwed
  <2> SUFFICES ASSUME Session, Live
               PROVE  \/ {o[1] : o \in Owed} = Wanted /\ \A o, p \in Owed : o = p
                      \/ helper.proc = "off" /\ Owed = {}
    BY DEF OneReplyOwed
  <2>1. /\ helper \in HelperType /\ inbox \in Seq(MessageType)
        /\ Wire(ReplyDue, Going, Where, helper, inbox, sec)
    BY DEF Session, TypeOK, WireOK
  <2>2. Owed = OwedBy(helper, inbox)
    BY DEF Owed, OwedBy, Answered, Working, Waits
  <2>3. Wanted = IF ReplyDue = "none" THEN {} ELSE {ReplyDue}
    BY DEF Wanted, ReplyDue
  <2>4. \/ Owed = {} /\ (ReplyDue = "none" \/ helper.proc = "off")
        \/ ReplyDue # "none" /\ Single(ReplyDue, Owed)
    BY <2>1, <2>2, OwedOnWire
  <2>5. CASE Owed = {} /\ (ReplyDue = "none" \/ helper.proc = "off")
    BY <2>3, <2>5
  <2>6. CASE ReplyDue # "none" /\ Single(ReplyDue, Owed)
    <3>1. PICK place, i : Owed = {<<ReplyDue, place, i>>}
      BY <2>6 DEF Single
    <3>2. {o[1] : o \in Owed} = {ReplyDue}
      BY <3>1
    <3> QED
      BY <2>3, <2>6, <3>1, <3>2
  <2> QED
    BY <2>4, <2>5, <2>6
<1> QED
  BY <1>1, SessionHolds, PTL
=============================================================================
