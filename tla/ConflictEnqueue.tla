--------------------------- MODULE ConflictEnqueue ---------------------------
(***************************************************************************)
(* From a selection to the transfer queue of Parvion: a batch of requests  *)
(* is pumped through the policy for existing targets, stops at a question, *)
(* goes on with its answer and is cancelled by a lost session; a folder    *)
(* walk feeds a batch of its own or that of the selection it came with     *)
(* (conflict.hpp, conflict_enqueue.hpp, conflict_dialog.hpp; the batches   *)
(* and drive_recop in session.hpp; pane_transfer_selection in panes.hpp).  *)
(***************************************************************************)
EXTENDS Naturals, Sequences, FiniteSets, SequencesExt

CONSTANTS
  Name,        \* names of files
  Numbered,    \* Numbered[x]: the names numbered_name makes of x, in order
  Marked,      \* the files of a selection, sequences of names
  Found,       \* the files of a folder
  Policies,    \* of conflict_policy_t
  Existing,    \* what may exist at the targets
  MaxBatches,  \* batches that are ever made
  MaxFolders,  \* folders that are ever walked
  MaxEpochs    \* sessions

ASSUME ConflictAssumption ==
  /\ Numbered \in [Name -> Seq(Name)] /\ Marked \cup Found \subseteq Seq(Name)
  /\ Existing \subseteq SUBSET [dir : {"top", "sub"}, name : Name]
  /\ Policies \subseteq {"overwrite", "skip", "newer", "resume", "rename", "ask"}
  /\ MaxBatches \in Nat /\ MaxFolders \in Nat /\ MaxEpochs \in Nat \ {0}

Dir    == {"top", "sub"}      \* the folder of a selection, and one below it
Target == [dir : Dir, name : Name]

VARIABLES
  upload,     \* the direction of all transfers
  policy,     \* cfg.conflict_policy
  occupied,   \* the targets that exist
  shown,      \* path: the remote folder whose listing is known
  connected,  \* connected()
  epoch,      \* ask_epoch
  batches,    \* every enqueue_batch, in the order they were made
  walkBatch,  \* walk_batch, 0 if none
  walk,       \* rec_download or rec_upload
  offers,     \* what the UI handler that runs has still to offer, ...
  into,       \* ... and to which batch
  queued      \* the targets of the queue, with how they came to be there

sessionVars  == <<upload, policy, occupied, connected, epoch, shown>>
conflictVars == <<sessionVars, batches, walkBatch, walk, offers, into, queued>>

NoWalk == [pc |-> "none", folders |-> 0]
BatchNo  == DOMAIN batches

ConflictInit ==
  /\ upload \in BOOLEAN /\ policy \in Policies /\ occupied \in Existing
  /\ shown = "top" /\ connected = TRUE /\ epoch = 1
  /\ batches = <<>> /\ walkBatch = 0 /\ walk = NoWalk
  /\ offers = <<>> /\ into = 0
  /\ queued = {}

-----------------------------------------------------------------------------
(* conflict.hpp and the probes of session.hpp.                             *)

\* dest_exists of conflict_inputs_for: a local target is looked up, a remote one is
\* looked for in the listing on display.
DestExists(t) == t \in occupied /\ (upload => t.dir = shown)

\* classify(): Newer writes or skips as the times say, Resume writes or resumes.
Classify(t) ==
  IF ~DestExists(t) THEN {"write"}
  ELSE CASE policy \in {"overwrite", "resume"} -> {"write"}
         [] policy = "newer"                   -> {"write", "skip"}
         [] OTHER                              -> {policy}

Requested(b) == ToSet(batches[b].pending)
OnlyQueued == {item.to : item \in queued}

\* destination_occupied, for batch b.
DestinationOccupied(t, b) == DestExists(t) \/ t \in OnlyQueued \cup Requested(b)

\* uniquify_request: the first numbered name nothing has, if there is one.
Uniquify(t, b) ==
  LET sibling(k) == [t EXCEPT !.name = Numbered[t.name][k]]
      unused == {k \in DOMAIN Numbered[t.name] : ~DestinationOccupied(sibling(k), b)}
  IN  {sibling(k) : k \in {m \in unused : \A j \in unused : m <= j}}

\* take_enqueue_dest and commit_transfer_request: what joins the queue, with whether the
\* policy or the user agreed and whether the session is still that of the batch.
Committed(t, b, action, agreed) ==
  {[to |-> u, agreed |-> agreed, late |-> batches[b].epoch # epoch] :
     u \in CASE action = "write"  -> {t}
             [] action = "rename" -> Uniquify(t, b)
             [] OTHER             -> {}}

-----------------------------------------------------------------------------
(* The pump.                                                               *)

\* `lost': the question was closed and its answer dropped, so the batch waits on.
NewBatch == [pending |-> <<>>, ask |-> "none", held |-> <<>>, asked |-> epoch,
             all |-> "none", cancelled |-> FALSE, epoch |-> epoch, writeAll |-> FALSE]

Waits(b)     == batches[b].ask # "none"
Pumpable(b)  == batches[b].pending # <<>> /\ ~Waits(b) /\ ~batches[b].cancelled

\* No UI handler is running.
Idle == offers = <<>> /\ \A b \in BatchNo : ~Pumpable(b)

\* offer_enqueue_request: the pump has taken the requests before it.
Offer ==
  /\ offers # <<>> /\ \A b \in BatchNo : ~Pumpable(b)
  /\ batches' = IF batches[into].cancelled THEN batches
                ELSE [batches EXCEPT ![into].pending = Append(@, Head(offers))]
  /\ offers' = Tail(offers) /\ into' = IF Len(offers) = 1 THEN 0 ELSE into
  /\ UNCHANGED <<sessionVars, walkBatch, walk, queued>>

\* One request of pump_enqueue_batch is decided ...
PumpDecides(b) ==
  /\ Pumpable(b)
  /\ LET t == Head(batches[b].pending) IN
     \E action \in Classify(t) :
       /\ action = "ask" => batches[b].all # "none"
       /\ queued' = queued \cup
            Committed(t, b, IF action = "ask" THEN batches[b].all ELSE action,
                      policy \in {"overwrite", "newer", "resume"} \/ batches[b].writeAll)
  /\ batches' = [batches EXCEPT ![b].pending = Tail(@)]
  /\ UNCHANGED <<sessionVars, walkBatch, walk, offers, into>>

\* ... or asked about.
PumpAsks(b) ==
  /\ Pumpable(b)
  /\ "ask" \in Classify(Head(batches[b].pending)) /\ batches[b].all = "none"
  /\ batches' = [batches EXCEPT ![b].pending = Tail(@), ![b].ask = "open",
                                ![b].held = <<Head(batches[b].pending)>>, ![b].asked = epoch]
  /\ UNCHANGED <<sessionVars, walkBatch, walk, offers, into, queued>>

Choice == {"write", "write all", "skip", "skip all", "rename", "rename all", "cancel rest"}

\* action_for_choice
ActionFor(choice) ==
  CASE choice \in {"write", "write all"} -> "write"
    [] choice \in {"skip", "skip all"}   -> "skip"
    [] OTHER                             -> "rename"

\* Mutant: every answer is for the rest, too.
AllAlways(b, choice) == ActionFor(choice)

\* all_action after an answer.
AllAction(b, choice) ==
  IF choice \in {"write all", "skip all", "rename all"} THEN ActionFor(choice)
  ELSE batches[b].all

\* Mutant: an answer is taken whenever it comes.
AcceptsAny(b) == ~batches[b].cancelled

\* deliver() hands the answer over to a batch of this session only.
Accepts(b) == ~batches[b].cancelled /\ batches[b].asked = epoch /\ connected

\* The answer of conflict_dialog and the continuation it calls.
Answer(b, choice) ==
  /\ Idle /\ batches[b].ask = "open"
  /\ CASE ~Accepts(b) ->
            batches' = [batches EXCEPT ![b].ask = "lost", ![b].held = <<>>] /\ UNCHANGED queued
       [] Accepts(b) /\ choice = "cancel rest" ->
            /\ batches' = [batches EXCEPT ![b].ask = "none", ![b].held = <<>>,
                                          ![b].pending = <<>>, ![b].cancelled = TRUE]
            /\ UNCHANGED queued
       [] Accepts(b) /\ choice # "cancel rest" ->
            /\ batches' = [batches EXCEPT ![b].ask = "none", ![b].held = <<>>,
                                          ![b].all = AllAction(b, choice),
                                          ![b].writeAll = (choice = "write all")]
            /\ queued' = queued \cup Committed(batches[b].held[1], b, ActionFor(choice), TRUE)
  /\ UNCHANGED <<sessionVars, walkBatch, walk, offers, into>>

-----------------------------------------------------------------------------
(* Selections and folder walks.                                            *)

Files(dir, names) == [k \in DOMAIN names |-> [dir |-> dir, name |-> names[k]]]

Collecting == walk.pc \in {"none", "collect"}

\* pane_transfer_selection: a batch for all of it; a folder starts a walk with that
\* batch, or extends the walk there is.
TransferSelection(names, folder) ==
  /\ Idle /\ connected /\ shown = "top" /\ Len(batches) < MaxBatches
  /\ names # <<>> \/ folder
  /\ batches' = Append(batches, NewBatch)
  /\ offers' = Files("top", names) /\ into' = IF names = <<>> THEN 0 ELSE Len(batches) + 1
  /\ IF folder /\ Collecting
     THEN /\ walk.folders < MaxFolders
          /\ walk' = [pc |-> "collect", folders |-> walk.folders + 1]
          /\ walkBatch' = IF walkBatch = 0 THEN Len(batches) + 1 ELSE walkBatch
     ELSE UNCHANGED <<walk, walkBatch>>
  /\ UNCHANGED <<sessionVars, queued>>

Walking == Idle /\ connected /\ walk.pc = "collect"

\* cancel_walk_batch
CancelWalk(from) ==
  IF walkBatch = 0 THEN from ELSE [from EXCEPT ![walkBatch].cancelled = TRUE]

\* drive_recop(rec_download): wait for an answer, list the next folder or finish.
WalkDownload ==
  /\ Walking /\ ~upload
  /\ batches[walkBatch].cancelled \/ ~Waits(walkBatch)
  /\ IF walk.folders = 0 \/ batches[walkBatch].cancelled
     THEN walk' = NoWalk /\ walkBatch' = 0
     ELSE walk' = [pc |-> "list", folders |-> walk.folders - 1] /\ UNCHANGED walkBatch
  /\ UNCHANGED <<sessionVars, batches, offers, into, queued>>

\* complete_flow(rec_download): the files of the listing are offered one by one ...
WalkListed(names) ==
  /\ Idle /\ connected /\ walk.pc = "list"
  /\ walk' = [walk EXCEPT !.pc = "collect"]
  /\ offers' = Files("sub", names) /\ into' = walkBatch
  /\ UNCHANGED <<sessionVars, batches, walkBatch, queued>>

\* ... or the listing fails, and the walk with it.
WalkFails ==
  /\ Idle /\ connected /\ walk.pc = "list"
  /\ walk' = NoWalk /\ walkBatch' = 0 /\ batches' = CancelWalk(batches)
  /\ UNCHANGED <<sessionVars, offers, into, queued>>

\* drive_recop(rec_upload): when its folders are made, everything found is offered ...
WalkUpload(names) ==
  /\ Walking /\ upload
  /\ offers' = Files("sub", names) /\ into' = walkBatch
  /\ walk' = [walk EXCEPT !.pc = "result"] /\ walkBatch' = 0
  /\ UNCHANGED <<sessionVars, batches, queued>>

\* ... unless one of them cannot be made; at last the folder on display is listed again.
WalkAborts ==
  /\ Walking /\ upload
  /\ walk' = [walk EXCEPT !.pc = "abort"]
  /\ UNCHANGED <<sessionVars, batches, walkBatch, offers, into, queued>>

WalkUploadEnds ==
  /\ Idle /\ connected /\ walk.pc \in {"result", "abort"}
  /\ walk' = NoWalk /\ walkBatch' = 0 /\ batches' = CancelWalk(batches)
  /\ UNCHANGED <<sessionVars, offers, into, queued>>

-----------------------------------------------------------------------------
(* The session.                                                            *)

\* A navigation into the folder below is committed; the way back is not followed.
Navigated ==
  /\ Idle /\ connected /\ shown = "top"
  /\ shown' = "sub"
  /\ UNCHANGED <<upload, policy, occupied, connected, epoch, batches, walkBatch, walk,
                 offers, into, queued>>

\* Mutant: the questions are outdated, the batches are kept.
InvalidateEpochOnly == epoch' = epoch + 1 /\ UNCHANGED <<batches, walkBatch>>

\* invalidate_conflict_asks
InvalidateConflictAsks ==
  /\ epoch' = epoch + 1
  /\ batches' = CancelWalk(batches) /\ walkBatch' = 0

\* disconnect(), or begin_recover() after a lost link.
SessionLost ==
  /\ Idle /\ connected /\ epoch < MaxEpochs
  /\ connected' = FALSE /\ walk' = NoWalk
  /\ InvalidateConflictAsks
  /\ UNCHANGED <<upload, policy, occupied, shown, offers, into, queued>>

\* connect() and its first listing, or the restored one.
SessionReady ==
  /\ Idle /\ ~connected
  /\ connected' = TRUE /\ shown' \in Dir
  /\ UNCHANGED <<upload, policy, occupied, epoch, batches, walkBatch, walk, offers, into, queued>>

-----------------------------------------------------------------------------
\* What runs without the user.
Enqueue  == Offer \/ \E b \in BatchNo : PumpDecides(b) \/ PumpAsks(b)
WalkStep == \/ WalkDownload \/ WalkFails \/ WalkAborts \/ WalkUploadEnds
            \/ \E names \in Found : WalkListed(names) \/ WalkUpload(names)

ConflictNext ==
  \/ Enqueue \/ WalkStep
  \/ \E names \in Marked, folder \in BOOLEAN : TransferSelection(names, folder)
  \/ \E b \in BatchNo, choice \in Choice : Answer(b, choice)
  \/ Navigated \/ SessionLost \/ SessionReady

ConflictSpec == ConflictInit /\ [][ConflictNext]_conflictVars

-----------------------------------------------------------------------------
\* The type of every variable; a walk that may still offer files has a batch.
ConflictTypeOK ==
  /\ upload \in BOOLEAN /\ policy \in Policies /\ occupied \subseteq Target /\ shown \in Dir
  /\ connected \in BOOLEAN /\ epoch \in 1..MaxEpochs
  /\ walkBatch \in 0..Len(batches) /\ into \in 0..Len(batches)
  /\ walk.pc \in {"none", "collect", "list", "result", "abort"} /\ walk.folders \in 0..MaxFolders
  /\ offers \in Seq(Target)
  /\ \A b \in BatchNo :
       /\ batches[b].pending \in Seq(Target) /\ batches[b].held \in Seq(Target)
       /\ batches[b].ask \in {"none", "open", "lost"}
       /\ batches[b].ask = "open" <=> Len(batches[b].held) = 1
       /\ batches[b].all \in {"none", "write", "skip", "rename"}
       /\ batches[b].writeAll \in BOOLEAN
       /\ batches[b].asked \in 1..epoch /\ batches[b].epoch \in 1..epoch
  /\ walkBatch # 0 <=> walk.pc \in {"collect", "list", "abort"}
  /\ queued \subseteq [to : Target, agreed : BOOLEAN, late : BOOLEAN]

\* No download writes over a file that exists unless the policy says so or the user did,
\* for this file or for all of its batch; a renamed one never does.
DownloadAgreed ==
  ~upload => \A item \in queued : item.to \in occupied => item.agreed

\* What a one-file answer is for: the one file (conflict.hpp: `to distinguish a one-file
\* answer from the corresponding answer for the remainder of the enqueue batch').  So
\* every other conflict that was on display when its file was selected is asked about.
UploadAgreed ==
  upload => \A item \in queued : item.to.dir = "top" /\ item.to \in occupied => item.agreed

\* Nothing joins the queue for a session that is over (ask_epoch: `so a stale ask dialog
\* cannot commit').
NoStaleCommit ==
  \A item \in queued : ~item.late
=============================================================================
