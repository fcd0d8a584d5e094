------------------------ MODULE ConflictEnqueueProofs ------------------------
(* Invariance proofs for ConflictEnqueue: types, batches and sessions, and *)
(* what was agreed to, for any names, selections, policies and bounds.     *)
EXTENDS ConflictEnqueue, SequenceTheorems, TLAPS

\* What an enqueue_batch holds.
BatchType ==
  [pending : Seq(Target), ask : {"none", "open", "lost"}, held : Seq(Target), asked : Nat,
   all : {"none", "write", "skip", "rename"}, cancelled : BOOLEAN, epoch : Nat,
   writeAll : BOOLEAN]

\* A batch that can be pumped is of this session, e, and an open question is of the session
\* of its batch.
BatchGood(r, e) ==
  /\ r.pending # <<>> /\ r.ask = "none" /\ ~r.cancelled => r.epoch = e
  /\ r.ask = "open" => r.asked = r.epoch
  /\ r.ask = "open" <=> Len(r.held) = 1
  /\ r.asked \in 1..e /\ r.epoch \in 1..e

BatchesOK ==
  /\ batches \in Seq(BatchType)
  /\ \A b \in BatchNo : BatchGood(batches[b], epoch)

\* The batches of the walk and of the handler that runs are of this session.
HandlersOK ==
  /\ walkBatch # 0 => batches[walkBatch].epoch = epoch
  /\ offers # <<>> => into # 0 /\ batches[into].epoch = epoch

\* The types of the other variables.
ScalarsOK ==
  /\ upload \in BOOLEAN /\ policy \in Policies /\ occupied \subseteq Target /\ shown \in Dir
  /\ connected \in BOOLEAN /\ epoch \in 1..MaxEpochs
  /\ walkBatch \in 0..Len(batches) /\ into \in 0..Len(batches)
  /\ walk \in [pc : {"none", "collect", "list", "result", "abort"}, folders : 0..MaxFolders]
  /\ offers \in Seq(Target)
  /\ walkBatch # 0 <=> walk.pc \in {"collect", "list", "abort"}
  /\ queued \subseteq [to : Target, agreed : BOOLEAN, late : BOOLEAN]

Inv == ScalarsOK /\ BatchesOK /\ HandlersOK /\ NoStaleCommit

-----------------------------------------------------------------------------
(* Lemmas about the data.                                                  *)

\* Batches are numbered from 1.
LEMMA Numbers ==
  ASSUME BatchesOK
  PROVE  /\ BatchNo = 1..Len(batches) /\ Len(batches) \in Nat
         /\ \A b \in BatchNo : batches[b] \in BatchType
BY DEF BatchesOK, BatchNo

\* The files of a folder are targets.
LEMMA FilesType ==
  ASSUME NEW dir \in Dir, NEW names \in Marked \cup Found
  PROVE  /\ Files(dir, names) \in Seq(Target)
         /\ names = <<>> => Files(dir, names) = <<>>
<1>1. names \in Seq(Name)
  BY ConflictAssumption
<1>2. Files(dir, names) \in [1..Len(names) -> Target]
  BY <1>1 DEF Files, Target, Dir
<1>3. Len(names) \in Nat
  BY <1>1
<1>4. Files(dir, names) \in Seq(Target)
  BY <1>2, <1>3
<1>5. names = <<>> => Files(dir, names) = <<>>
  BY <1>1, <1>2, <1>4
<1> QED
  BY <1>4, <1>5

\* A renamed target is a target, and what joins the queue is of the batch's session.
LEMMA CommittedType ==
  ASSUME NEW t \in Target, NEW b \in BatchNo, NEW action, NEW agreed \in BOOLEAN
  PROVE  /\ Committed(t, b, action, agreed) \subseteq
              [to : Target, agreed : BOOLEAN, late : BOOLEAN]
         /\ batches[b].epoch = epoch =>
              \A item \in Committed(t, b, action, agreed) : ~item.late
<1>1. Uniquify(t, b) \subseteq Target
  <2>1. Numbered[t.name] \in Seq(Name)
    BY ConflictAssumption DEF Target
  <2>2. \A k \in DOMAIN Numbered[t.name] : Numbered[t.name][k] \in Name
    BY <2>1
  <2>3. \A k \in DOMAIN Numbered[t.name] :
          [t EXCEPT !.name = Numbered[t.name][k]] \in Target
    BY <2>2 DEF Target
  <2> QED
    BY <2>3 DEF Uniquify
<1>2. PICK where \in SUBSET Target :
         Committed(t, b, action, agreed) =
           {[to |-> u, agreed |-> agreed, late |-> batches[b].epoch # epoch] : u \in where}
  <2>1. CASE action = "write"
    BY <2>1 DEF Committed
  <2>2. CASE action = "rename"
    BY <1>1, <2>2 DEF Committed
  <2>3. CASE action \notin {"write", "rename"}
    BY <2>3 DEF Committed
  <2> QED
    BY <2>1, <2>2, <2>3
<1> DEFINE isLate == batches[b].epoch # epoch
<1>3. \A item \in Committed(t, b, action, agreed) :
        \E u \in Target : item = [to |-> u, agreed |-> agreed, late |-> isLate]
  BY <1>2
<1>4. isLate \in BOOLEAN
  OBVIOUS
<1> HIDE DEF isLate
<1>5. \A item \in Committed(t, b, action, agreed) :
        item \in [to : Target, agreed : BOOLEAN, late : BOOLEAN] /\ item.late = isLate
  BY <1>3, <1>4
<1>6. batches[b].epoch = epoch => isLate = FALSE
  BY DEF isLate
<1> QED
  BY <1>5, <1>6

\* The policy's outcomes are actions.
LEMMA ClassifyType ==
  ASSUME NEW t, policy \in Policies
  PROVE  \A action \in Classify(t) :
           action \in {"write", "skip", "resume", "rename", "ask"}
BY ConflictAssumption DEF Classify

\* One batch changes.
LEMMA Updated ==
  ASSUME BatchesOK, NEW b \in BatchNo, NEW r \in BatchType
  PROVE  LET after == [batches EXCEPT ![b] = r] IN
           /\ after \in Seq(BatchType) /\ Len(after) = Len(batches)
           /\ DOMAIN after = DOMAIN batches
           /\ after[b] = r /\ \A c \in BatchNo : c # b => after[c] = batches[c]
BY Numbers DEF BatchesOK, BatchNo

\* Cancelling the walk's batch changes nothing else.
LEMMA CancelWalkKeeps ==
  ASSUME BatchesOK, ScalarsOK
  PROVE  /\ CancelWalk(batches) \in Seq(BatchType)
         /\ Len(CancelWalk(batches)) = Len(batches)
         /\ DOMAIN CancelWalk(batches) = DOMAIN batches
         /\ \A b \in BatchNo :
              /\ BatchGood(CancelWalk(batches)[b], epoch)
              /\ CancelWalk(batches)[b].epoch = batches[b].epoch
              /\ CancelWalk(batches)[b].pending = batches[b].pending
              /\ CancelWalk(batches)[b].ask = batches[b].ask
              /\ batches[b].cancelled => CancelWalk(batches)[b].cancelled
<1>1. CASE walkBatch = 0
  BY <1>1, Numbers DEF CancelWalk, BatchesOK
<1>2. CASE walkBatch # 0
  <2>1. walkBatch \in BatchNo /\ batches[walkBatch] \in BatchType
    BY <1>2, Numbers DEF ScalarsOK
  <2> DEFINE r == [batches[walkBatch] EXCEPT !.cancelled = TRUE]
  <2>2. CancelWalk(batches) = [batches EXCEPT ![walkBatch] = r]
    BY <1>2 DEF CancelWalk
  <2>3. /\ r \in BatchType /\ BatchGood(r, epoch) /\ r.epoch = batches[walkBatch].epoch
        /\ r.pending = batches[walkBatch].pending /\ r.ask = batches[walkBatch].ask
        /\ r.cancelled
    BY <2>1 DEF BatchType, BatchesOK, BatchGood
  <2> HIDE DEF r
  <2> QED
    BY <2>1, <2>2, <2>3, Updated DEF BatchesOK
<1> QED
  BY <1>1, <1>2

-----------------------------------------------------------------------------
(* The initial states and every step.                                      *)

\* Initially there is no batch.
LEMMA InitInv == ConflictInit => Inv
BY ConflictAssumption
DEF ConflictInit, Inv, ScalarsOK, BatchesOK, HandlersOK, NoStaleCommit, NoWalk, Dir, Target,
    BatchNo

\* The strengthened invariant has the types of the specification.
LEMMA InvTypes == Inv => ConflictTypeOK
BY Numbers DEF Inv, ScalarsOK, BatchesOK, BatchGood, BatchType, ConflictTypeOK

\* A step that changes one batch, the rest of the session as it was.
LEMMA OneBatch ==
  ASSUME Inv, NEW b \in BatchNo, NEW r \in BatchType, batches' = [batches EXCEPT ![b] = r],
         BatchGood(r, epoch), r.epoch = batches[b].epoch,
         UNCHANGED <<sessionVars, walkBatch, walk>>
  PROVE  /\ BatchesOK' /\ Len(batches') = Len(batches)
         /\ \A c \in BatchNo : batches'[c].epoch = batches[c].epoch
         /\ walkBatch # 0 => batches'[walkBatch].epoch = epoch
<1>1. /\ batches' \in Seq(BatchType) /\ Len(batches') = Len(batches)
      /\ DOMAIN batches' = DOMAIN batches
      /\ batches'[b] = r /\ \A c \in BatchNo : c # b => batches'[c] = batches[c]
  BY Updated DEF Inv
<1>2. epoch' = epoch
  BY DEF sessionVars
<1>3. walkBatch # 0 => walkBatch \in BatchNo
  BY Numbers DEF Inv, ScalarsOK
<1> QED
  BY <1>1, <1>2, <1>3 DEF Inv, BatchesOK, BatchNo, HandlersOK

\* A handler offers the next request to its batch.
LEMMA OfferInv == ASSUME Inv, Offer PROVE Inv'
<1>1. into \in BatchNo /\ batches[into] \in BatchType /\ Head(offers) \in Target
      /\ Tail(offers) \in Seq(Target) /\ Len(offers) \in Nat
      /\ (Len(offers) = 1 <=> Tail(offers) = <<>>)
  <2>1. offers \in Seq(Target) /\ offers # <<>> /\ into # 0 /\ into \in 0..Len(batches)
    BY DEF Inv, ScalarsOK, HandlersOK, Offer
  <2>2. into \in BatchNo /\ batches[into] \in BatchType
    BY <2>1, Numbers DEF Inv
  <2>3. /\ Head(offers) \in Target /\ Tail(offers) \in Seq(Target)
        /\ Len(Tail(offers)) = Len(offers) - 1 /\ Len(offers) \in Nat
    BY <2>1, HeadTailProperties
  <2>4. Len(Tail(offers)) = 0 <=> Tail(offers) = <<>>
    BY <2>3, EmptySeq
  <2> QED
    BY <2>2, <2>3, <2>4
<1>2. /\ BatchesOK' /\ Len(batches') = Len(batches)
      /\ \A c \in BatchNo : batches'[c].epoch = batches[c].epoch
      /\ walkBatch # 0 => batches'[walkBatch].epoch = epoch
  <2>1. CASE batches[into].cancelled
    BY <2>1, <1>1 DEF Offer, Inv, BatchesOK, BatchNo, HandlersOK, sessionVars
  <2>2. CASE ~batches[into].cancelled
    <3> DEFINE r == [batches[into] EXCEPT !.pending = Append(@, Head(offers))]
    <3>1. batches' = [batches EXCEPT ![into] = r]
      BY <2>2 DEF Offer
    <3>2. Append(batches[into].pending, Head(offers)) \in Seq(Target)
      BY <1>1 DEF BatchType
    <3>3. r \in BatchType /\ r.epoch = batches[into].epoch
      BY <1>1, <3>2 DEF BatchType
    <3>4. BatchGood(r, epoch)
      <4>1. batches[into].epoch = epoch /\ BatchGood(batches[into], epoch)
        BY <1>1 DEF Inv, BatchesOK, HandlersOK, Offer
      <4> QED
        BY <1>1, <4>1 DEF BatchType, BatchGood
    <3> HIDE DEF r
    <3> QED
      BY <1>1, <3>1, <3>3, <3>4, OneBatch DEF Offer
  <2> QED
    BY <2>1, <2>2
<1>3. UNCHANGED <<sessionVars, walkBatch, walk, queued>>
      /\ offers' = Tail(offers) /\ into' = IF Len(offers) = 1 THEN 0 ELSE into
  BY DEF Offer
<1>4. ScalarsOK'
  BY <1>1, <1>2, <1>3 DEF Inv, ScalarsOK, sessionVars
<1>5. HandlersOK'
  BY <1>1, <1>2, <1>3 DEF Inv, HandlersOK, sessionVars
<1> QED
  BY <1>2, <1>3, <1>4, <1>5 DEF Inv, NoStaleCommit

\* A decision about one batch queues files for this session.
LEMMA Decision ==
  ASSUME Inv, NEW b \in BatchNo, NEW r \in BatchType, batches' = [batches EXCEPT ![b] = r],
         BatchGood(r, epoch), r.epoch = batches[b].epoch,
         UNCHANGED <<sessionVars, walkBatch, walk, offers, into>>,
         \A item \in queued' : \/ item \in queued
                               \/ /\ item \in [to : Target, agreed : BOOLEAN, late : BOOLEAN]
                                  /\ ~item.late
  PROVE  Inv'
<1>1. /\ BatchesOK' /\ Len(batches') = Len(batches)
      /\ \A c \in BatchNo : batches'[c].epoch = batches[c].epoch
      /\ walkBatch # 0 => batches'[walkBatch].epoch = epoch
  BY OneBatch
<1>2. ScalarsOK'
  BY <1>1 DEF Inv, ScalarsOK, sessionVars
<1>3. HandlersOK'
  <2>1. offers # <<>> => into \in BatchNo
    BY Numbers DEF Inv, ScalarsOK, HandlersOK
  <2> QED
    BY <1>1, <2>1 DEF Inv, HandlersOK, sessionVars
<1>4. NoStaleCommit'
  BY DEF Inv, NoStaleCommit
<1> QED
  BY <1>1, <1>2, <1>3, <1>4 DEF Inv

\* What is taken off the head of a batch.
LEMMA Taken ==
  ASSUME NEW b \in BatchNo, BatchesOK, Pumpable(b)
  PROVE  /\ batches[b] \in BatchType /\ BatchGood(batches[b], epoch)
         /\ Head(batches[b].pending) \in Target
         /\ Tail(batches[b].pending) \in Seq(Target)
         /\ batches[b].epoch = epoch /\ batches[b].ask = "none" /\ ~batches[b].cancelled
<1>1. /\ batches[b] \in BatchType /\ BatchGood(batches[b], epoch)
      /\ batches[b].pending # <<>> /\ batches[b].ask = "none" /\ ~batches[b].cancelled
  BY Numbers DEF BatchesOK, Pumpable, Waits
<1>2. batches[b].pending \in Seq(Target)
  BY <1>1 DEF BatchType
<1> QED
  BY <1>1, <1>2, HeadTailProperties DEF BatchGood

\* A request that is decided is queued for this session, as a pumped batch is of it.
LEMMA PumpDecidesInv == ASSUME Inv, NEW b \in BatchNo, PumpDecides(b) PROVE Inv'
<1> DEFINE t == Head(batches[b].pending)
           r == [batches[b] EXCEPT !.pending = Tail(@)]
<1>1. /\ batches[b] \in BatchType /\ BatchGood(batches[b], epoch) /\ t \in Target
      /\ Tail(batches[b].pending) \in Seq(Target) /\ batches[b].epoch = epoch
      /\ batches[b].ask = "none" /\ ~batches[b].cancelled
  BY Taken DEF Inv, PumpDecides
<1>2. r \in BatchType /\ BatchGood(r, epoch) /\ r.epoch = batches[b].epoch
  BY <1>1 DEF BatchType, BatchGood
<1>3. batches' = [batches EXCEPT ![b] = r]
  BY DEF PumpDecides
<1>4. \E agreed \in BOOLEAN : \E action :
        queued' = queued \cup Committed(t, b, action, agreed)
  <2> DEFINE yes == policy \in {"overwrite", "newer", "resume"} \/ batches[b].writeAll
  <2>1. yes \in BOOLEAN
    OBVIOUS
  <2>2. \E action : queued' = queued \cup Committed(t, b, action, yes)
    BY DEF PumpDecides
  <2> HIDE DEF yes
  <2> QED
    BY <2>1, <2>2
<1>5. \A item \in queued' : \/ item \in queued
                            \/ /\ item \in [to : Target, agreed : BOOLEAN, late : BOOLEAN]
                               /\ ~item.late
  BY <1>1, <1>4, CommittedType
<1> HIDE DEF r, t
<1> QED
  BY <1>2, <1>3, <1>5, Decision DEF PumpDecides

\* A question is asked in the session of its batch.
LEMMA PumpAsksInv == ASSUME Inv, NEW b \in BatchNo, PumpAsks(b) PROVE Inv'
<1> DEFINE t == Head(batches[b].pending)
           r == [batches[b] EXCEPT !.pending = Tail(@), !.ask = "open", !.held = <<t>>,
                                   !.asked = epoch]
<1>1. /\ batches[b] \in BatchType /\ BatchGood(batches[b], epoch) /\ t \in Target
      /\ Tail(batches[b].pending) \in Seq(Target) /\ batches[b].epoch = epoch
  BY Taken DEF Inv, PumpAsks
<1>2. <<t>> \in Seq(Target) /\ Len(<<t>>) = 1 /\ epoch \in Nat /\ epoch \in 1..epoch
  BY <1>1, ConflictAssumption DEF Inv, ScalarsOK
<1>3. r \in BatchType /\ BatchGood(r, epoch) /\ r.epoch = batches[b].epoch
  BY <1>1, <1>2 DEF BatchType, BatchGood
<1>4. batches' = [batches EXCEPT ![b] = r]
  BY DEF PumpAsks
<1> HIDE DEF r, t
<1> QED
  BY <1>3, <1>4, Decision DEF PumpAsks

\* An answer resumes a batch of this session only.
LEMMA AnswerInv ==
  ASSUME Inv, NEW b \in BatchNo, NEW choice \in Choice, Answer(b, choice) PROVE Inv'
<1> DEFINE x == batches[b]
<1>1. /\ x \in BatchType /\ BatchGood(x, epoch)
      /\ x.ask = "open" /\ Len(x.held) = 1 /\ x.asked = x.epoch
  BY Numbers DEF Inv, BatchesOK, BatchGood, Answer
<1>2. PICK nobody \in Seq(Target) : nobody = <<>> /\ Len(nobody) = 0
  BY EmptySeq
<1> HIDE DEF x
<1>3. CASE ~Accepts(b)
  <2> DEFINE r == [x EXCEPT !.ask = "lost", !.held = nobody]
  <2>1. r \in BatchType /\ BatchGood(r, epoch) /\ r.epoch = x.epoch
    <3>1. r \in BatchType
      BY <1>1, <1>2 DEF BatchType
    <3>2. BatchGood(r, epoch)
      BY <1>1, <1>2 DEF BatchType, BatchGood
    <3>3. r.epoch = x.epoch
      BY <1>1, <1>2 DEF BatchType
    <3> QED
      BY <3>1, <3>2, <3>3
  <2>2. batches' = [batches EXCEPT ![b] = r] /\ queued' = queued
    BY <1>2, <1>3 DEF Answer, x
  <2> HIDE DEF r
  <2> QED
    BY <2>1, <2>2, Decision DEF Answer, x
<1>4. CASE Accepts(b) /\ choice = "cancel rest"
  <2> DEFINE r == [x EXCEPT !.ask = "none", !.held = nobody, !.pending = nobody,
                                     !.cancelled = TRUE]
  <2>1. r \in BatchType /\ BatchGood(r, epoch) /\ r.epoch = x.epoch
    <3>1. r \in BatchType
      BY <1>1, <1>2 DEF BatchType
    <3>2. BatchGood(r, epoch)
      BY <1>1, <1>2 DEF BatchType, BatchGood
    <3>3. r.epoch = x.epoch
      BY <1>1, <1>2 DEF BatchType
    <3> QED
      BY <3>1, <3>2, <3>3
  <2>2. batches' = [batches EXCEPT ![b] = r] /\ queued' = queued
    BY <1>2, <1>4 DEF Answer, x
  <2> HIDE DEF r
  <2> QED
    BY <2>1, <2>2, Decision DEF Answer, x
<1>5. CASE Accepts(b) /\ choice # "cancel rest"
  <2> DEFINE r == [x EXCEPT !.ask = "none", !.held = nobody, !.all = AllAction(b, choice),
                                     !.writeAll = (choice = "write all")]
  <2>1. x.epoch = epoch
    BY <1>1, <1>5 DEF Accepts, x
  <2>2. AllAction(b, choice) \in {"none", "write", "skip", "rename"}
    BY <1>1 DEF AllAction, ActionFor, BatchType, x
  <2>3. r \in BatchType /\ BatchGood(r, epoch) /\ r.epoch = x.epoch
    <3>1. r \in BatchType
      BY <1>1, <1>2, <2>1, <2>2 DEF BatchType
    <3>2. BatchGood(r, epoch)
      BY <1>1, <1>2, <2>1, <2>2 DEF BatchType, BatchGood
    <3>3. r.epoch = x.epoch
      BY <1>1, <1>2, <2>1, <2>2 DEF BatchType
    <3> QED
      BY <3>1, <3>2, <3>3
  <2>4. /\ batches' = [batches EXCEPT ![b] = r]
        /\ queued' = queued \cup Committed(batches[b].held[1], b, ActionFor(choice), TRUE)
    BY <1>2, <1>5 DEF Answer, x
  <2>5. batches[b].held[1] \in Target
    BY <1>1 DEF BatchType, x
  <2>6. \A item \in queued' : \/ item \in queued
                              \/ /\ item \in [to : Target, agreed : BOOLEAN, late : BOOLEAN]
                                 /\ ~item.late
    BY <2>1, <2>4, <2>5, CommittedType DEF x
  <2> HIDE DEF r
  <2> QED
    BY <2>3, <2>4, <2>6, Decision DEF Answer, x
<1> QED
  BY <1>3, <1>4, <1>5

\* A new batch is of this session.
LEMMA TransferSelectionInv ==
  ASSUME Inv, NEW names \in Marked, NEW folder \in BOOLEAN, TransferSelection(names, folder)
  PROVE  Inv'
<1> DEFINE n == Len(batches) + 1
<1>1. /\ batches' = Append(batches, NewBatch) /\ offers' = Files("top", names)
      /\ into' = IF names = <<>> THEN 0 ELSE n
      /\ UNCHANGED <<sessionVars, queued>>
      /\ \/ /\ walk' = [pc |-> "collect", folders |-> walk.folders + 1]
            /\ walk.folders < MaxFolders /\ walk.pc \in {"none", "collect"}
            /\ walkBatch' = IF walkBatch = 0 THEN n ELSE walkBatch
         \/ UNCHANGED <<walk, walkBatch>>
  BY DEF TransferSelection, Collecting
<1>2. epoch \in Nat /\ epoch \in 1..epoch /\ epoch' = epoch
  BY <1>1, ConflictAssumption DEF Inv, ScalarsOK, sessionVars
<1>3. NewBatch \in BatchType /\ BatchGood(NewBatch, epoch) /\ NewBatch.epoch = epoch
  <2>1. PICK nobody \in Seq(Target) : nobody = <<>> /\ Len(nobody) = 0
    BY EmptySeq
  <2> QED
    BY <1>2, <2>1 DEF NewBatch, BatchType, BatchGood
<1>4. /\ batches' \in Seq(BatchType) /\ Len(batches') = n /\ DOMAIN batches' = 1..n
      /\ batches'[n] = NewBatch /\ \A b \in BatchNo : batches'[b] = batches[b]
      /\ BatchNo = 1..Len(batches) /\ Len(batches) \in Nat /\ BatchNo' = 1..n
  <2> HIDE DEF NewBatch
  <2> QED
    BY <1>1, <1>3, Numbers DEF Inv, BatchesOK, BatchNo
<1>5. BatchesOK'
  <2>1. \A b \in 1..n : b \in BatchNo \/ b = n
    BY <1>4
  <2> QED
    BY <1>2, <1>3, <1>4, <2>1 DEF Inv, BatchesOK
<1>6. Files("top", names) \in Seq(Target) /\ (names = <<>> => Files("top", names) = <<>>)
  BY FilesType DEF Dir
<1>7. ScalarsOK'
  <2>1. walk' \in [pc : {"none", "collect", "list", "result", "abort"}, folders : 0..MaxFolders]
    BY <1>1, ConflictAssumption DEF Inv, ScalarsOK
  <2>2. walkBatch' \in 0..n /\ into' \in 0..n
    BY <1>1, <1>4 DEF Inv, ScalarsOK
  <2>3. walkBatch' # 0 <=> walk'.pc \in {"collect", "list", "abort"}
    BY <1>1, <1>4 DEF Inv, ScalarsOK
  <2> QED
    BY <1>1, <1>4, <1>6, <2>1, <2>2, <2>3 DEF Inv, ScalarsOK, sessionVars
<1>8. HandlersOK'
  <2>1. walkBatch' # 0 => batches'[walkBatch'].epoch = epoch
    <3>1. walkBatch # 0 => walkBatch \in BatchNo /\ batches[walkBatch].epoch = epoch
      BY <1>4 DEF Inv, ScalarsOK, HandlersOK
    <3> QED
      BY <1>1, <1>3, <1>4, <3>1
  <2>2. offers' # <<>> => into' = n /\ into' # 0
    BY <1>1, <1>4, <1>6
  <2> QED
    BY <1>2, <1>3, <1>4, <2>1, <2>2 DEF HandlersOK
<1> QED
  BY <1>1, <1>5, <1>7, <1>8 DEF Inv, NoStaleCommit

\* The walk's batch is forgotten and perhaps cancelled; the session may end with it, as no
\* batch is being pumped.
LEMMA Cancelled ==
  ASSUME Inv, Idle, batches' = CancelWalk(batches), walkBatch' = 0, walk' \in [pc : {"none"}, folders : {0}],
         epoch' \in {epoch, epoch + 1} \cap 1..MaxEpochs, connected' \in BOOLEAN,
         UNCHANGED <<upload, policy, occupied, shown, offers, into, queued>>
  PROVE  Inv'
<1>1. /\ batches' \in Seq(BatchType) /\ Len(batches') = Len(batches) /\ BatchNo' = BatchNo
      /\ \A b \in BatchNo : /\ BatchGood(batches'[b], epoch)
                            /\ batches'[b].epoch = batches[b].epoch
                            /\ batches'[b].pending = batches[b].pending
                            /\ batches'[b].ask = batches[b].ask
                            /\ batches[b].cancelled => batches'[b].cancelled
  BY CancelWalkKeeps DEF Inv, BatchNo
<1>2. ASSUME NEW b \in BatchNo PROVE BatchGood(batches'[b], epoch')
  <2>1. ~Pumpable(b)
    BY DEF Idle
  <2>2. ~(batches'[b].pending # <<>> /\ batches'[b].ask = "none" /\ ~batches'[b].cancelled)
    BY <1>1, <2>1 DEF Pumpable, Waits
  <2>3. BatchGood(batches'[b], epoch) /\ epoch \in Nat /\ epoch' \in {epoch, epoch + 1}
    BY <1>1, ConflictAssumption DEF Inv, ScalarsOK
  <2> QED
    BY <2>2, <2>3 DEF BatchGood
<1>3. BatchesOK'
  BY <1>1, <1>2 DEF BatchesOK
<1>4. ScalarsOK'
  BY <1>1, ConflictAssumption DEF Inv, ScalarsOK
<1>5. HandlersOK'
  BY DEF HandlersOK, Idle
<1> QED
  BY <1>3, <1>4, <1>5 DEF Inv, NoStaleCommit

\* A step of the walk that leaves the batches alone; what it offers goes to its own batch.
LEMMA Walked ==
  ASSUME Inv, Idle, UNCHANGED <<sessionVars, batches, queued>>,
         walk' \in [pc : {"none", "collect", "list", "result", "abort"}, folders : 0..MaxFolders],
         walkBatch' \in {0, walkBatch},
         walkBatch' # 0 <=> walk'.pc \in {"collect", "list", "abort"},
         \/ UNCHANGED <<offers, into>>
         \/ offers' \in Seq(Target) /\ into' = walkBatch /\ walkBatch # 0
  PROVE  Inv'
<1>1. BatchesOK'
  BY DEF Inv, BatchesOK, BatchNo, sessionVars
<1>2. ScalarsOK'
  BY DEF Inv, ScalarsOK, sessionVars
<1>3. HandlersOK'
  BY DEF Inv, HandlersOK, Idle, sessionVars
<1> QED
  BY <1>1, <1>2, <1>3 DEF Inv, NoStaleCommit

\* Every step of a walk.
LEMMA WalkInv == ASSUME Inv, WalkStep PROVE Inv'
<1>1. CASE WalkDownload
  <2>1. NoWalk \in [pc : {"none"}, folders : 0..MaxFolders]
    BY ConflictAssumption DEF NoWalk
  <2> QED
    BY <1>1, <2>1, Walked, ConflictAssumption DEF WalkDownload, Walking, Inv, ScalarsOK
<1>2. CASE WalkFails \/ WalkUploadEnds
  BY <1>2, Cancelled, ConflictAssumption
  DEF WalkFails, WalkUploadEnds, NoWalk, sessionVars, Inv, ScalarsOK
<1>3. ASSUME NEW names \in Found, WalkListed(names) PROVE Inv'
  BY <1>3, Walked, FilesType DEF WalkListed, Inv, ScalarsOK, Dir
<1>4. ASSUME NEW names \in Found, WalkUpload(names) PROVE Inv'
  BY <1>4, Walked, FilesType DEF WalkUpload, Walking, Inv, ScalarsOK, Dir
<1>5. CASE WalkAborts
  BY <1>5, Walked DEF WalkAborts, Walking, Inv, ScalarsOK
<1> QED
  BY <1>1, <1>2, <1>3, <1>4, <1>5 DEF WalkStep

\* The session ends, and with it the walk's batch; a new one finds no batch to pump.
LEMMA SessionInv == ASSUME Inv, Navigated \/ SessionLost \/ SessionReady PROVE Inv'
<1>1. CASE SessionLost
  <2>1. epoch' \in {epoch, epoch + 1} \cap 1..MaxEpochs
    BY <1>1, ConflictAssumption DEF SessionLost, InvalidateConflictAsks, Inv, ScalarsOK
  <2>2. walk' \in [pc : {"none"}, folders : {0}] /\ connected' \in BOOLEAN
    BY <1>1 DEF SessionLost, NoWalk
  <2> QED
    BY <1>1, <2>1, <2>2, Cancelled DEF SessionLost, InvalidateConflictAsks
<1>2. CASE Navigated \/ SessionReady
  <2>1. ScalarsOK'
    BY <1>2 DEF Navigated, SessionReady, Inv, ScalarsOK, Dir
  <2> QED
    BY <1>2, <2>1
    DEF Navigated, SessionReady, Inv, BatchesOK, BatchNo, HandlersOK, NoStaleCommit
<1> QED
  BY <1>1, <1>2

\* Every step keeps the invariant.
LEMMA NextInv == Inv /\ [ConflictNext]_conflictVars => Inv'
<1> SUFFICES ASSUME Inv, [ConflictNext]_conflictVars PROVE Inv'
  OBVIOUS
<1>1. CASE UNCHANGED conflictVars
  BY <1>1 DEF conflictVars, sessionVars, Inv, ScalarsOK, BatchesOK, BatchNo, HandlersOK,
              NoStaleCommit
<1>2. CASE Enqueue
  BY <1>2, OfferInv, PumpDecidesInv, PumpAsksInv DEF Enqueue
<1> QED
  BY <1>1, <1>2, WalkInv, SessionInv, TransferSelectionInv, AnswerInv DEF ConflictNext

-----------------------------------------------------------------------------
\* Every variable keeps its type, and a walk that may still offer files has a batch: for
\* any names, selections, folders, policies and number of batches and sessions.
THEOREM ConflictTypes == ConflictSpec => []ConflictTypeOK
BY InitInv, NextInv, InvTypes, PTL DEF ConflictSpec

\* Nothing is queued for a session that is over: neither by an answer that comes late, nor
\* by a walk, nor by a batch that waited while the session was lost and made again.
THEOREM NothingStale == ConflictSpec => []NoStaleCommit
<1>1. Inv => NoStaleCommit
  BY DEF Inv
<1> QED
  BY InitInv, NextInv, <1>1, PTL DEF ConflictSpec

-----------------------------------------------------------------------------
(* What the user or the policy agreed to.                                  *)

\* A batch writes over the rest only when the user said so last, and asks only while no
\* answer is for the rest.
Minds(r) ==
  /\ r.all = "write" => r.writeAll
  /\ r.ask = "open" => r.all = "none"

AnswersKept == \A b \in BatchNo : Minds(batches[b])

AgreedInv == Inv /\ AnswersKept /\ DownloadAgreed

\* What joins the queue of a download is agreed to or writes over nothing.
LEMMA CommittedAgreed ==
  ASSUME ~upload, NEW t \in Target, NEW b \in BatchNo, NEW action, NEW agreed \in BOOLEAN,
         action = "write" /\ t \in occupied => agreed
  PROVE  \A item \in Committed(t, b, action, agreed) : item.to \in occupied => item.agreed
<1>1. \A u \in Uniquify(t, b) : u \notin occupied
  BY DEF Uniquify, DestinationOccupied, DestExists
<1> DEFINE isLate == batches[b].epoch # epoch
<1>2. CASE action = "write"
  <2>1. Committed(t, b, action, agreed) = {[to |-> t, agreed |-> agreed, late |-> isLate]}
    BY <1>2 DEF Committed
  <2> QED
    BY <1>2, <2>1
<1>3. CASE action = "rename"
  <2>1. Committed(t, b, action, agreed) =
          {[to |-> u, agreed |-> agreed, late |-> isLate] : u \in Uniquify(t, b)}
    BY <1>3 DEF Committed
  <2> HIDE DEF isLate
  <2> QED
    BY <1>1, <2>1
<1>4. CASE action \notin {"write", "rename"}
  BY <1>4 DEF Committed
<1> QED
  BY <1>2, <1>3, <1>4

\* The policy writes over a file that exists only when it is one of those that do.
LEMMA PolicyWrites ==
  ASSUME ~upload, policy \in Policies, NEW t \in occupied, NEW action \in Classify(t)
  PROVE  action = "write" => policy \in {"overwrite", "newer", "resume"}
<1>1. DestExists(t)
  BY DEF DestExists
<1>2. policy \in {"overwrite", "skip", "newer", "resume", "rename", "ask"}
  BY ConflictAssumption
<1> QED
  BY <1>1, <1>2 DEF Classify

\* One batch changes, and may still write over the rest only as the user said.
LEMMA OneMinds ==
  ASSUME Inv, AnswersKept, NEW b \in BatchNo, NEW r \in BatchType, Minds(r),
         batches' = [batches EXCEPT ![b] = r]
  PROVE  AnswersKept'
<1>1. /\ DOMAIN batches' = DOMAIN batches
      /\ batches'[b] = r /\ \A c \in BatchNo : c # b => batches'[c] = batches[c]
  BY Updated DEF Inv
<1> QED
  BY <1>1 DEF AnswersKept, BatchNo

\* A request leaves a batch without a word of the user's, or is held to ask about.
LEMMA PumpedMinds ==
  ASSUME Inv, AnswersKept, NEW b \in BatchNo, PumpDecides(b) \/ PumpAsks(b)
  PROVE  AnswersKept'
<1> DEFINE t == Head(batches[b].pending)
<1>1. /\ batches[b] \in BatchType /\ t \in Target /\ Tail(batches[b].pending) \in Seq(Target)
      /\ Minds(batches[b])
  BY Taken DEF Inv, AnswersKept, PumpDecides, PumpAsks
<1>2. CASE PumpDecides(b)
  <2> DEFINE r == [batches[b] EXCEPT !.pending = Tail(@)]
  <2>1. r \in BatchType /\ Minds(r) /\ batches' = [batches EXCEPT ![b] = r]
    BY <1>1, <1>2 DEF BatchType, Minds, PumpDecides
  <2> HIDE DEF r
  <2> QED
    BY <2>1, OneMinds
<1>3. CASE PumpAsks(b)
  <2> DEFINE r == [batches[b] EXCEPT !.pending = Tail(@), !.ask = "open", !.held = <<t>>,
                                     !.asked = epoch]
  <2>1. <<t>> \in Seq(Target) /\ epoch \in Nat
    BY <1>1, ConflictAssumption DEF Inv, ScalarsOK
  <2>2. r \in BatchType /\ Minds(r)
    BY <1>1, <1>3, <2>1 DEF BatchType, Minds, PumpAsks
  <2>3. batches' = [batches EXCEPT ![b] = r]
    BY <1>3 DEF PumpAsks
  <2> HIDE DEF r
  <2> QED
    BY <2>2, <2>3, OneMinds
<1> QED
  BY <1>2, <1>3

\* An answer for the rest is kept, with whether it was to write; any other keeps none.
LEMMA AnsweredMinds ==
  ASSUME Inv, AnswersKept, NEW b \in BatchNo, NEW choice \in Choice, Answer(b, choice)
  PROVE  AnswersKept'
<1> DEFINE x == batches[b]
<1>1. x \in BatchType /\ x.all = "none" /\ x.ask = "open"
  BY Numbers DEF Inv, AnswersKept, Minds, Answer
<1>2. PICK nobody \in Seq(Target) : nobody = <<>>
  BY EmptySeq
<1> HIDE DEF x
<1>3. CASE ~Accepts(b)
  <2> DEFINE r == [x EXCEPT !.ask = "lost", !.held = nobody]
  <2>1. r \in BatchType /\ Minds(r)
    BY <1>1, <1>2 DEF BatchType, Minds
  <2>2. batches' = [batches EXCEPT ![b] = r]
    BY <1>2, <1>3 DEF Answer, x
  <2> HIDE DEF r
  <2> QED
    BY <2>1, <2>2, OneMinds
<1>4. CASE Accepts(b) /\ choice = "cancel rest"
  <2> DEFINE r == [x EXCEPT !.ask = "none", !.held = nobody, !.pending = nobody,
                                     !.cancelled = TRUE]
  <2>1. r \in BatchType
    BY <1>1, <1>2 DEF BatchType
  <2>2. Minds(r)
    BY <1>1, <1>2 DEF BatchType, Minds
  <2>3. batches' = [batches EXCEPT ![b] = r]
    BY <1>2, <1>4 DEF Answer, x
  <2> HIDE DEF r
  <2> QED
    BY <2>1, <2>2, <2>3, OneMinds
<1>5. CASE Accepts(b) /\ choice # "cancel rest"
  <2> DEFINE r == [x EXCEPT !.ask = "none", !.held = nobody, !.all = AllAction(b, choice),
                                     !.writeAll = (choice = "write all")]
  <2>1. /\ AllAction(b, choice) \in {"none", "write", "skip", "rename"}
        /\ AllAction(b, choice) = "write" => choice = "write all"
    BY <1>1 DEF AllAction, ActionFor, x
  <2>2. r \in BatchType
    BY <1>1, <1>2, <2>1 DEF BatchType
  <2>3. Minds(r)
    BY <1>1, <1>2, <2>1 DEF BatchType, Minds
  <2>4. batches' = [batches EXCEPT ![b] = r]
    BY <1>2, <1>5 DEF Answer, x
  <2> HIDE DEF r
  <2> QED
    BY <2>2, <2>3, <2>4, OneMinds
<1> QED
  BY <1>3, <1>4, <1>5

\* The batches stay, but for what they have pending and that they are cancelled.
LEMMA OthersMind ==
  ASSUME Inv, AnswersKept, Offer \/ WalkStep \/ Navigated \/ SessionLost \/ SessionReady
  PROVE  AnswersKept'
<1>1. CASE UNCHANGED batches
  BY <1>1 DEF AnswersKept, BatchNo
<1>2. CASE Offer
  <2>1. into \in BatchNo /\ batches[into] \in BatchType /\ Head(offers) \in Target
    <3>1. offers \in Seq(Target) /\ offers # <<>> /\ into # 0 /\ into \in 0..Len(batches)
      BY <1>2 DEF Inv, ScalarsOK, HandlersOK, Offer
    <3> QED
      BY <3>1, Numbers, HeadTailProperties DEF Inv
  <2> DEFINE r == [batches[into] EXCEPT !.pending = Append(@, Head(offers))]
  <2>2. Append(batches[into].pending, Head(offers)) \in Seq(Target)
    BY <2>1 DEF BatchType
  <2>3. r \in BatchType /\ Minds(r)
    BY <2>1, <2>2 DEF BatchType, Minds, AnswersKept
  <2>4. batches' = [batches EXCEPT ![into] = r] \/ batches' = batches
    BY <1>2 DEF Offer
  <2> HIDE DEF r
  <2> QED
    BY <1>1, <2>1, <2>3, <2>4, OneMinds
<1>3. CASE batches' = CancelWalk(batches)
  <2>1. CASE walkBatch = 0
    BY <1>1, <1>3, <2>1 DEF CancelWalk
  <2>2. CASE walkBatch # 0
    <3>1. walkBatch \in BatchNo /\ batches[walkBatch] \in BatchType
      BY <2>2, Numbers DEF Inv, ScalarsOK
    <3> DEFINE r == [batches[walkBatch] EXCEPT !.cancelled = TRUE]
    <3>2. r \in BatchType /\ Minds(r)
      BY <3>1 DEF BatchType, Minds, AnswersKept
    <3>3. batches' = [batches EXCEPT ![walkBatch] = r]
      BY <1>3, <2>2 DEF CancelWalk
    <3> HIDE DEF r
    <3> QED
      BY <3>1, <3>2, <3>3, OneMinds
  <2> QED
    BY <2>1, <2>2
<1> QED
  BY <1>1, <1>2, <1>3
  DEF WalkStep, WalkDownload, WalkListed, WalkFails, WalkUpload, WalkAborts, WalkUploadEnds,
      Navigated, SessionLost, InvalidateConflictAsks, SessionReady

\* A new batch has no answer.
LEMMA SelectionMinds ==
  ASSUME Inv, AnswersKept, batches' = Append(batches, NewBatch)
  PROVE  AnswersKept'
<1>1. Minds(NewBatch)
  BY DEF Minds, NewBatch
<1>2. batches \in Seq(BatchType)
  BY DEF Inv, BatchesOK
<1>3. \A b \in BatchNo' : \/ b \in BatchNo /\ batches'[b] = batches[b]
                          \/ batches'[b] = NewBatch
  BY <1>2, Numbers DEF Inv, BatchNo
<1> QED
  BY <1>1, <1>3 DEF AnswersKept

\* What a pump or an answer queues was agreed to.
LEMMA QueuedAgreed ==
  ASSUME AgreedInv, ConflictNext
  PROVE  DownloadAgreed'
<1> SUFFICES ASSUME ~upload', NEW item \in queued', item.to \in occupied'
             PROVE  item.agreed
  BY DEF DownloadAgreed
<1>1. /\ upload' = upload /\ occupied' = occupied
      /\ \/ UNCHANGED queued
         \/ \E b \in BatchNo : PumpDecides(b)
         \/ \E b \in BatchNo, choice \in Choice : Answer(b, choice)
  BY DEF ConflictNext, Enqueue, Offer, PumpDecides, PumpAsks, WalkStep, WalkDownload, WalkListed,
         WalkFails, WalkUpload, WalkAborts, WalkUploadEnds, TransferSelection, Answer,
         Navigated, SessionLost, SessionReady, sessionVars
<1>2. item \in queued => item.agreed
  BY <1>1 DEF AgreedInv, DownloadAgreed
<1>3. ASSUME NEW b \in BatchNo, PumpDecides(b), item \notin queued PROVE item.agreed
  <2> DEFINE t == Head(batches[b].pending)
             yes == policy \in {"overwrite", "newer", "resume"} \/ batches[b].writeAll
  <2>1. batches[b] \in BatchType /\ t \in Target /\ Minds(batches[b])
    BY <1>3, Taken DEF AgreedInv, Inv, AnswersKept, PumpDecides
  <2>2. PICK action \in Classify(t) :
          /\ action = "ask" => batches[b].all # "none"
          /\ queued' = queued \cup
               Committed(t, b, IF action = "ask" THEN batches[b].all ELSE action, yes)
    BY <1>3 DEF PumpDecides
  <2> DEFINE done == IF action = "ask" THEN batches[b].all ELSE action
  <2>3. ASSUME done = "write", t \in occupied PROVE yes
    <3>1. CASE action = "ask"
      BY <2>1, <2>3, <3>1 DEF Minds
    <3>2. CASE action # "ask"
      BY <1>1, <2>3, <3>2, PolicyWrites DEF AgreedInv, Inv, ScalarsOK
    <3> QED
      BY <3>1, <3>2
  <2>4. yes \in BOOLEAN
    OBVIOUS
  <2>5. item \in Committed(t, b, done, yes)
    BY <1>3, <2>2
  <2> HIDE DEF t, yes, done
  <2>6. \A i \in Committed(t, b, done, yes) : i.to \in occupied => i.agreed
    BY <1>1, <2>1, <2>3, <2>4, CommittedAgreed
  <2> QED
    BY <1>1, <2>5, <2>6
<1>4. ASSUME NEW b \in BatchNo, NEW choice \in Choice, Answer(b, choice), item \notin queued
      PROVE  item.agreed
  <2>1. /\ Accepts(b)
        /\ item \in Committed(batches[b].held[1], b, ActionFor(choice), TRUE)
    BY <1>4 DEF Answer
  <2>2. batches[b].held[1] \in Target
    <3>1. batches[b] \in BatchType /\ Len(batches[b].held) = 1
      BY <1>4, Numbers DEF AgreedInv, Inv, BatchesOK, BatchGood, Answer
    <3> QED
      BY <3>1 DEF BatchType
  <2> QED
    BY <1>1, <2>1, <2>2, CommittedAgreed
<1> QED
  BY <1>1, <1>2, <1>3, <1>4

\* Every step keeps the agreement.
LEMMA NextAgreed == AgreedInv /\ [ConflictNext]_conflictVars => AgreedInv'
<1> SUFFICES ASSUME AgreedInv, [ConflictNext]_conflictVars PROVE AgreedInv'
  OBVIOUS
<1>1. Inv'
  BY NextInv DEF AgreedInv
<1>2. CASE UNCHANGED conflictVars
  BY <1>1, <1>2 DEF conflictVars, sessionVars, AgreedInv, AnswersKept, BatchNo, DownloadAgreed
<1>3. CASE ConflictNext
  <2>1. DownloadAgreed'
    BY <1>3, QueuedAgreed
  <2>2. AnswersKept'
    <3>1. Inv /\ AnswersKept
      BY DEF AgreedInv
    <3>2. \A names, folder : TransferSelection(names, folder) =>
                               batches' = Append(batches, NewBatch)
      BY DEF TransferSelection
    <3> QED
      BY <1>3, <3>1, <3>2, PumpedMinds, AnsweredMinds, OthersMind, SelectionMinds
      DEF ConflictNext, Enqueue
  <2> QED
    BY <1>1, <2>1, <2>2 DEF AgreedInv
<1> QED
  BY <1>2, <1>3

\* No download writes over a file that exists unless the policy says so or the user did: for
\* any policy and however answers, walks, selections and sessions interleave.
THEOREM DownloadsAreAgreed == ConflictSpec => []DownloadAgreed
<1>1. ConflictInit => AgreedInv
  BY InitInv DEF ConflictInit, AgreedInv, AnswersKept, BatchNo, DownloadAgreed
<1>2. AgreedInv => DownloadAgreed
  BY DEF AgreedInv
<1> QED
  BY <1>1, <1>2, NextAgreed, PTL DEF ConflictSpec
=============================================================================
