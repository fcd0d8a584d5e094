------------------------------- MODULE ShmRing -------------------------------
(***************************************************************************)
(* The data path of a Parvion transfer: a ring of shared-memory slots      *)
(* passed between the I/O thread that reads or writes the local file, the  *)
(* reader thread that serves the helper's io_* requests, and the helper    *)
(* process on the other side of two pipes (sftp_session in session.hpp;    *)
(* psftp.c, fzsftp.c, unix/uxsftp.c).  The UI thread starts transfers on   *)
(* the helper, one after the other, and stops it.                          *)
(***************************************************************************)
EXTENDS Naturals, Sequences, FiniteSets, Functions, SequencesExt

CONSTANTS
  Slots,      \* ring_count
  SlotUnits,  \* units of a file that fit a slot (buf_bytes)
  MaxLen,     \* the longest file, in units
  Flows,      \* of "credit" and "legacy": credit_io_enabled(), for downloads
  MaxStarts,  \* transfers that are started
  MaxMishaps  \* failures of disk, server or helper, and pauses by the user

ASSUME RingAssumption ==
  /\ Slots \in Nat \ {0} /\ SlotUnits \in Nat \ {0} /\ MaxLen \in Nat
  /\ Flows \subseteq {"credit", "legacy"}
  /\ MaxStarts \in Nat /\ MaxMishaps \in Nat

RingSlot == 0..Slots - 1
None == Slots                  \* no slot

VARIABLES
  flow,                        \* PARVION_CREDIT_IO, the same at both ends
  mode, whole, length,         \* io_download, io_length = -1, and the file
  free, ready, lent,           \* free_slots, ready_slots, io_cur
  eof, final, broken, barred,  \* io_eof, io_done, io_err, io_open_err
  halt,                        \* io_stop
  memory,                      \* the units in each slot
  flusher,                     \* the I/O thread
  reader,                      \* the reader thread
  boss,                        \* the UI thread
  toHelper, toApp, inbox,      \* the two pipes, and the results for the UI
  helper,                      \* the helper process
  landed,                      \* the units in the target
  starts, mishaps              \* bounds

contextVars == <<flow, mode, whole, length>>
ringState   == <<free, ready, lent>>
flagVars    == <<eof, final, broken, barred, halt>>
pipeVars    == <<toHelper, toApp, inbox>>
boundVars   == <<starts, mishaps>>
ringVars    == <<contextVars, ringState, flagVars, memory, flusher, reader, boss,
                 pipeVars, helper, landed, boundVars>>

NoHelper == [pc |-> "gone", slot |-> None, fill |-> 0, grants |-> <<>>, moved |-> 0,
             ok |-> TRUE, asked |-> FALSE]

RingInit ==
  /\ flow \in Flows /\ mode = "upload" /\ whole = TRUE /\ length = 0
  /\ free = <<>> /\ ready = <<>> /\ lent = None
  /\ eof = FALSE /\ final = FALSE /\ broken = FALSE /\ barred = FALSE /\ halt = FALSE
  /\ memory = [s \in RingSlot |-> <<>>]
  /\ flusher = [pc |-> "none", slot |-> None, n |-> 0, at |-> 0]
  /\ reader = "over"
  /\ boss = [pc |-> "stopped", outcome |-> "none"]
  /\ toHelper = <<>> /\ toApp = <<>> /\ inbox = <<>>
  /\ helper = NoHelper
  /\ landed = <<>>
  /\ starts = 0 /\ mishaps = 0

-----------------------------------------------------------------------------
\* Messages of the two pipes.
Line(k)          == [kind |-> k, slot |-> None, n |-> 0]
SlotLine(k, s, n) == [kind |-> k, slot |-> s, n |-> n]

\* write_line: nobody reads what is written to a helper that is gone.
Says(lines) == toHelper' = IF helper.pc = "gone" THEN toHelper ELSE toHelper \o lines

AllFree == [i \in 1..Slots |-> i - 1]
Piece(from, n) == [i \in 1..n |-> from + i]
Lesser(a, b) == IF a < b THEN a ELSE b

Mishap == mishaps < MaxMishaps /\ mishaps' = mishaps + 1
Smooth == UNCHANGED mishaps

\* The I/O thread has no more steps, so that a join returns.
FlusherOver == flusher.pc \in {"none", "over"}

Download == mode # "upload"

-----------------------------------------------------------------------------
(* The I/O thread: io_loop().                                              *)

Dismiss == flusher' = [flusher EXCEPT !.pc = "over", !.slot = None, !.n = 0]

\* Download: wait for a filled slot, the end, an error or a stop.
FlushWait ==
  /\ flusher.pc = "wait" /\ Download
  /\ \/ /\ halt \/ broken
        /\ Dismiss /\ UNCHANGED ready
     \/ /\ ~halt /\ ~broken /\ ready # <<>>
        /\ flusher' = [flusher EXCEPT !.pc = "flush", !.slot = Head(ready).slot,
                                      !.n = Head(ready).n]
        /\ ready' = Tail(ready)
     \/ /\ ~halt /\ ~broken /\ ready = <<>> /\ final
        /\ flusher' = [flusher EXCEPT !.pc = "finish"]
        /\ UNCHANGED ready
  /\ UNCHANGED <<contextVars, free, lent, flagVars, memory, reader, boss, pipeVars,
                 helper, landed, boundVars>>

\* The trailing fflush.
FlushFinish ==
  /\ flusher.pc = "finish"
  /\ Dismiss
  /\ \/ broken' = TRUE /\ Mishap
     \/ UNCHANGED broken /\ Smooth
  /\ UNCHANGED <<contextVars, ringState, eof, final, barred, halt, memory, reader,
                 boss, pipeVars, helper, landed, starts>>

\* fwrite of the slot (or the hash tap), and the lock that follows it.
FlushWrite ==
  /\ flusher.pc = "flush"
  /\ \/ /\ landed' = landed \o SubSeq(memory[flusher.slot], 1, flusher.n)
        /\ flusher' = IF mode = "credit" THEN [flusher EXCEPT !.pc = "grant"]
                      ELSE [flusher EXCEPT !.pc = "wait", !.slot = None, !.n = 0]
        /\ UNCHANGED broken /\ Smooth
     \/ /\ \E k \in 0..flusher.n - 1 :
             landed' = landed \o SubSeq(memory[flusher.slot], 1, k)
        /\ IF mode = "credit" THEN flusher' = [flusher EXCEPT !.pc = "excuse"] ELSE Dismiss
        /\ broken' = TRUE /\ Mishap
  /\ free' = IF mode = "credit" THEN free ELSE Append(free, flusher.slot)
  /\ UNCHANGED <<contextVars, ready, lent, eof, final, barred, halt, memory, reader,
                 boss, pipeVars, helper, starts>>

\* Mutant: the error is not told to the helper.
FlushSilent ==
  /\ flusher.pc \in {"grant", "excuse"}
  /\ IF flusher.pc = "grant"
     THEN /\ Says(<<SlotLine("grant", flusher.slot, SlotUnits)>>)
          /\ flusher' = [flusher EXCEPT !.pc = "wait", !.slot = None, !.n = 0]
     ELSE Dismiss /\ UNCHANGED toHelper
  /\ UNCHANGED <<contextVars, ringState, flagVars, memory, reader, boss, toApp, inbox,
                 helper, landed, boundVars>>

\* Credit mode: grant the slot again, or tell the helper of the error.
FlushGrant ==
  /\ flusher.pc \in {"grant", "excuse"}
  /\ IF flusher.pc = "grant"
     THEN /\ Says(<<SlotLine("grant", flusher.slot, SlotUnits)>>)
          /\ flusher' = [flusher EXCEPT !.pc = "wait", !.slot = None, !.n = 0]
     ELSE Says(<<Line("error")>>) /\ Dismiss
  /\ UNCHANGED <<contextVars, ringState, flagVars, memory, reader, boss, toApp, inbox,
                 helper, landed, boundVars>>

\* Upload: take a free slot.
FillWait ==
  /\ flusher.pc = "wait" /\ ~Download
  /\ \/ halt /\ Dismiss /\ UNCHANGED free
     \/ /\ ~halt /\ free # <<>>
        /\ flusher' = [flusher EXCEPT !.pc = "fill", !.slot = Head(free)]
        /\ free' = Tail(free)
  /\ UNCHANGED <<contextVars, ready, lent, flagVars, memory, reader, boss, pipeVars,
                 helper, landed, boundVars>>

\* fread: a whole file is read to its end, a chunk up to its length; a read that is
\* short of a chunk is an error.  The lock that follows it publishes the slot.
FillRead ==
  /\ flusher.pc = "fill"
  /\ LET left == length - flusher.at
         want == IF whole THEN SlotUnits ELSE Lesser(SlotUnits, left)
         full == Lesser(want, left)
     IN  \E n \in 0..full :
           /\ \/ n = full /\ UNCHANGED broken /\ Smooth
              \/ n < want /\ broken' = TRUE /\ Mishap
           /\ memory' = [memory EXCEPT ![flusher.slot] = Piece(flusher.at, n)]
           /\ ready' = IF n > 0 THEN Append(ready, SlotLine("slot", flusher.slot, n)) ELSE ready
           /\ free' = IF n > 0 THEN free ELSE Append(free, flusher.slot)
           /\ eof' = (eof \/ n < want \/ (~whole /\ n = left))
           /\ flusher' = [flusher EXCEPT !.at = @ + n, !.slot = None,
                                         !.pc = IF eof' THEN "over" ELSE "wait"]
  /\ UNCHANGED <<contextVars, lent, final, barred, halt, reader, boss, pipeVars, helper,
                 landed, starts>>

Flusher == FlushWait \/ FlushFinish \/ FlushWrite \/ FlushGrant \/ FillWait \/ FillRead

-----------------------------------------------------------------------------
(* The reader thread: one message of the helper at a time, on_parsed().    *)

Read(k) == reader = "read" /\ toApp # <<>> /\ Head(toApp).kind = k
Consume == toApp' = Tail(toApp)
Goto(pc) == reader' = pc
ReadOn == reader' = "read"

\* Quota requests are granted at once.
OnQuota ==
  /\ Read("quota") /\ Consume /\ Says(<<Line("quota")>>)
  /\ UNCHANGED <<contextVars, ringState, flagVars, memory, flusher, reader, boss, inbox,
                 helper, landed, boundVars>>

\* Everything else is for the UI.
OnResult ==
  /\ Read("done") /\ Consume /\ inbox' = Append(inbox, Head(toApp))
  /\ UNCHANGED <<contextVars, ringState, flagVars, memory, flusher, reader, boss,
                 toHelper, helper, landed, boundVars>>

\* on_io_open: stop the I/O thread of the transfer before ...
OnOpen ==
  /\ Read("open") /\ Consume /\ Goto("open")
  /\ halt' = TRUE
  /\ UNCHANGED <<contextVars, ringState, eof, final, broken, barred, memory, flusher, boss,
                 toHelper, inbox, helper, landed, boundVars>>

\* ... open the local file (or miss the mapping), which truncates a whole download ...
OnOpenFile ==
  /\ reader = "open" /\ FlusherOver
  /\ \/ Goto("start") /\ UNCHANGED <<barred, toHelper>> /\ Smooth
     \/ ReadOn /\ barred' = TRUE /\ Says(<<Line("refused")>>) /\ Mishap
  /\ UNCHANGED <<contextVars, ringState, eof, final, broken, halt, memory, flusher, boss,
                 toApp, inbox, helper, landed, starts>>

\* Mutant: the slots that are granted stay in free_slots.
OnOpenStartTwice ==
  /\ reader = "start"
  /\ free' = AllFree /\ ready' = <<>> /\ lent' = None
  /\ eof' = FALSE /\ final' = FALSE /\ broken' = FALSE /\ halt' = FALSE
  /\ flusher' = [pc |-> "wait", slot |-> None, n |-> 0, at |-> 0]
  /\ Says(<<Line("map")>> \o IF mode = "credit"
                             THEN [i \in 1..Slots |-> SlotLine("grant", i - 1, SlotUnits)]
                             ELSE <<>>)
  /\ ReadOn
  /\ UNCHANGED <<contextVars, barred, memory, boss, toApp, inbox, helper, landed, boundVars>>

\* ... start_io_thread with a fresh ring, the mapping, and a grant per slot.
OnOpenStart ==
  /\ reader = "start"
  /\ free' = IF mode = "credit" THEN <<>> ELSE AllFree
  /\ ready' = <<>> /\ lent' = None
  /\ eof' = FALSE /\ final' = FALSE /\ broken' = FALSE /\ halt' = FALSE
  /\ flusher' = [pc |-> "wait", slot |-> None, n |-> 0, at |-> 0]
  /\ Says(<<Line("map")>> \o IF mode = "credit"
                             THEN [i \in 1..Slots |-> SlotLine("grant", i - 1, SlotUnits)]
                             ELSE <<>>)
  /\ ReadOn
  /\ UNCHANGED <<contextVars, barred, memory, boss, toApp, inbox, helper, landed, boundVars>>

ReadyWith(s, n) == IF n > 0 THEN Append(ready, SlotLine("slot", s, n)) ELSE ready

\* on_io_nextbuf in credit mode: queue the filled slot, no reply.
OnNextCredit ==
  /\ Read("next") /\ Consume /\ mode = "credit"
  /\ ready' = ReadyWith(Head(toApp).slot, Head(toApp).n)
  /\ UNCHANGED <<contextVars, free, lent, flagVars, memory, flusher, reader, boss,
                 toHelper, inbox, helper, landed, boundVars>>

\* Otherwise the slot the helper is done with goes back, or to the flush queue ...
OnNextReturn ==
  /\ Read("next") /\ Consume /\ mode # "credit"
  /\ LET flush == Download /\ Head(toApp).n > 0
     IN  /\ ready' = IF lent # None /\ flush THEN ReadyWith(lent, Head(toApp).n) ELSE ready
         /\ free' = IF lent # None /\ ~flush THEN Append(free, lent) ELSE free
  /\ lent' = None
  /\ Goto("next")
  /\ UNCHANGED <<contextVars, flagVars, memory, flusher, boss, toHelper, inbox, helper,
                 landed, boundVars>>

\* ... and the reader waits for the next one to lend.
OnNextLend ==
  /\ reader = "next"
  /\ \/ broken \/ halt
     \/ IF Download THEN free # <<>> ELSE ready # <<>> \/ eof
  /\ CASE broken \/ halt ->
            Says(<<Line("error")>>) /\ UNCHANGED ringState
       [] ~broken /\ ~halt /\ Download ->
            /\ lent' = Head(free) /\ free' = Tail(free)
            /\ Says(<<SlotLine("slot", Head(free), SlotUnits)>>)
            /\ UNCHANGED ready
       [] ~broken /\ ~halt /\ ~Download /\ ready = <<>> ->
            Says(<<Line("eof")>>) /\ UNCHANGED ringState
       [] ~broken /\ ~halt /\ ~Download /\ ready # <<>> ->
            /\ lent' = Head(ready).slot /\ ready' = Tail(ready)
            /\ Says(<<SlotLine("slot", Head(ready).slot, Head(ready).n)>>)
            /\ UNCHANGED free
  /\ ReadOn
  /\ UNCHANGED <<contextVars, flagVars, memory, flusher, boss, toApp, inbox, helper,
                 landed, boundVars>>

\* Mutant: without credits, the trailing slot is taken for one that was flushed.
OnFinalizeDrops ==
  /\ Read("final") /\ Consume
  /\ ready' = IF mode = "credit" THEN ReadyWith(Head(toApp).slot, Head(toApp).n) ELSE ready
  /\ lent' = None
  /\ final' = TRUE
  /\ Goto("final")
  /\ UNCHANGED <<contextVars, free, eof, broken, barred, halt, memory, flusher, boss,
                 toHelper, inbox, helper, landed, boundVars>>

\* on_io_finalize: queue the trailing slot ...
OnFinalize ==
  /\ Read("final") /\ Consume
  /\ ready' = IF mode = "credit" THEN ReadyWith(Head(toApp).slot, Head(toApp).n)
              ELSE IF lent # None THEN ReadyWith(lent, Head(toApp).n) ELSE ready
  /\ lent' = None
  /\ final' = TRUE
  /\ Goto("final")
  /\ UNCHANGED <<contextVars, free, eof, broken, barred, halt, memory, flusher, boss,
                 toHelper, inbox, helper, landed, boundVars>>

\* Mutant: the verdict does not wait for the flush queue.
OnFinalizeEarly ==
  /\ reader = "final"
  /\ Says(<<Line(IF broken THEN "lost" ELSE "kept")>>)
  /\ ReadOn
  /\ UNCHANGED <<contextVars, ringState, flagVars, memory, flusher, boss, toApp, inbox,
                 helper, landed, boundVars>>

\* ... and join the I/O thread, which drains the queue first, for the verdict.
OnFinalizeJoin ==
  /\ reader = "final" /\ FlusherOver
  /\ Says(<<Line(IF broken THEN "lost" ELSE "kept")>>)
  /\ ReadOn
  /\ UNCHANGED <<contextVars, ringState, flagVars, memory, flusher, boss, toApp, inbox,
                 helper, landed, boundVars>>

\* The helper is gone and its output is read: running = faux.
OnEnd ==
  /\ reader = "read" /\ toApp = <<>> /\ helper.pc = "gone"
  /\ Goto("over")
  /\ UNCHANGED <<contextVars, ringState, flagVars, memory, flusher, boss, pipeVars, helper,
                 landed, boundVars>>

Reader ==
  \/ OnQuota \/ OnResult \/ OnOpen \/ OnOpenFile \/ OnOpenStart \/ OnNextCredit
  \/ OnNextReturn \/ OnNextLend \/ OnFinalize \/ OnFinalizeJoin \/ OnEnd

-----------------------------------------------------------------------------
(* The helper process: one command at a time.                              *)

Hears(k) == toHelper # <<>> /\ Head(toHelper).kind = k
Take == toHelper' = Tail(toHelper)
Tells(m) == toApp' = Append(toApp, m)
Turn(pc) == helper' = [helper EXCEPT !.pc = pc]
Fails(pc) == helper' = [helper EXCEPT !.pc = pc, !.ok = FALSE]
HelperOnly == UNCHANGED <<contextVars, ringState, flagVars, flusher, reader, boss, inbox, starts>>

\* Mutant: grants left from the last download are kept.
CommandKeeps ==
  /\ helper.pc = "command" /\ Hears("get") /\ Take
  /\ \/ /\ helper' = [helper EXCEPT !.pc = "open", !.slot = None, !.fill = 0, !.moved = 0,
                                    !.ok = TRUE, !.asked = FALSE]
        /\ Tells(Line("open")) /\ Smooth
     \/ Fails("report") /\ UNCHANGED toApp /\ Mishap
  /\ HelperOnly /\ UNCHANGED <<memory, landed>>

\* get, put, parvion-get or parvion-put: a download starts with no grants; the server
\* may refuse its side of the file.
Command ==
  /\ helper.pc = "command" /\ Hears("get") /\ Take
  /\ \/ /\ helper' = [helper EXCEPT !.pc = "open", !.slot = None, !.fill = 0, !.moved = 0,
                                    !.ok = TRUE, !.asked = FALSE,
                                    !.grants = IF Download THEN <<>> ELSE @]
        /\ Tells(Line("open")) /\ Smooth
     \/ Fails("report") /\ UNCHANGED toApp /\ Mishap
  /\ HelperOnly /\ UNCHANGED <<memory, landed>>

\* A reply nobody waits for is not a quota line: the helper gives up.
StrayLine ==
  /\ helper.pc = "command" /\ toHelper # <<>> /\ ~Hears("get")
  /\ helper' = NoHelper
  /\ HelperOnly /\ UNCHANGED <<toHelper, toApp, memory, landed, mishaps>>

\* priority_read and next_grant put grants aside, whatever they wait for.
Siphon ==
  /\ helper.pc \in {"open", "ask", "quota", "final"} /\ Hears("grant") /\ Take
  /\ helper' = [helper EXCEPT !.grants = Append(@, Head(toHelper).slot)]
  /\ HelperOnly /\ UNCHANGED <<toApp, memory, landed, mishaps>>

Opened ==
  /\ helper.pc = "open"
  /\ \/ Hears("map") /\ Turn("run")
     \/ Hears("refused") /\ Fails("report")
  /\ Take
  /\ HelperOnly /\ UNCHANGED <<toApp, memory, landed, mishaps>>

Full == helper.slot = None \/ helper.fill = SlotUnits
Expects == IF Download \/ ~whole THEN helper.moved < length ELSE TRUE

\* A unit from the server goes to the slot.
Store ==
  /\ helper.pc = "run" /\ Download /\ Expects /\ ~Full
  /\ memory' = [memory EXCEPT ![helper.slot] =
                  Append(SubSeq(@, 1, helper.fill), helper.moved + 1)]
  /\ helper' = [helper EXCEPT !.fill = @ + 1, !.moved = @ + 1]
  /\ HelperOnly /\ UNCHANGED <<toHelper, toApp, landed, mishaps>>

\* A unit of the slot goes to the server.
Send ==
  /\ helper.pc = "run" /\ ~Download /\ Expects /\ helper.fill > 0
  /\ LET unit == memory[helper.slot][Len(memory[helper.slot]) - helper.fill + 1]
     IN  landed' = Append(landed, unit)
  /\ helper' = [helper EXCEPT !.fill = @ - 1, !.moved = @ + 1]
  /\ HelperOnly /\ UNCHANGED <<toHelper, toApp, memory, mishaps>>

\* The slot is used up: ask for the next one.  In credit mode this hands the filled
\* slot over and waits for a grant only.
Ask ==
  /\ helper.pc = "run" /\ Expects
  /\ IF Download THEN Full ELSE helper.fill = 0
  /\ IF mode = "credit" /\ helper.slot = None
     THEN UNCHANGED toApp
     ELSE Tells(SlotLine("next", helper.slot, helper.fill))
  /\ Turn("ask")
  /\ HelperOnly /\ UNCHANGED <<toHelper, memory, landed, mishaps>>

NextGrant ==
  /\ mode = "credit" /\ helper.pc = "ask" /\ helper.grants # <<>>
  /\ helper' = [helper EXCEPT !.pc = "run", !.slot = Head(helper.grants), !.fill = 0,
                              !.grants = Tail(@)]
  /\ HelperOnly /\ UNCHANGED <<toHelper, toApp, memory, landed, mishaps>>

NextLent ==
  /\ mode # "credit" /\ helper.pc = "ask" /\ Hears("slot") /\ Take
  /\ helper' = [helper EXCEPT !.pc = "run", !.slot = Head(toHelper).slot,
                              !.fill = IF Download THEN 0 ELSE Head(toHelper).n]
  /\ HelperOnly /\ UNCHANGED <<toApp, memory, landed, mishaps>>

\* The end of a whole upload, or an error: neither is finalized.
NextNone ==
  /\ helper.pc = "ask"
  /\ \/ Hears("eof") /\ Turn("report")
     \/ (mode = "credit" => helper.grants = <<>>) /\ Hears("error") /\ Fails("report")
  /\ Take
  /\ HelperOnly /\ UNCHANGED <<toApp, memory, landed, mishaps>>

\* RequestQuota on the way of a unit; an error line there ends the helper.
Quota ==
  /\ \/ /\ helper.pc = "run" /\ ~helper.asked /\ Expects
        /\ Tells(Line("quota"))
        /\ helper' = [helper EXCEPT !.pc = "quota", !.asked = TRUE]
        /\ UNCHANGED toHelper
     \/ /\ helper.pc = "quota" /\ Hears("quota") /\ Take /\ Turn("run")
        /\ UNCHANGED toApp
     \/ /\ helper.pc = "quota" /\ Hears("error")
        /\ helper' = NoHelper /\ UNCHANGED <<toHelper, toApp>>
  /\ HelperOnly /\ UNCHANGED <<memory, landed, mishaps>>

Trailing == SlotLine("final", helper.slot, IF helper.slot = None THEN 0 ELSE helper.fill)

\* All units moved: a download is finalized, also after a failure of the server.
Finalize ==
  /\ helper.pc = "run"
  /\ \/ ~Expects /\ Smooth /\ Turn(IF Download THEN "final" ELSE "report")
     \/ Mishap /\ Fails(IF Download THEN "final" ELSE "report")
  /\ IF Download THEN Tells(Trailing) ELSE UNCHANGED toApp
  /\ HelperOnly /\ UNCHANGED <<toHelper, memory, landed>>

Finalized ==
  /\ helper.pc = "final"
  /\ \/ Hears("kept") /\ Turn("report")
     \/ (Hears("lost") \/ Hears("error")) /\ Fails("report")
  /\ Take
  /\ HelperOnly /\ UNCHANGED <<toApp, memory, landed, mishaps>>

\* Done, with the result code.
ReportDone ==
  /\ helper.pc = "report"
  /\ Tells(SlotLine("done", None, IF helper.ok THEN 1 ELSE 0))
  /\ Turn("command")
  /\ HelperOnly /\ UNCHANGED <<toHelper, memory, landed, mishaps>>

HelperStep ==
  \/ Command \/ StrayLine \/ Siphon \/ Opened \/ Store \/ Send \/ Ask \/ NextGrant
  \/ NextLent \/ NextNone \/ Quota \/ Finalize \/ Finalized \/ ReportDone

HelperDies ==
  /\ helper.pc # "gone" /\ Mishap
  /\ helper' = NoHelper
  /\ HelperOnly /\ UNCHANGED <<toHelper, toApp, memory, landed>>

-----------------------------------------------------------------------------
(* The UI thread.                                                          *)

BossGoes(pc) == boss' = [boss EXCEPT !.pc = pc]

\* launch(): a new mapping, new pipes, a new reader.
Launch ==
  /\ boss.pc = "stopped" /\ starts < MaxStarts
  /\ helper' = [NoHelper EXCEPT !.pc = "command"]
  /\ ReadOn
  /\ toHelper' = <<>> /\ toApp' = <<>>
  /\ BossGoes("ready")
  /\ UNCHANGED <<contextVars, ringState, flagVars, memory, flusher, inbox, landed, boundVars>>

\* set_io_context: stop the I/O thread ...
SetIoContext ==
  /\ boss.pc = "ready" /\ starts < MaxStarts
  /\ halt' = TRUE
  /\ BossGoes("context")
  /\ UNCHANGED <<contextVars, ringState, eof, final, broken, barred, memory, flusher, reader,
                 pipeVars, helper, landed, boundVars>>

\* ... then publish the next transfer and send its command.
SendXfer ==
  /\ boss.pc = "context" /\ FlusherOver
  /\ mode' \in {"upload", flow} /\ length' \in 0..MaxLen
  /\ whole' \in (IF mode' = "upload" THEN BOOLEAN ELSE {TRUE})
  /\ broken' = FALSE /\ barred' = FALSE
  /\ landed' = <<>>
  /\ Says(<<Line("get")>>)
  /\ boss' = [pc |-> "wait", outcome |-> "none"]
  /\ starts' = starts + 1
  /\ UNCHANGED <<flow, ringState, eof, final, halt, memory, flusher, reader, toApp, inbox, helper,
                 mishaps>>

\* The Done of the helper, and what local_io_failed() says.
Result ==
  /\ boss.pc = "wait" /\ inbox # <<>>
  /\ inbox' = Tail(inbox)
  /\ boss' = IF Head(inbox).n = 1 /\ ~broken /\ ~barred
             THEN [pc |-> "ready", outcome |-> "ok"]
             ELSE [pc |-> "kill", outcome |-> "fail"]
  /\ UNCHANGED <<contextVars, ringState, flagVars, memory, flusher, reader, toHelper, toApp,
                 helper, landed, boundVars>>

\* The helper is gone; a Done that came after drain() is not read any more.
ConnectionClosed ==
  /\ boss.pc = "wait" /\ reader = "over"
  /\ boss' = [pc |-> "kill", outcome |-> "fail"]
  /\ UNCHANGED <<contextVars, ringState, flagVars, memory, flusher, reader, pipeVars, helper,
                 landed, boundVars>>

\* Pause or Remove, or the reaper of idle connections.
Pause ==
  /\ boss.pc \in {"wait", "ready"} /\ Mishap
  /\ BossGoes("kill")
  /\ UNCHANGED <<contextVars, ringState, flagVars, memory, flusher, reader, pipeVars, helper,
                 landed, starts>>

\* stop(): kill the helper ...
StopKill ==
  /\ boss.pc = "kill"
  /\ helper' = NoHelper /\ BossGoes("signal")
  /\ UNCHANGED <<contextVars, ringState, flagVars, memory, flusher, reader, pipeVars, landed,
                 boundVars>>

\* ... wake who waits on the ring ...
StopSignal ==
  /\ boss.pc = "signal"
  /\ halt' = TRUE /\ BossGoes("join")
  /\ UNCHANGED <<contextVars, ringState, eof, final, broken, barred, memory, flusher, reader,
                 pipeVars, helper, landed, boundVars>>

\* Mutant: destroy_shm only joins the I/O thread.
StopJoinOnly ==
  /\ boss.pc = "join" /\ reader = "over"
  /\ BossGoes("drop")
  /\ UNCHANGED <<contextVars, ringState, flagVars, memory, flusher, reader, pipeVars, helper,
                 landed, boundVars>>

\* ... join the reader, and signal the I/O thread again, as the reader may have reset
\* io_stop in on_io_open meanwhile ...
StopJoin ==
  /\ boss.pc = "join" /\ reader = "over"
  /\ halt' = TRUE /\ BossGoes("drop")
  /\ UNCHANGED <<contextVars, ringState, eof, final, broken, barred, memory, flusher, reader,
                 pipeVars, helper, landed, boundVars>>

\* ... join it, unmap the ring and forget the results.
StopDrop ==
  /\ boss.pc = "drop" /\ FlusherOver
  /\ BossGoes("stopped") /\ inbox' = <<>>
  /\ UNCHANGED <<contextVars, ringState, flagVars, memory, flusher, reader, toHelper, toApp,
                 helper, landed, boundVars>>

BossPolls == SendXfer \/ Result \/ ConnectionClosed
Stop == StopKill \/ StopSignal \/ StopJoin \/ StopDrop

RingNext ==
  \/ Flusher \/ Reader \/ HelperStep \/ HelperDies
  \/ Launch \/ SetIoContext \/ BossPolls \/ Pause \/ Stop

RingSpec == RingInit /\ [][RingNext]_ringVars

\* Every thread runs on, and so does the helper: the server answers or fails.  Nothing
\* is assumed of mishaps, of new transfers or of the user.
RingFairness ==
  /\ WF_ringVars(Flusher) /\ WF_ringVars(Reader) /\ WF_ringVars(HelperStep)
  /\ WF_ringVars(BossPolls) /\ WF_ringVars(Stop)

FairRing == RingSpec /\ RingFairness

-----------------------------------------------------------------------------
SlotLines == [kind : {"slot"}, slot : RingSlot, n : 1..SlotUnits]

\* The type of every variable.  The helper's grants fit its FIFO, which holds no more
\* than the ring has slots (PARVION_CREDIT_MAX).
RingTypeOK ==
  /\ flow \in Flows /\ mode \in {"upload", flow} /\ whole \in BOOLEAN /\ length \in 0..MaxLen
  /\ free \in Seq(RingSlot) /\ ready \in Seq(SlotLines) /\ lent \in RingSlot \cup {None}
  /\ {eof, final, broken, barred, halt} \subseteq BOOLEAN
  /\ \A s \in RingSlot : memory[s] \in Seq(1..MaxLen) /\ Len(memory[s]) <= SlotUnits
  /\ flusher.pc \in {"none", "wait", "flush", "grant", "excuse", "finish", "fill", "over"}
  /\ reader \in {"read", "open", "start", "next", "final", "over"}
  /\ boss.pc \in {"ready", "context", "wait", "kill", "signal", "join", "drop", "stopped"}
  /\ boss.outcome \in {"none", "ok", "fail"}
  /\ helper.pc \in {"gone", "command", "open", "run", "ask", "quota", "final", "report"}
  /\ helper.grants \in Seq(RingSlot) /\ Len(helper.grants) <= Slots
  /\ landed \in Seq(1..MaxLen)

\* Every place a slot can be in, with how often it is there.
Holds(seq, s) == Cardinality({i \in DOMAIN seq : seq[i] = s})
HoldsLine(seq, kinds, s) ==
  Cardinality({i \in DOMAIN seq : seq[i].kind \in kinds /\ seq[i].slot = s})
One(b) == IF b THEN 1 ELSE 0

\* Who may touch slot s: the I/O thread, either queue, a line on its way, or the helper,
\* which has let go of its slot once it asks for the next.
Owners(s) ==
  Holds(free, s) + HoldsLine(ready, {"slot"}, s)
  + One(flusher.slot = s)
  + (IF mode = "credit"
     THEN HoldsLine(toHelper, {"grant"}, s) + Holds(helper.grants, s)
          + HoldsLine(toApp, {"next", "final"}, s)
          + One(helper.slot = s /\ helper.pc \in {"run", "quota"})
     ELSE One(lent = s))

\* A slot never has two owners, so that no unit is overwritten before it is used and
\* none is written twice (`one grant per slot it flushes').
SlotOwnedOnce ==
  helper.pc \in {"run", "ask", "quota", "final"} /\ reader # "over"
  /\ boss.pc = "wait" =>
    \A s \in RingSlot : Owners(s) <= 1

\* A helper that is used again finds no line of the last transfer where it looks for
\* its next command: it would take a grant for a quota and give up.
NoStrayLines ==
  boss.pc \in {"ready", "context"} /\ helper.pc = "command" => toHelper = <<>>

Stream == INSTANCE StreamCopy WITH size <- length, arrived <- landed, outcome <- boss.outcome

\* The ring is a stream: units arrive in order, and a transfer that is reported complete is.
ImplementsStream == Stream!StreamSpec

\* Pause and Remove take effect: stop() never waits for ever, whoever was waiting on the ring.
StopReturns == boss.pc = "kill" ~> boss.pc = "stopped"

\* A transfer ends, with whatever goes wrong on the disk, at the server or in the helper.
TransferEnds == boss.pc = "wait" ~> boss.pc # "wait"
=============================================================================
