----------------------------- MODULE LocalDelete -----------------------------
(***************************************************************************)
(* Deleting local files in Parvion: delete_local_async hands a batch of    *)
(* paths to a detached thread, which shares three atomic counters with the *)
(* UI; poll() folds the counters into a re-listing of the pane and, after  *)
(* the last item, into one report (session.hpp, local_del_state).          *)
(***************************************************************************)
EXTENDS Naturals, FiniteSets

CONSTANTS
  Batch,   \* the delete requests of the user
  Size     \* Size[b]: paths of batch b

ASSUME DeleteAssumption ==
  /\ IsFiniteSet(Batch)
  /\ Size \in [Batch -> Nat \ {0}]

VARIABLES
  stage,     \* where the thread of a batch is
  left,      \* paths it has still to remove
  done,      \* local_del_state::done
  fails,     \* local_del_state::fails
  running,   \* local_del_state::running
  pc,        \* where the UI thread is in poll()
  saw,       \* del_running: what poll() read of running
  seen,      \* ldel_seen
  failed,    \* failures so far
  told,      \* failures reported to the user
  heard      \* the batches started before some report

shared == <<done, fails, running>>
ui     == <<pc, saw, seen>>
ghosts == <<failed, told, heard>>
vars   == <<stage, left, shared, ui, ghosts>>

Started == {b \in Batch : stage[b] # "none"}
Active  == {b \in Batch : stage[b] \notin {"none", "over"}}

Init ==
  /\ stage = [b \in Batch |-> "none"]
  /\ left = Size
  /\ done = 0 /\ fails = 0 /\ running = 0
  /\ pc = "ui" /\ saw = 0 /\ seen = 0
  /\ failed = 0 /\ told = 0 /\ heard = {}

-----------------------------------------------------------------------------
(* The user and the worker threads.                                        *)

\* Mutant: the batch is not counted as running.
DeleteUncounted(b) ==
  /\ pc = "ui" /\ stage[b] = "none"
  /\ stage' = [stage EXCEPT ![b] = "remove"]
  /\ UNCHANGED <<left, shared, ui, ghosts>>

\* delete_local_async
DeleteLocalAsync(b) ==
  /\ pc = "ui" /\ stage[b] = "none"
  /\ running' = running + 1
  /\ stage' = [stage EXCEPT ![b] = "remove"]
  /\ UNCHANGED <<left, done, fails, ui, ghosts>>

\* fs::remove_all of the next path, which may report an error.
RemoveAll(b) ==
  /\ stage[b] = "remove"
  /\ \E outcome \in {"fail", "count"} : stage' = [stage EXCEPT ![b] = outcome]
  /\ UNCHANGED <<left, shared, ui, ghosts>>

AddFail(b) ==
  /\ stage[b] = "fail"
  /\ fails' = fails + 1 /\ failed' = failed + 1
  /\ stage' = [stage EXCEPT ![b] = "count"]
  /\ UNCHANGED <<left, done, running, ui, told, heard>>

AddDone(b) ==
  /\ stage[b] = "count"
  /\ done' = done + 1
  /\ left' = [left EXCEPT ![b] = @ - 1]
  /\ stage' = [stage EXCEPT ![b] = IF left[b] = 1 THEN "leave" ELSE "remove"]
  /\ UNCHANGED <<fails, running, ui, ghosts>>

SubRunning(b) ==
  /\ stage[b] = "leave"
  /\ running' = running - 1
  /\ stage' = [stage EXCEPT ![b] = "over"]
  /\ UNCHANGED <<left, done, fails, ui, ghosts>>

-----------------------------------------------------------------------------
(* poll() on the UI thread.                                                *)

ReadRunning ==
  /\ pc = "ui"
  /\ saw' = running /\ pc' = "done"
  /\ UNCHANGED <<stage, left, shared, seen, ghosts>>

\* Mutant: every new `done' is taken for the last one.
ReadDoneReports ==
  /\ pc = "done"
  /\ seen' = done
  /\ pc' = IF done # seen THEN "report" ELSE "ui"
  /\ UNCHANGED <<stage, left, shared, saw, ghosts>>

\* A new `done' re-lists the pane; it is final if `running' was 0 before.
ReadDone ==
  /\ pc = "done"
  /\ seen' = done
  /\ pc' = IF done # seen /\ saw = 0 THEN "report" ELSE "ui"
  /\ UNCHANGED <<stage, left, shared, saw, ghosts>>

\* Mutant: the failures are read, not taken.
ReportTwice ==
  /\ pc = "report"
  /\ told' = told + fails
  /\ heard' = Started
  /\ pc' = "ui"
  /\ UNCHANGED <<stage, left, shared, saw, seen, failed>>

\* `Delete finished.', or how many items could not be deleted.
Report ==
  /\ pc = "report"
  /\ told' = told + fails /\ fails' = 0
  /\ heard' = Started
  /\ pc' = "ui"
  /\ UNCHANGED <<stage, left, done, running, saw, seen, failed>>

-----------------------------------------------------------------------------
Thread(b) == RemoveAll(b) \/ AddFail(b) \/ AddDone(b) \/ SubRunning(b)
Poll == ReadRunning \/ ReadDone \/ Report

Next ==
  \/ \E b \in Batch : DeleteLocalAsync(b) \/ Thread(b)
  \/ Poll

Spec == Init /\ [][Next]_vars

\* poll() is called by the UI timer again and again; a thread goes on to its end.
FairSpec == Spec /\ WF_vars(Poll) /\ \A b \in Batch : WF_vars(Thread(b))

-----------------------------------------------------------------------------
\* The type of every variable.
TypeOK ==
  /\ stage \in [Batch -> {"none", "remove", "fail", "count", "leave", "over"}]
  /\ left \in [Batch -> Nat]
  /\ done \in Nat /\ fails \in Nat /\ running \in Nat
  /\ pc \in {"ui", "done", "report"} /\ saw \in Nat /\ seen \in Nat
  /\ failed \in Nat /\ told \in Nat /\ heard \subseteq Batch

\* A report comes after everything it speaks of: no thread is still deleting, and
\* no item was counted after poll() read `done' (the comment in poll(): `seeing 0
\* means every worker's last `done' increment is already visible').
ReportIsFinal ==
  pc = "report" => Active = {} /\ seen = done

\* A failure is reported at most once, and none is dropped by the exchange.
FailuresToldOnce == told + fails = failed

\* Every batch ends in a report of its result (`Delete finished.' or the number of
\* items that could not be deleted).
EveryBatchReported ==
  \A b \in Batch : stage[b] = "over" ~> b \in heard
=============================================================================
