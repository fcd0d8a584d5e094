---------------------------- MODULE ResumableCopy ----------------------------
(***************************************************************************)
(* What the transfer queue promises about a file it copies in chunks:      *)
(* progress that is saved for a later session is in the target, a file is  *)
(* started over only when nothing of it is saved, and a file is delivered  *)
(* only when every chunk of it arrived.  TransferScheduler implements this *)
(* specification; it says nothing of queues, workers, retries or crashes.  *)
(***************************************************************************)
EXTENDS Naturals

CONSTANTS
  File,    \* the files
  Chunk,   \* the chunks: pairs of a file and a number
  Units    \* units per chunk

VARIABLES
  copied,     \* leading units of each chunk in the target
  saved,      \* units of each chunk a later session may skip
  delivered   \* the files reported as transferred

vars == <<copied, saved, delivered>>

Whole(f) == \A c \in Chunk : c[1] = f => copied[c] = Units

Cleared(f, progress) == [c \in Chunk |-> IF c[1] = f THEN 0 ELSE progress[c]]

Init ==
  /\ copied = [c \in Chunk |-> 0]
  /\ saved = [c \in Chunk |-> 0]
  /\ delivered = {}

Copy(c) ==
  /\ copied[c] < Units
  /\ copied' = [copied EXCEPT ![c] = @ + 1]
  /\ UNCHANGED <<saved, delivered>>

\* Save no more than was copied.
Save(c) ==
  /\ \E n \in 0..copied[c] : saved' = [saved EXCEPT ![c] = n]
  /\ UNCHANGED <<copied, delivered>>

Forget(f) ==
  /\ saved' = Cleared(f, saved)
  /\ UNCHANGED <<copied, delivered>>

\* Start over: what was copied is gone.
Restart(f) ==
  /\ f \notin delivered
  /\ \A c \in Chunk : c[1] = f => saved[c] = 0
  /\ copied' = Cleared(f, copied)
  /\ UNCHANGED <<saved, delivered>>

Deliver(f) ==
  /\ Whole(f)
  /\ delivered' = delivered \cup {f}
  /\ saved' = Cleared(f, saved)
  /\ UNCHANGED copied

\* The user copies some files again, removes them, or leaves.
Reopen ==
  /\ delivered' \in SUBSET delivered
  /\ UNCHANGED <<copied, saved>>

Next ==
  \/ \E c \in Chunk : Copy(c) \/ Save(c)
  \/ \E f \in File : Forget(f) \/ Restart(f) \/ Deliver(f)
  \/ Reopen

Spec == Init /\ [][Next]_vars

\* What is saved was copied, and what is delivered is whole.
Sound ==
  /\ copied \in [Chunk -> 0..Units]
  /\ saved \in [Chunk -> Nat]
  /\ \A c \in Chunk : saved[c] <= copied[c]
  /\ \A f \in delivered : Whole(f)
=============================================================================
