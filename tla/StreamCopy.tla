----------------------------- MODULE StreamCopy -----------------------------
(***************************************************************************)
(* What the data path between the application and its transfer helper      *)
(* promises: the units of a file arrive in order, none twice and none left *)
(* out, and a transfer is reported complete only when all of them arrived. *)
(***************************************************************************)
EXTENDS Naturals, Sequences

CONSTANT MaxLen   \* the longest file, in units

VARIABLES
  size,     \* units of the file
  arrived,  \* what its target received, unit by unit
  outcome   \* "none", "ok" or "fail"

streamVars == <<size, arrived, outcome>>

\* The first n units of a file.
Units(n) == [k \in 1..n |-> k]

StreamInit == size = 0 /\ arrived = <<>> /\ outcome = "none"

\* A transfer starts over with a file of n units.
Begin(n) == size' = n /\ arrived' = <<>> /\ outcome' = "none"

\* Some of the units that follow arrive.
Arrive(n) ==
  /\ outcome # "ok" /\ Len(arrived) + n <= size
  /\ arrived' = Units(Len(arrived) + n)
  /\ UNCHANGED <<size, outcome>>

Finish == arrived = Units(size) /\ outcome' = "ok" /\ UNCHANGED <<size, arrived>>

Fail == outcome' = "fail" /\ UNCHANGED <<size, arrived>>

StreamNext ==
  \/ \E n \in 0..MaxLen : Begin(n) \/ Arrive(n)
  \/ Finish
  \/ Fail

StreamSpec == StreamInit /\ [][StreamNext]_streamVars

-----------------------------------------------------------------------------
\* What arrived is a beginning of the file, and all of it once it is complete.
StreamOK ==
  /\ size \in Nat
  /\ Len(arrived) <= size
  /\ arrived = Units(Len(arrived))
  /\ outcome = "ok" => arrived = Units(size)
=============================================================================
