-------------------------- MODULE MCConflictEnqueue --------------------------
(* An instance of ConflictEnqueue for TLC: a selection of two files, both   *)
(* of which exist, and a folder of one.                                     *)
EXTENDS ConflictEnqueue

CONSTANTS a, b, a1

Names    == {a, b, a1}
Numbers  == [x \in Names |-> IF x = a THEN <<a1>> ELSE <<>>]
Selected == {<<a, b>>}
Walked   == {<<a>>}
Taken    == {[dir : Dir, name : {a, b}]}
=============================================================================
