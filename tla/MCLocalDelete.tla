---------------------------- MODULE MCLocalDelete ----------------------------
(* Instances of LocalDelete for TLC: two batches, or one.                  *)
EXTENDS LocalDelete

CONSTANTS d1, d2

TwoBatches == {d1, d2}
OneBatch   == {d1}
Sizes      == [x \in Batch |-> IF x = d1 THEN 2 ELSE 1]
=============================================================================
