--------------------------- MODULE MCEachTransfer ---------------------------
(* An instance of TransferScheduler for TLC in which every behaviour       *)
(* transfers one file only, in either direction.  An upload may meet two   *)
(* faults, and a download one fault and one more operation of the user.    *)
EXTENDS MCTransferScheduler

VARIABLE only   \* the file

EachInit == Init /\ only \in Item

EachNext ==
  /\ Next /\ UNCHANGED only
  /\ \A i \in Item \ {only} : status'[i] = "absent"
  /\ IF only \in Upload THEN ops' = 0 ELSE faults' <= 1

EachSpec == EachInit /\ [][EachNext]_<<vars, only>> /\ Fairness

\* A file that is queued and not held is decided: no chunk waits forever for a follower
\* permission, a channel or a reconnect that never comes.
Settles ==
  status[only] \in {"queued", "transferring"} /\ ~paused[only]
    ~> status[only] \in {"succeeded", "failed", "absent"} \/ paused[only]
=============================================================================
