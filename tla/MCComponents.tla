---------------------------- MODULE MCComponents ----------------------------
(***************************************************************************)
(* The smaller components, which share no state with each other, in one    *)
(* instance for TLC: a behaviour is one of some component, `part', while   *)
(* the others stay as they began.                                          *)
(***************************************************************************)
EXTENDS MCLocalDelete, HashQueue, MCConflictEnqueue, TileLayout

VARIABLE part   \* the component that runs

PartsInit ==
  /\ part \in {"delete", "hash", "conflict", "tile"}
  /\ Init /\ HashInit /\ ConflictInit /\ TileInit
  /\ part # "conflict" => ~upload /\ policy = "ask"   \* one state is enough

PartsNext ==
  /\ UNCHANGED part
  /\ \/ part = "delete"   /\ Next /\ UNCHANGED <<hashVars, conflictVars, tileVars>>
     \/ part = "hash"     /\ HashNext /\ UNCHANGED <<vars, conflictVars, tileVars>>
     \/ part = "conflict" /\ ConflictNext /\ UNCHANGED <<vars, hashVars, tileVars>>
     \/ part = "tile"     /\ TileNext /\ UNCHANGED <<vars, hashVars, conflictVars>>

\* HashFairness, of behaviours of the checksum queue.
PartsFairness ==
  /\ WF_hashVars(part = "hash" /\ Pump)
  /\ \A i \in Item : /\ WF_hashVars(part = "hash" /\ HashReader(i))
                     /\ WF_hashVars(part = "hash" /\ ChildExits(i))

PartsSpec ==
  PartsInit /\ [][PartsNext]_<<part, vars, hashVars, conflictVars, tileVars>> /\ PartsFairness
=============================================================================
