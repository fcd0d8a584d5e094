--------------------------- MODULE MCControlSession ---------------------------
(* Instances of ControlSession for TLC.                                     *)
EXTENDS ControlSession
CONSTANTS root, home, nodir
One == {root}
Two == {root, home}
=============================================================================
