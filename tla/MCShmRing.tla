------------------------------ MODULE MCShmRing ------------------------------
(* A small instance of ShmRing for TLC: constants are given in Ring.cfg.      *)
EXTENDS ShmRing
=============================================================================
