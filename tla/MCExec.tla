-------------------------------- MODULE MCExec --------------------------------
(* Instances of Exec for TLC. *)
EXTENDS Exec

CONSTANTS r1, r2
===============================================================================
