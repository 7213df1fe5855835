--------------------------- MODULE MCClusterSnapshot ---------------------------
(* Instances of ClusterSnapshot for TLC. *)
EXTENDS ClusterSnapshot

CONSTANTS v1, r1, c1
===============================================================================
