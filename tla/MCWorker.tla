------------------------------- MODULE MCWorker -------------------------------
(* Instances of Worker for TLC. *)
EXTENDS Worker

CONSTANTS v1, v2, c1, c2, c3
===============================================================================
