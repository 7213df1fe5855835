------------------------------ MODULE MCGuestExec ------------------------------
(* Values of GuestExec's constants for TLC. *)
EXTENDS GuestExec, TLC

CONSTANTS c1, c2

MCTwo   == {[clients |-> {c1, c2}, streams |-> 2, out |-> 0, backlog |-> 8, reaping |-> FALSE,
              calm |-> TRUE]}
MCOne   == {[clients |-> {c1}, streams |-> 2, out |-> 2, backlog |-> 8, reaping |-> TRUE,
              calm |-> TRUE]}
MCFull  == {[clients |-> {c1}, streams |-> 2, out |-> 0, backlog |-> 1, reaping |-> FALSE,
              calm |-> FALSE]}
MCRough == {[clients |-> {c1}, streams |-> 1, out |-> 2, backlog |-> 8, reaping |-> TRUE,
              calm |-> FALSE]}
MCScenes == MCTwo \union MCOne \union MCFull \union MCRough
===============================================================================
