------------------------------- MODULE MCVirtio -------------------------------
(* Values of Virtio's constants for TLC. *)
EXTENDS Virtio, TLC

MCCapacity == [ops |-> 2, bytes |-> 2]
MCSize     == [q \in AllQueues |-> IF q \in {"req", "rx"} THEN 2 ELSE 1]
MCRefill   == [ops |-> 1, bytes |-> 1]
===============================================================================
