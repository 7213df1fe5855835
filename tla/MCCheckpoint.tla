----------------------------- MODULE MCCheckpoint -----------------------------
(* Instances of Checkpoint for TLC: one vCPU thread with the workers named in *)
(* the configuration (net drains and polls a TAP, blk drains, vsock neither). *)
EXTENDS Checkpoint
===============================================================================
