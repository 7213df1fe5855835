---------------------------- MODULE GuestSnapshot ----------------------------
(***************************************************************************)
(* What a snapshot or a branch of a running microVM promises: one instant  *)
(* at which guest memory and processor state are taken together, while the *)
(* guest goes on; what is later found in the snapshot store is exactly one *)
(* such instant, or nothing.                                               *)
(***************************************************************************)
CONSTANTS Words, Vals, Nothing

VARIABLES mem, regs, taken, visible

avars == <<mem, regs, taken, visible>>

States == [mem : [Words -> Vals], regs : Vals]

AInit ==
    /\ mem \in [Words -> Vals] /\ regs \in Vals
    /\ taken = Nothing /\ visible = Nothing

(* The guest, its devices, or both. *)
Run ==
    /\ mem' \in [Words -> Vals] /\ regs' \in Vals
    /\ UNCHANGED <<taken, visible>>

Take ==
    /\ taken' = [mem |-> mem, regs |-> regs]
    /\ UNCHANGED <<mem, regs, visible>>

Publish ==
    /\ taken # Nothing
    /\ visible' = taken /\ taken' = Nothing
    /\ UNCHANGED <<mem, regs>>

Abandon ==
    /\ taken' = Nothing
    /\ UNCHANGED <<mem, regs, visible>>

ANext == Run \/ Take \/ Publish \/ Abandon

ASpec == AInit /\ [][ANext]_avars
===============================================================================
