---------------------------- MODULE MCControlPlane ----------------------------
(* Instances of ControlPlane for TLC. *)
EXTENDS ControlPlane, TLC

CONSTANTS m1, m2, h1, h2

OneSlot == [h \in Hosts |-> 1]
Symmetry == Permutations(Machines) \union Permutations(Hosts)
===============================================================================
