----------------------------- MODULE MCLiveBranch -----------------------------
(* Instances of LiveBranch for TLC: two values, a page of two words and a    *)
(* page of one.                                                              *)
EXTENDS LiveBranch

CONSTANTS w1, w2, w3, p1, p2

MCVals == {0, 1}
MCPageOf == [w \in Words |-> IF w = w3 THEN p2 ELSE p1]
===============================================================================
