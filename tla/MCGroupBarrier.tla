---------------------------- MODULE MCGroupBarrier ----------------------------
(* GroupBarrier with small groups.                                           *)
EXTENDS GroupBarrier, TLC

CONSTANTS g1, g2, r1, r2, t1, t2, none  \* model values

Symmetry == Permutations(Groups) \union Permutations(Requests) \union Permutations(Templates)
===============================================================================
