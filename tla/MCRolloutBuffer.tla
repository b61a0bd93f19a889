--------------------------- MODULE MCRolloutBuffer ---------------------------
(* The rollout buffer with two slots and two ids.                           *)
EXTENDS RolloutBufferUse, TLC

CONSTANTS b1, b2, b3 \* model values

Symmetry == Permutations(BatchIds)
==============================================================================
