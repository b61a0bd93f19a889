--------------------------- MODULE MCPolicyVersions ---------------------------
(* PolicyVersions on a small pool.                                           *)
EXTENDS PolicyVersions, TLC

CONSTANTS w1, w2, w3 \* model values

Symmetry == Permutations(Workers)
===============================================================================
