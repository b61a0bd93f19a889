--------------------------- MODULE MCSlimeRouting ---------------------------
EXTENDS SlimeRouting, TLC

CONSTANTS g1, g2, e1, e2, r1, t1, none

Symmetry == Permutations({g1, g2}) \union Permutations({e1, e2})
=============================================================================
