--------------------------- MODULE MCServingRouter ---------------------------
EXTENDS ServingRouter

CONSTANTS s1, c1, c2, p1, p2, none

\* One hot prompt, and another prompt or none besides it.
Mixes == {[r \in Requests |-> IF r = c2 THEN other ELSE p1] : other \in {p1, p2, none}}
=============================================================================
