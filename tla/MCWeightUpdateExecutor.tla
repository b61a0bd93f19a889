------------------------ MODULE MCWeightUpdateExecutor ------------------------
(* WeightUpdateExecutor on a small pool.                                     *)
EXTENDS WeightUpdateExecutor

CONSTANTS w1, w2, first, second \* model values

\* Each of the two calls names the workers in its own order.
Opposite == [e \in Executions |-> IF e = first THEN <<w1, w2>> ELSE <<w2, w1>>]
Single == [e \in Executions |-> <<w1>>]

\* Calls and workers may be exchanged together, so that each call keeps its order.
Symmetry ==
    {f \in Permutations(Executions \union Workers) :
        \A e \in Executions : /\ f[e] \in Executions
                              /\ \A i \in DOMAIN CallOrder[e] :
                                    CallOrder[f[e]][i] = f[CallOrder[e][i]]}
===============================================================================
