-------------------------- MODULE MCGroupPlacement --------------------------
EXTENDS GroupPlacement

CONSTANT none

\* A token of the model stands for 500, so the weight of a duplicated prefill,
\* 0.0005 a token, becomes 0.25.  The weights in placement_policies.cfg are the
\* default ObjectiveWeights multiplied by 2000.

Idle == [ready |-> TRUE, fresh |-> TRUE, version |-> 1, running |-> 0, queued |-> 0,
         prefill |-> 0, decode |-> 0, prefill_rate |-> 2, decode_rate |-> 2, matched |-> 0]

\* Idle, busy, slow with the prefix cached, decoding, silent, and behind.
States == {Idle,
           [Idle EXCEPT !.running = 1, !.queued = 1, !.prefill = 3, !.decode = 1],
           [Idle EXCEPT !.matched = 3, !.prefill_rate = 1, !.decode_rate = 1],
           [Idle EXCEPT !.running = 2, !.decode = 4],
           [Idle EXCEPT !.fresh = FALSE],
           [Idle EXCEPT !.version = 0]}

\* A long prompt with short answers, and a short one with long and uneven answers.
Shapes == {[version |-> 1, prompt |-> 4, mean |-> <<1, 1, 1>>, p90 |-> <<1, 1, 1>>],
           [version |-> 1, prompt |-> 1, mean |-> <<1, 3, 2>>, p90 |-> <<2, 4, 4>>]}

Draw == {<<<<0, 0>>, <<0, 0>>, <<0, 0>>>>, <<<<0, 1>>, <<2, 2>>, <<1, 5>>>>, <<<<4, 2>>, <<3, 1>>, <<2, 0>>>>}
=============================================================================
