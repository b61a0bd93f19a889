---------------------------- MODULE SampleBarrier ----------------------------
(***************************************************************************)
(* What the group tracker promises the trainer: every sample slot of a     *)
(* group is filled at most once, and a group is released once, when its    *)
(* last slot is filled.                                                    *)
(***************************************************************************)
CONSTANTS Groups,    \* rollout groups
          Indices,   \* the sample slots of a group
          Response,  \* what may fill a slot
          Empty      \* marks a slot not filled yet; not a response

VARIABLES filled,   \* the content of every slot
          released  \* the groups handed to the trainer

barrierVars == <<filled, released>>

Init ==
    /\ filled = [g \in Groups |-> [i \in Indices |-> Empty]]
    /\ released = {}

\* A slot is filled for good; the last one may release the group.
Fill(g, i) ==
    /\ filled[g][i] = Empty
    /\ \E r \in Response : filled' = [filled EXCEPT ![g][i] = r]
    /\ \/ UNCHANGED released
       \/ /\ \A j \in Indices : filled'[g][j] # Empty
          /\ released' = released \union {g}

Next == \E g \in Groups, i \in Indices : Fill(g, i)

Spec == Init /\ [][Next]_barrierVars
==============================================================================
