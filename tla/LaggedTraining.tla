---------------------------- MODULE LaggedTraining ----------------------------
(***************************************************************************)
(* What bounded asynchronous training promises: batches are trained one at *)
(* a time, each generated by a policy at most MaxLag versions old, and the *)
(* policy advances by exactly one version after every batch.               *)
(***************************************************************************)
EXTENDS Integers, Sequences

CONSTANTS MaxLag,       \* the bound on policy lag
          FirstVersion  \* the policy version training starts from

VARIABLES version,  \* the trainer's policy version
          labels    \* the generating version of every batch trained, in order

laggedVars == <<version, labels>>

Init == version = FirstVersion /\ labels = <<>>

\* The version tells how many batches have been trained and applied.
Applied == version - FirstVersion

Train ==
    /\ Len(labels) = Applied
    /\ \E lag \in 0..MaxLag : labels' = Append(labels, version - lag)
    /\ UNCHANGED version

Update ==
    /\ Len(labels) = Applied + 1
    /\ version' = version + 1
    /\ UNCHANGED labels

Next == Train \/ Update

Spec == Init /\ [][Next]_laggedVars
===============================================================================
