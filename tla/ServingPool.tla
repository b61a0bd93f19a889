----------------------------- MODULE ServingPool -----------------------------
(***************************************************************************)
(* What weight updates promise the rest of the router, without the update  *)
(* protocol.  Every worker holds some policy version in its engine and is  *)
(* either out of the pool or advertised at a version.  A worker enters the *)
(* pool only at the version its engine holds, and an engine is reloaded    *)
(* only while its worker is out of the pool.                               *)
(***************************************************************************)
CONSTANTS Workers,   \* the rollout workers
          Versions,  \* policy versions
          Out        \* marks a worker that is not advertised; not a version

VARIABLES advertised,  \* the version requests are routed to a worker for
          engine       \* the version the worker's engine really holds

poolVars == <<advertised, engine>>

Init ==
    /\ engine \in [Workers -> Versions]
    /\ advertised = engine

\* One step of the router withdraws some workers and enrols others.
Readvertise ==
    /\ advertised' \in [Workers -> Versions \union {Out}]
    /\ \A w \in Workers : advertised'[w] \in {advertised[w], engine[w], Out}
    /\ UNCHANGED engine

\* The engine of a withdrawn worker loads other weights.
Reload(w) ==
    /\ advertised[w] = Out
    /\ \E v \in Versions : engine' = [engine EXCEPT ![w] = v]
    /\ UNCHANGED advertised

Next == Readvertise \/ \E w \in Workers : Reload(w)

Spec == Init /\ [][Next]_poolVars
==============================================================================
