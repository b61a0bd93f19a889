----------------------------- MODULE SlimeRouting -----------------------------
(***************************************************************************)
(* SlimeRLRouteCoordinator and generate_with_rl_router                     *)
(* (integrations/slime_adapter.py) on top of the group tracker.  slime     *)
(* calls generate for every sample of a group concurrently; the first call *)
(* discovers the engines and routes for all of them, the others reuse the  *)
(* decision, and each call reports its response or failure and gives its   *)
(* place in the worker's count back.                                       *)
(*                                                                         *)
(* The calls are asyncio tasks: they interleave at their awaits only.      *)
(* asyncio's lock is held over an await only while the workers are being   *)
(* discovered, so "locked" means that a discovery is under way.            *)
(***************************************************************************)
EXTENDS GroupBarrier

CONSTANTS
    Engines,      \* SGLang engines, and the ids of their workers
    MaxFaults,    \* bound on the faults of a behaviour
    MaxOthers,    \* bound on the requests of others an engine reports at once
    Nothing       \* no context, discovery, worker

ASSUME MaxFaultsAssumption == MaxFaults \in Nat
ASSUME MaxOthersAssumption == MaxOthers \in Nat
ASSUME GroupsAssumption == IsFiniteSet(Groups)

VARIABLES
    loaded,       \* the policy version each engine has loaded
    listed,       \* the engines /list_workers names
    running,      \* running_requests of each worker in runtime.workers
    contexts,     \* coordinator._groups: the decision for each group
    discovery,    \* _discover_workers under way, with the call that holds _lock
    calls,        \* generate_with_rl_router for each sample
    surplus,      \* history: how much of running[w] no call in flight gives back
    faults        \* the faults so far: [engines, requests, releases, process]

adapter == <<running, surplus, contexts, discovery, calls>>
environment == <<loaded, listed>>
slimeVars == <<vars, adapter, environment, faults>>

\* A fault of the engines (their weights, their presence in the list, or a report
\* that counts requests of others), of a request to one (it raises or is cancelled), of a release (it is cancelled), or
\* of the adapter's process (a write fails, the process ends).
Fault(kind) == /\ faults.engines + faults.requests + faults.releases + faults.process < MaxFaults
               /\ faults' = [faults EXCEPT ![kind] = @ + 1]

Calls == Groups \X Indices
Phases == {"idle", "generating", "returned", "raised", "done"}
IdleCall == [phase |-> "idle", worker |-> Nothing, version |-> 0]

Contexts == [version : Versions, worker : [Indices -> Engines]]
ASSUME NothingAssumption == Nothing \notin Contexts

\* What a probe reports of an engine, with the part of its count (history) that
\* no call in flight gives back; discovery.found maps the engines probed.
Probes == [version : Versions, running : Nat, others : Nat]
NothingFound == [w \in {} |-> Nothing]

InFlight(w) == {c \in Calls : /\ calls[c].phase \in {"generating", "returned", "raised"}
                              /\ calls[c].worker = w}
Generating(w) == {c \in InFlight(w) : calls[c].phase = "generating"}

SlimeInit ==
    /\ Init
    /\ \E v \in Versions : /\ \A g \in Groups : groups[g].version = v
                           /\ loaded = [w \in Engines |-> v]
    /\ running = [w \in Engines |-> 0]
    /\ listed = Engines
    /\ contexts = [g \in Groups |-> Nothing]
    /\ discovery = Nothing
    /\ calls = [c \in Calls |-> IdleCall]
    /\ surplus = [w \in Engines |-> 0]
    /\ faults = [engines |-> 0, requests |-> 0, releases |-> 0, process |-> 0]

-------------------------------------------------------------------------------
\* A call that finds the decision of its group takes its share of it.
Assign(c, context) ==
    /\ calls' = [calls EXCEPT ![c] = [phase |-> "generating", version |-> context.version,
                                      worker |-> context.worker[c[2]]]]

AssignCached(c) ==
    /\ calls[c].phase = "idle"
    /\ discovery = Nothing
    /\ contexts[c[1]] # Nothing
    /\ Assign(c, contexts[c[1]])
    /\ running' = [running EXCEPT ![contexts[c[1]].worker[c[2]]] = @ + 1]
    /\ UNCHANGED <<vars, surplus, contexts, discovery, environment, faults>>

\* Mutant: the caller does not look for a decision once it has the lock.
DiscoverAnyway(c) ==
    /\ calls[c].phase = "idle"
    /\ discovery = Nothing
    /\ discovery' = [caller |-> c, urls |-> listed, found |-> NothingFound]
    /\ UNCHANGED <<vars, running, surplus, contexts, calls, environment, faults>>

\* The first caller of a group asks the slime router for its engines.
Discover(c) ==
    /\ calls[c].phase = "idle"
    /\ discovery = Nothing
    /\ contexts[c[1]] = Nothing
    /\ discovery' = [caller |-> c, urls |-> listed, found |-> NothingFound]
    /\ UNCHANGED <<vars, running, surplus, contexts, calls, environment, faults>>

\* The probe of an engine: its version, and how many of its requests are running
\* (num_reqs less num_waiting_reqs).  Some are the calls in flight; the others are
\* of other clients, or of calls of this adapter that are over: cancelled, failed,
\* or of a process before this one.
Probe(w, own, others) ==
    /\ discovery # Nothing
    /\ w \in discovery.urls \ DOMAIN discovery.found
    /\ own \in 0..Cardinality(Generating(w))
    /\ others \in 0..MaxOthers
    /\ discovery' = [discovery EXCEPT !.found =
                        [x \in DOMAIN @ \union {w} |->
                            IF x = w THEN [version |-> loaded[w], running |-> own + others, others |-> others]
                                     ELSE @[x]]]
    /\ IF others = 0 THEN UNCHANGED faults ELSE Fault("engines")
    /\ UNCHANGED <<vars, running, surplus, contexts, calls, environment>>

\* An attempt fails (no engine, or a request raised): all over again, or the
\* exception of the last attempt, or a cancellation, ends the call.
DiscoveryFails(again) ==
    /\ discovery # Nothing
    /\ discovery' = IF again THEN [discovery EXCEPT !.urls = listed, !.found = NothingFound] ELSE Nothing
    /\ UNCHANGED <<vars, running, surplus, contexts, calls, environment, faults>>

\* _refresh_runtime: what was found is registered or heartbeaten READY with its
\* version, every other worker is FAILED.  Both are read by the route that
\* follows only, so what stays is the count, which the report overwrites.
Refreshed(found) == [w \in Engines |-> IF w \in DOMAIN found THEN found[w].running ELSE running[w]]
NoteRefreshed(found) ==
    surplus' = [w \in Engines |-> IF w \in DOMAIN found THEN found[w].others ELSE surplus[w]]

\* The newest version found.
IsTarget(found, v) == /\ \E w \in DOMAIN found : found[w].version = v
                      /\ \A w \in DOMAIN found : found[w].version <= v

Discovered == /\ discovery # Nothing
              /\ discovery.urls # {} /\ DOMAIN discovery.found = discovery.urls

\* The rest of assignment_for, without an await: refresh, build the requests of
\* the whole group for the newest version, route them to READY workers that
\* have it, store the decision and take a place.
AssignFirst(placement) ==
    /\ Discovered
    /\ \E target \in Versions :
       LET c == discovery.caller
           found == discovery.found
       IN  /\ IsTarget(found, target)
           /\ \A i \in Indices : placement[i] \in DOMAIN found /\ found[placement[i]].version = target
           /\ Route(c[1], target, TRUE)
           /\ contexts' = [contexts EXCEPT ![c[1]] = [version |-> target, worker |-> placement]]
           /\ Assign(c, contexts'[c[1]])
           /\ running' = [Refreshed(found) EXCEPT ![placement[c[2]]] = @ + 1]
           /\ NoteRefreshed(found)
    /\ discovery' = Nothing
    /\ UNCHANGED <<environment, faults>>

\* route() raises: the group is registered at another version, or a write
\* fails.  The exception leaves assignment_for, and generate, with the lock
\* released and neither fail() nor release().
RouteRaises(stored) ==
    /\ Discovered
    /\ \E target \in Versions :
       LET g == discovery.caller[1]
       IN  /\ IsTarget(discovery.found, target)
           /\ \/ Known(g) /\ groups[g].version # target /\ UNCHANGED <<vars, faults>>
              \/ Route(g, target, stored) /\ Fault("process")
    /\ running' = Refreshed(discovery.found)
    /\ NoteRefreshed(discovery.found)
    /\ discovery' = Nothing
    /\ UNCHANGED <<contexts, calls, environment>>

-------------------------------------------------------------------------------
End(c, phase) == calls' = [calls EXCEPT ![c].phase = phase]

\* finish(): the served version is the last one the engine reported, or the
\* requested one if it reported none that parses.
Answers(c) == {r \in Response : r.served \in {loaded[calls[c].worker], calls[c].version}}

Finish(c, r) ==
    /\ calls[c].phase = "generating"
    /\ calls[c].worker \in listed
    /\ \/ Complete(c[1], c[2], calls[c].version, r, TRUE, TRUE)
       \/ Replay(c[1], c[2], calls[c].version, r)
    /\ contexts' = IF groups'[c[1]].status = "READY"
                   THEN [contexts EXCEPT ![c[1]] = Nothing] ELSE contexts
    /\ End(c, "returned")
    /\ UNCHANGED <<running, surplus, discovery, environment, faults>>

\* fail(): generate() raises, as it does once the engine is gone, or finish()
\* does before it records anything, because another version has answered.
Fail(c, stored) ==
    /\ calls[c].phase = "generating"
    /\ \/ Fault("requests")
       \/ /\ calls[c].worker \notin listed \/ loaded[calls[c].worker] # groups[c[1]].version
          /\ UNCHANGED faults
    /\ RecordFailure(c[1], c[2], FALSE, stored)
    /\ End(c, "raised")
    /\ UNCHANGED <<running, surplus, contexts, discovery, environment>>

\* complete() records the response in memory and raises in a write (kept: was
\* the snapshot written, and the trace row not?); fail() follows at once.
FinishRaises(c, r, kept, stored) ==
    /\ calls[c].phase = "generating"
    /\ calls[c].worker \in listed
    /\ Valid(c[1], c[2], calls[c].version, r)
    /\ LET g == c[1]
           i == c[2]
           new == groups[g].responses[i] = NoResponse
           recorded == IF new THEN [groups EXCEPT ![g] = Record(@, i, r)] ELSE groups
       IN  /\ IF new THEN TemplateAgrees(groups[g], r) ELSE groups[g].responses[i].request = r.request
           /\ groups' = [recorded EXCEPT ![g].failed = @ \union {i}]
           /\ saved' = IF stored THEN groups' ELSE IF kept THEN recorded ELSE saved
    /\ End(c, "raised")
    /\ Fault("process")
    /\ UNCHANGED <<counted, running, surplus, contexts, discovery, environment>>

\* The task is cancelled while it waits for its engine: only finally runs.
Cancelled(c) ==
    /\ calls[c].phase = "generating"
    /\ End(c, "raised")
    /\ Fault("requests")
    /\ UNCHANGED <<vars, running, surplus, contexts, discovery, environment>>

\* Mutant: the place is given back without waiting for a discovery to end.
ReleaseUnlocked(c) ==
    /\ calls[c].phase \in {"returned", "raised"}
    /\ running' = [running EXCEPT ![calls[c].worker] = IF @ > 0 THEN @ - 1 ELSE 0]
    /\ calls' = [calls EXCEPT ![c] = [IdleCall EXCEPT !.phase =
                    IF calls[c].phase = "returned" THEN "done" ELSE "idle"]]
    /\ UNCHANGED <<vars, surplus, contexts, discovery, environment, faults>>

\* release(), in the finally of generate: it needs the lock.
Release(c) ==
    /\ calls[c].phase \in {"returned", "raised"}
    /\ discovery = Nothing
    /\ running' = [running EXCEPT ![calls[c].worker] = IF @ > 0 THEN @ - 1 ELSE 0]
    /\ calls' = [calls EXCEPT ![c] = [IdleCall EXCEPT !.phase =
                    IF calls[c].phase = "returned" THEN "done" ELSE "idle"]]
    /\ UNCHANGED <<vars, surplus, contexts, discovery, environment, faults>>

\* The task is cancelled while release() waits for the lock, which a discovery
\* holds or others wait for, too: the place is not given back, in the count or in
\* what a discovery has been told already, and generate has no result.
LosesRelease(c) ==
    /\ calls[c].phase \in {"returned", "raised"}
    /\ LET w == calls[c].worker
       IN  /\ surplus' = [surplus EXCEPT ![w] = @ + 1]
           /\ discovery' = IF discovery # Nothing /\ w \in DOMAIN discovery.found
                           THEN [discovery EXCEPT !.found[w].others = @ + 1] ELSE discovery
    /\ calls' = [calls EXCEPT ![c] = IdleCall]
    /\ Fault("releases")
    /\ UNCHANGED <<vars, running, contexts, environment>>

\* The process ends and starts again with the same RL_ROUTER_RUN_ID: the
\* tracker restores its snapshot, and slime generates what it has not got.
Crash ==
    /\ Restart
    /\ running' = [w \in Engines |-> 0]
    /\ surplus' = [w \in Engines |-> 0]
    /\ contexts' = [g \in Groups |-> Nothing]
    /\ discovery' = Nothing
    /\ calls' = [c \in Calls |-> IdleCall]
    /\ Fault("process")
    /\ UNCHANGED environment

\* An engine loads other weights, or leaves /list_workers or comes back to it.
EngineLoads(w, version) ==
    /\ version # loaded[w]
    /\ loaded' = [loaded EXCEPT ![w] = version]
    /\ Fault("engines")
    /\ UNCHANGED <<vars, adapter, listed>>

EngineListed(w) ==
    /\ listed' = IF w \in listed THEN listed \ {w} ELSE listed \union {w}
    /\ Fault("engines")
    /\ UNCHANGED <<vars, adapter, loaded>>

-------------------------------------------------------------------------------
AssignFirstSome == \E placement \in [Indices -> Engines] : AssignFirst(placement)
RouteRaisesSome == \E stored \in SnapshotOutcomes : RouteRaises(stored)
FinishSome(c) == \E r \in Answers(c) : Finish(c, r)

SlimeNext ==
    \/ \E c \in Calls :
          \/ AssignCached(c) \/ Discover(c)
          \/ calls[c].phase = "generating" /\ FinishSome(c)
          \/ \E stored \in SnapshotOutcomes : Fail(c, stored)
          \/ calls[c].phase = "generating" /\ \E r \in Answers(c), kept, stored \in SnapshotOutcomes :
                                                FinishRaises(c, r, kept, stored)
          \/ Cancelled(c) \/ Release(c) \/ LosesRelease(c)
    \/ \E w \in Engines : \E own \in {0, Cardinality(Generating(w))}, others \in 0..MaxOthers :
          Probe(w, own, others)
    \/ \E again \in BOOLEAN : DiscoveryFails(again)
    \/ AssignFirstSome \/ RouteRaisesSome
    \/ Crash
    \/ \E w \in Engines : EngineListed(w) \/ \E version \in Versions : EngineLoads(w, version)

\* The rollouts are over.
Over == (\A c \in Calls : calls[c].phase = "done") /\ UNCHANGED slimeVars

SlimeSpec == SlimeInit /\ [][SlimeNext \/ Over]_slimeVars

-------------------------------------------------------------------------------
SlimeTypeOK ==
    /\ TypeOK
    /\ loaded \in [Engines -> Versions]
    /\ listed \subseteq Engines
    /\ running \in [Engines -> Nat] /\ surplus \in [Engines -> Nat]
    /\ contexts \in [Groups -> Contexts \union {Nothing}]
    /\ calls \in [Calls -> [phase : Phases, worker : Engines \union {Nothing}, version : Versions \union {0}]]
    /\ discovery # Nothing => \E urls \in SUBSET Engines : \E seen \in SUBSET urls :
          discovery \in [caller : Calls, urls : {urls}, found : [seen -> Probes]]
    /\ faults \in [engines : 0..MaxFaults, requests : 0..MaxFaults, releases : 0..MaxFaults,
                   process : 0..MaxFaults]

\* "The first caller constructs the complete virtual group and persists one
\* decision; all other callers reuse it": until the group is READY every call
\* that generates for it has its version, and the worker the decision gives it.
SameDecision ==
    \A c \in Calls : calls[c].phase = "generating" =>
        /\ calls[c].version = groups[c[1]].version
        /\ groups[c[1]].status = "OPEN" =>
              contexts[c[1]] # Nothing /\ calls[c].worker = contexts[c[1]].worker[c[2]]

\* The count a worker is routed by exceeds the calls it has in flight by no more
\* than the requests of others its last refresh was told of and the releases
\* cancelled since that probe: although each discovery overwrites the count with
\* what an engine reported earlier, nothing else keeps it too high, and the next
\* refresh takes the surplus away.
CountsNeverLeak == \A w \in Engines : running[w] <= Cardinality(InFlight(w)) + surplus[w]

\* Without a failed write, an end of the process or a cancelled release, a group
\* is READY and its decision forgotten once all its calls have returned, whatever
\* failed, was cancelled, retried or answered by another version before.
ReturnedMeansReady ==
    faults.process = 0 /\ faults.releases = 0 => \A g \in Groups :
        (\A i \in Indices : calls[<<g, i>>].phase \in {"returned", "done"}) =>
            groups[g].status = "READY" /\ contexts[g] = Nothing
===============================================================================
