----------------------------- MODULE GroupBarrier -----------------------------
(***************************************************************************)
(* GroupTracker (router/rl/tracker.py) behind RLRouterRuntime.route and    *)
(* .complete (router/rl/runtime.py): the barrier that turns the responses  *)
(* of a rollout group into one trainable group.  Controllers may send any  *)
(* registration, response or failure report at any time, in any order and  *)
(* any number of times; the router may fail to write its snapshot, may     *)
(* stop between the snapshot and the trace row, and may restart.           *)
(*                                                                         *)
(* The handlers have no await, so each is one action.                      *)
(***************************************************************************)
EXTENDS Naturals, FiniteSets

CONSTANTS
    Groups,         \* group ids
    Size,           \* group_size, the same for every group
    Versions,       \* policy versions
    Requests,       \* request ids a controller may use for one sample
    Templates,      \* (tokenizer_revision, chat_template_hash) pairs
    NoResponse,     \* marks a sample without response
    SnapshotMayFail, \* may persist() raise (disk full, I/O error)?
    LateReports     \* may a failure be reported of a sample that has completed?

ASSUME SizeAssumption == Size \in Nat \ {0}
ASSUME FlagAssumption == SnapshotMayFail \in BOOLEAN /\ LateReports \in BOOLEAN

Indices == 0..(Size - 1)
Response == [request : Requests, served : Versions, template : Templates]

ASSUME NoResponseAssumption == NoResponse \notin Response

Statuses == {"ABSENT", "OPEN", "READY", "FAILED", "DROPPED"}

\* RolloutGroupState; "ABSENT" is a group the tracker has no entry for, and
\* completed_samples is the set of indices with a response.
GroupStates == [status : Statuses, version : Versions,
                responses : [Indices -> Response \union {NoResponse}],
                failed : SUBSET Indices]

VARIABLES
    groups,   \* tracker.groups
    saved,    \* the groups in groups.json
    counted   \* metrics: times the group was counted READY, up to CountCap

vars == <<groups, saved, counted>>

\* The count stops here: the property tells 0, 1 and "more than one" apart.
CountCap == 2
OneMore(n) == IF n < CountCap THEN n + 1 ELSE n

\* Whether the snapshot is written, and whether the trace row is (it is not
\* when the write raises or the router stops just before it).
SnapshotOutcomes == IF SnapshotMayFail THEN BOOLEAN ELSE {TRUE}

Persist(stored) == saved' = IF stored THEN groups' ELSE saved

Fresh(version) == [status |-> "OPEN", version |-> version,
                   responses |-> [i \in Indices |-> NoResponse], failed |-> {}]

Known(g) == groups[g].status # "ABSENT"
Completed(group) == {i \in Indices : group.responses[i] # NoResponse}
\* Mutant: one sample short.
NearlyComplete(group) == Cardinality(Completed(group)) >= Size - 1 /\ group.failed = {}
IsComplete(group) == Completed(group) = Indices /\ group.failed = {}

-------------------------------------------------------------------------------
Init ==
    /\ \E v \in Versions :
          groups = [g \in Groups |-> [Fresh(v) EXCEPT !.status = "ABSENT"]]
    /\ saved = groups
    /\ counted = [g \in Groups |-> 0]

\* register, place_group and assign.  Without an eligible worker place_group
\* raises and the new group stays registered and unassigned; POST /rl/groups
\* registers and stops there too.  A known group is routed again as it is.
Route(g, version, stored) ==
    /\ Known(g) => groups[g].version = version
    /\ groups' = IF Known(g) THEN groups ELSE [groups EXCEPT ![g] = Fresh(version)]
    /\ Persist(stored)
    /\ UNCHANGED counted

\* Mutant: the version that served the response is not compared.
ValidByRequest(g, i, requested, r) ==
    Known(g) /\ i \in Indices /\ requested = groups[g].version

\* record_response up to its first return: the checks every response passes.
Valid(g, i, requested, r) ==
    /\ Known(g)
    /\ i \in Indices
    /\ requested = groups[g].version
    /\ r.served = groups[g].version

\* Mutant: the metrics count the group whenever a response finds it READY.
ReplayCounted(g, i, requested, r) ==
    /\ Valid(g, i, requested, r)
    /\ groups[g].responses[i] # NoResponse
    /\ groups[g].responses[i].request = r.request
    /\ counted' = IF groups[g].status = "READY" THEN [counted EXCEPT ![g] = OneMore(@)] ELSE counted
    /\ UNCHANGED <<groups, saved>>

\* The same request answered again: nothing is recorded; complete() writes
\* another trace row.
Replay(g, i, requested, r) ==
    /\ Valid(g, i, requested, r)
    /\ groups[g].responses[i] # NoResponse
    /\ groups[g].responses[i].request = r.request
    /\ UNCHANGED <<groups, saved, counted>>

\* Mutants: the group gets a status of its own, or an earlier failure of the
\* sample is not cleared.
RecordMisnames(group, i, r) ==
    LET recorded == [group EXCEPT !.responses[i] = r, !.failed = @ \ {i}]
    IN  IF IsComplete(recorded) THEN [recorded EXCEPT !.status = "COMPLETE"] ELSE recorded
RecordKeepsFailure(group, i, r) ==
    LET recorded == [group EXCEPT !.responses[i] = r]
    IN  IF IsComplete(recorded) THEN [recorded EXCEPT !.status = "READY"] ELSE recorded
\* Mutant: the failure is cleared after the group has been looked at.
RecordClearsLate(group, i, r) ==
    LET recorded == [group EXCEPT !.responses[i] = r]
    IN  [recorded EXCEPT !.failed = @ \ {i},
                         !.status = IF IsComplete(recorded) THEN "READY" ELSE @]

Record(group, i, r) ==
    LET recorded == [group EXCEPT !.responses[i] = r, !.failed = @ \ {i}]
    IN  IF IsComplete(recorded) THEN [recorded EXCEPT !.status = "READY"] ELSE recorded

TemplateAgrees(group, r) ==
    \A i \in Completed(group) : group.responses[i].template = r.template

\* A new sample.  A snapshot that fails leaves the sample in memory only and
\* stops complete() before the trace and the metrics.
Complete(g, i, requested, r, stored, traced) ==
    /\ Valid(g, i, requested, r)
    /\ groups[g].responses[i] = NoResponse
    /\ TemplateAgrees(groups[g], r)
    /\ groups' = [groups EXCEPT ![g] = Record(@, i, r)]
    /\ Persist(stored)
    /\ counted' = IF /\ stored /\ traced
                     /\ groups'[g].status = "READY" /\ groups[g].status # "READY"
                  THEN [counted EXCEPT ![g] = OneMore(@)] ELSE counted

RecordFailure(g, i, terminal, stored) ==
    /\ Known(g)
    /\ LateReports \/ groups[g].responses[i] = NoResponse
    /\ groups' = [groups EXCEPT ![g].failed = @ \union {i},
                                ![g].status = IF terminal THEN "FAILED" ELSE @]
    /\ Persist(stored)
    /\ UNCHANGED counted

\* expire() past the group's deadline, which may come at any time.
Expire(g, outcome, stored) ==
    /\ groups[g].status = "OPEN"
    /\ groups' = [groups EXCEPT ![g].status = outcome]
    /\ Persist(stored)
    /\ UNCHANGED counted

\* The router stops and restores groups.json; its metrics start from zero.
Restart ==
    /\ groups' = saved
    /\ counted' = [g \in Groups |-> 0]
    /\ UNCHANGED saved

-------------------------------------------------------------------------------
RouteSome == \E g \in Groups, version \in Versions, stored \in SnapshotOutcomes :
                Route(g, version, stored)
\* A response for an index outside the group is tried too.
ReplaySome == \E g \in Groups, i \in 0..Size, requested \in Versions, r \in Response :
                 Replay(g, i, requested, r)
CompleteSome == \E g \in Groups, i \in 0..Size, requested \in Versions, r \in Response,
                   traced \in BOOLEAN, stored \in SnapshotOutcomes :
                      Complete(g, i, requested, r, stored, traced)
FailSome == \E g \in Groups, i \in Indices, terminal \in BOOLEAN,
               stored \in SnapshotOutcomes : RecordFailure(g, i, terminal, stored)
ExpireSome == \E g \in Groups, outcome \in {"DROPPED", "FAILED"},
                 stored \in SnapshotOutcomes : Expire(g, outcome, stored)

Next == RouteSome \/ ReplaySome \/ CompleteSome \/ FailSome \/ ExpireSome \/ Restart

Spec == Init /\ [][Next]_vars

-------------------------------------------------------------------------------
TypeOK ==
    /\ groups \in [Groups -> GroupStates]
    /\ saved \in [Groups -> GroupStates]
    /\ counted \in [Groups -> 0..CountCap]

\* A trainable group has every sample, all of them served by its own policy
\* version with one tokenizer and chat template, whatever arrived in between
\* and through restarts (docs/correctness.md:5-13).
ReadyMeansComplete ==
    \A g \in Groups : groups[g].status = "READY" =>
        /\ Completed(groups[g]) = Indices
        /\ \A i, j \in Indices :
              /\ groups[g].responses[i].served = groups[g].version
              /\ groups[g].responses[i].template = groups[g].responses[j].template

\* "A sample index cannot become two training samples after retry": a recorded
\* sample is never lost or replaced, not even by a restart.
NoSecondSample ==
    [][\A g \in Groups, i \in Indices : groups[g].responses[i] # NoResponse =>
           groups'[g].responses[i] = groups[g].responses[i]]_vars

\* A group the trainer may have taken stays READY.
ReadyIsFinal ==
    [][\A g \in Groups : groups[g].status = "READY" => groups'[g].status = "READY"]_vars

\* The completion of a group enters the metrics at most once however often its
\* last response is sent again.
CountedOnce == \A g \in Groups : counted[g] <= 1

\* The tracker's samples and READY groups are the slots and releases of the
\* abstract barrier.
Barrier == INSTANCE SampleBarrier WITH
               Empty <- NoResponse,
               filled <- [g \in Groups |-> groups[g].responses],
               released <- {g \in Groups : groups[g].status = "READY"}

\* Registration, retries, failures and restarts included, the tracker
\* implements the abstract barrier.
ImplementsBarrier == Barrier!Spec

\* No group is left waiting: once every sample has been answered, in whatever
\* order responses, failures, retries, restarts and the deadline came, the group
\* is READY.  The one exception is a failure reported of a sample that had
\* completed: its retry takes the early return of record_response, and nothing
\* clears the failure any more.
AnsweredMeansReady ==
    \A g \in Groups : Completed(groups[g]) = Indices =>
        groups[g].status = "READY" \/ (LateReports /\ groups[g].failed # {})

\* A group that had an unrecoverable error or ran out of time never reaches the
\* trainer ("no unrecoverable error" is a condition of the group barrier).
NoReadyAfterEnd ==
    [][\A g \in Groups : groups[g].status \in {"FAILED", "DROPPED"} =>
           groups'[g].status # "READY"]_vars
===============================================================================
