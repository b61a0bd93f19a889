---------------------------- MODULE PolicyVersions ----------------------------
(***************************************************************************)
(* PolicyVersionCoordinator (router/rl/versioning.py) as the RL router     *)
(* runs it: the manual weight-update API, the heartbeats and registrations *)
(* that write the same worker records (router/rl/runtime.py), the engines  *)
(* that load the weights, and restarts of the router process.              *)
(*                                                                         *)
(* Every operation runs under the coordinator's lock or between two awaits *)
(* of one event loop, so each is one action.  The update record is written *)
(* to version_state.json before the operation returns; a crash inside an   *)
(* operation therefore leaves the file as a crash just before it would.    *)
(***************************************************************************)
EXTENDS Naturals, FiniteSets

CONSTANTS
    Workers,             \* worker ids
    MaxVersion,          \* bound on policy versions
    InitialVersion,      \* --rl-initial-policy-version of the first start
    ReportsDuringUpdate, \* may a heartbeat or registration rewrite the
                         \* lifecycle of a worker that is being updated?
    RestartMatchesEngines \* does the operator restart the router with the
                         \* version the engines hold, not the first one?

ASSUME VersionAssumption ==
    /\ MaxVersion \in Nat
    /\ InitialVersion \in 0..MaxVersion
ASSUME FlagAssumption ==
    /\ ReportsDuringUpdate \in BOOLEAN
    /\ RestartMatchesEngines \in BOOLEAN

VARIABLES
    lifecycle, \* worker.lifecycle
    loaded,    \* worker.loaded_policy_version
    busy,      \* worker.running_requests or worker.queued_requests, as reported
    active,    \* coordinator.active
    saved,     \* active_update in version_state.json
    engine     \* the version each SGLang engine really holds

vars == <<lifecycle, loaded, busy, active, saved, engine>>

Versions == 0..MaxVersion
Lifecycles == {"STARTING", "READY", "DRAINING", "UPDATING", "FAILED", "RECOVERING"}
Modes == {"stop-the-world", "rolling"}

\* A WeightUpdate: state[w] is "ABSENT" for a worker the update leaves alone.
MemberStates == {"ABSENT", "PENDING", "UPDATING", "VERIFIED", "FAILED"}
Statuses == {"NONE", "DRAINING", "UPDATING", "FAILED", "COMMITTED", "ABORTED"}
WeightUpdates == [mode : Modes, from : Versions, to : Versions,
                  status : Statuses, state : [Workers -> MemberStates]]

NoUpdate == [mode |-> "rolling", from |-> 0, to |-> 0, status |-> "NONE",
             state |-> [w \in Workers |-> "ABSENT"]]

InProgress(u) == u.status \notin {"NONE", "COMMITTED", "ABORTED"}
Member(u, w) == u.state[w] # "ABSENT"
UnderUpdate(w) == InProgress(active) /\ Member(active, w)

\* RolloutWorkerState.is_eligible without the heartbeat age, which only ever
\* takes workers out of the pool.
Serving(w) == lifecycle[w] = "READY"

-------------------------------------------------------------------------------
Init ==
    /\ lifecycle = [w \in Workers |-> "READY"]
    /\ loaded = [w \in Workers |-> InitialVersion]
    /\ busy = [w \in Workers |-> FALSE]
    /\ active = NoUpdate
    /\ saved = NoUpdate
    /\ engine = [w \in Workers |-> InitialVersion]

\* Mutants: the update mode is ignored when the first workers are drained.
DrainsOne(mode, ids) == {{w} : w \in ids}
DrainsAll(mode, ids) == {ids}

\* The sets of workers begin_update may drain first.  A rolling update takes
\* them in the caller's order, which is arbitrary.
DrainedFirst(mode, ids) == IF mode = "rolling" THEN {{w} : w \in ids} ELSE {ids}

BeginUpdate(mode, from, to, ids) ==
    /\ to > from
    /\ ~InProgress(active)
    /\ ids # {}
    /\ \A w \in ids : lifecycle[w] = "READY" /\ loaded[w] = from
    /\ active' = [mode |-> mode, from |-> from, to |-> to, status |-> "DRAINING",
                  state |-> [w \in Workers |-> IF w \in ids THEN "PENDING" ELSE "ABSENT"]]
    /\ \E first \in DrainedFirst(mode, ids) :
          lifecycle' = [w \in Workers |-> IF w \in first THEN "DRAINING" ELSE lifecycle[w]]
    /\ saved' = active'
    /\ UNCHANGED <<loaded, busy, engine>>

\* A DRAINING worker outside the update becomes UPDATING before the missing
\* entry in update.workers raises KeyError: nothing is recorded or saved.
MarkDrained(w) ==
    /\ InProgress(active)
    /\ lifecycle[w] = "DRAINING"
    /\ ~busy[w]
    /\ lifecycle' = [lifecycle EXCEPT ![w] = "UPDATING"]
    /\ active' = IF Member(active, w)
                 THEN [active EXCEPT !.state[w] = "UPDATING", !.status = "UPDATING"]
                 ELSE active
    /\ saved' = active'
    /\ UNCHANGED <<loaded, busy, engine>>

FailWorker(w) ==
    /\ lifecycle' = [lifecycle EXCEPT ![w] = "FAILED"]
    /\ active' = [active EXCEPT !.state[w] = "FAILED", !.status = "FAILED"]
    /\ saved' = active'
    /\ UNCHANGED <<loaded, busy, engine>>

\* A verified worker of a rolling update hands over to the next PENDING one,
\* whatever that worker's lifecycle has become.
DrainedNext(u) ==
    LET pending == {w \in Workers : u.state[w] = "PENDING"}
    IN  IF u.mode = "rolling" /\ pending # {} THEN {{w} : w \in pending} ELSE {{}}

AcceptWorker(w, version) ==
    /\ active' = [active EXCEPT !.state[w] = "VERIFIED"]
    /\ loaded' = [loaded EXCEPT ![w] = version]
    /\ \E next \in DrainedNext(active') :
          lifecycle' = [x \in Workers |-> IF x \in next THEN "DRAINING"
                                          ELSE IF x = w THEN "READY" ELSE lifecycle[x]]
    /\ saved' = active'
    /\ UNCHANGED <<busy, engine>>

\* Mutant: a matching checksum is taken for the target version.
VerifyByChecksum(w, version, checksumMatches) ==
    /\ UnderUpdate(w)
    /\ lifecycle[w] = "UPDATING"
    /\ IF checksumMatches THEN AcceptWorker(w, active.to) ELSE FailWorker(w)

\* version and checksumMatches are what the engine's model info reports.
VerifyWorker(w, version, checksumMatches) ==
    /\ UnderUpdate(w)
    /\ lifecycle[w] = "UPDATING"
    /\ IF version = active.to /\ checksumMatches
       THEN AcceptWorker(w, version)
       ELSE FailWorker(w)

Commit ==
    /\ InProgress(active)
    /\ \A w \in Workers : active.state[w] \in {"ABSENT", "VERIFIED"}
    /\ active' = [active EXCEPT !.status = "COMMITTED"]
    /\ saved' = active'
    /\ UNCHANGED <<lifecycle, loaded, busy, engine>>

\* Mutants: abort writes the update's status, puts every member back into
\* service, or trusts the members already verified.
AbortMixesStates(w) == IF Member(active, w) THEN "ABORTED" ELSE lifecycle[w]
AbortResumes(w) == IF Member(active, w) THEN "READY" ELSE lifecycle[w]
AbortTrustsVerified(w) ==
    IF Member(active, w) /\ lifecycle[w] \in {"DRAINING", "UPDATING"} THEN "RECOVERING"
    ELSE lifecycle[w]

\* The lifecycle abort leaves a worker in.
AbortedLifecycle(w) ==
    IF active.state[w] = "VERIFIED" THEN "FAILED"
    ELSE IF Member(active, w) /\ lifecycle[w] \in {"DRAINING", "UPDATING"} THEN "RECOVERING"
    ELSE lifecycle[w]

\* abort, and check_timeout, which calls it past the deadline: as time is left
\* out, it may come at any moment.
Abort ==
    /\ InProgress(active)
    /\ active' = [active EXCEPT !.status = "ABORTED"]
    /\ lifecycle' = [w \in Workers |-> AbortedLifecycle(w)]
    /\ saved' = active'
    /\ UNCHANGED <<loaded, busy, engine>>

-------------------------------------------------------------------------------
\* What a controller that follows docs/troubleshooting.md writes: it reports a
\* failure at any time, the other states only outside an update and READY
\* only with the version it has just probed.
ReportAllowed(w, state, version) ==
    \/ state \in {lifecycle[w], "FAILED"}
    \/ /\ ReportsDuringUpdate \/ ~UnderUpdate(w)
       /\ state = "READY" => version = engine[w]

\* A heartbeat may carry any of the worker's fields; one it omits keeps its value.
Heartbeat(w, state, version, load) ==
    /\ ReportAllowed(w, state, version)
    /\ lifecycle' = [lifecycle EXCEPT ![w] = state]
    /\ loaded' = [loaded EXCEPT ![w] = version]
    /\ busy' = [busy EXCEPT ![w] = load]
    /\ UNCHANGED <<active, saved, engine>>

\* A registration replaces the whole record; its counters start at zero.
RegisterWorker(w, state, version) ==
    /\ ReportsDuringUpdate \/ ~UnderUpdate(w)
    /\ lifecycle' = [lifecycle EXCEPT ![w] = state]
    /\ loaded' = [loaded EXCEPT ![w] = version]
    /\ busy' = [busy EXCEPT ![w] = FALSE]
    /\ UNCHANGED <<active, saved, engine>>

\* update_weights_from_disk on a worker the adapter has seen drained.  The
\* checkpoint on disk may be any version.
EngineLoad(w, version) ==
    /\ InProgress(active)
    /\ active.state[w] = "UPDATING"
    /\ engine' = [engine EXCEPT ![w] = version]
    /\ UNCHANGED <<lifecycle, loaded, busy, active, saved>>

\* The router process dies and starts again: install_rl_routes builds READY
\* workers at the configured version, _restore_after_restart reads the file.
RestartVersionAllowed(version) ==
    IF RestartMatchesEngines
    THEN \A w \in Workers : lifecycle'[w] = "READY" => engine[w] = version
    ELSE version = InitialVersion

Restart(version) ==
    /\ active' = IF InProgress(saved) THEN [saved EXCEPT !.status = "ABORTED"] ELSE saved
    /\ saved' = active'
    /\ lifecycle' = [w \in Workers |-> IF InProgress(saved) /\ Member(saved, w)
                                       THEN "RECOVERING" ELSE "READY"]
    /\ loaded' = [w \in Workers |-> version]
    /\ busy' = [w \in Workers |-> FALSE]
    /\ UNCHANGED engine
    /\ RestartVersionAllowed(version)

-------------------------------------------------------------------------------
BeginSome == \E mode \in Modes, from, to \in Versions, ids \in SUBSET Workers :
                BeginUpdate(mode, from, to, ids)
VerifySome == \E w \in Workers, matches \in BOOLEAN : VerifyWorker(w, engine[w], matches)
HeartbeatSome == \E w \in Workers, load \in BOOLEAN :
                    \E state \in {lifecycle[w], "READY", "DRAINING", "FAILED"},
                       version \in {loaded[w], engine[w]} :
                          Heartbeat(w, state, version, load)
RegisterSome == \E w \in Workers, state \in {"STARTING", "READY"} :
                   RegisterWorker(w, state, engine[w])

Next ==
    \/ BeginSome
    \/ \E w \in Workers : MarkDrained(w)
    \/ VerifySome
    \/ Commit
    \/ Abort
    \/ HeartbeatSome
    \/ RegisterSome
    \/ \E w \in Workers, v \in Versions : EngineLoad(w, v)
    \/ \E v \in Versions : Restart(v)

Spec == Init /\ [][Next]_vars

-------------------------------------------------------------------------------
TypeOK ==
    /\ lifecycle \in [Workers -> Lifecycles]
    /\ loaded \in [Workers -> Versions]
    /\ busy \in [Workers -> BOOLEAN]
    /\ active \in WeightUpdates
    /\ saved \in WeightUpdates
    /\ engine \in [Workers -> Versions]

\* A worker that may be given a group answers with the version the router
\* believes it has (RolloutWorkerState.is_eligible compares the belief only).
ServingMatchesEngine == \A w \in Workers : Serving(w) => loaded[w] = engine[w]

\* During an update old and new versions never mix: a serving member has
\* either been verified at the target or, in a rolling update, is still waiting
\* its turn at the source version.
SeparatePools ==
    InProgress(active) =>
        \A w \in Workers : Member(active, w) /\ Serving(w) =>
            \/ active.state[w] = "VERIFIED" /\ loaded[w] = active.to
            \/ /\ active.state[w] = "PENDING" /\ loaded[w] = active.from
               /\ active.mode = "rolling"

\* The workers the update in progress has taken out of service to reload.
OutForUpdate == {w \in Workers : /\ UnderUpdate(w)
                                 /\ lifecycle[w] \in {"DRAINING", "UPDATING"}}

\* A rolling update costs the pool one worker at a time, whatever members fail and
\* however it is aborted or interrupted, as long as nobody reports another
\* lifecycle than FAILED of a member while it runs (ReportsDuringUpdate).
RollingOneAtATime ==
    active.mode = "rolling" => \A w, x \in OutForUpdate : w = x

\* Once a member has failed, the update can only be aborted: the failure is not
\* overwritten by the other members' progress.
FailureIsFinal ==
    [][\A w \in Workers : InProgress(active) /\ active.state[w] = "FAILED" =>
           active'.state[w] = "FAILED" /\ active'.status # "COMMITTED"]_vars

\* A commit means that every member's engine holds the target version then.
CommitMeansLoaded ==
    [][InProgress(active) /\ active'.status = "COMMITTED" =>
           \A w \in Workers : Member(active, w) => engine[w] = active.to]_vars

\* When an update ends unfinished, by abort or by a restart of the router, no
\* worker whose weights it may have touched is left serving.
AbortIsolates ==
    [][InProgress(active) /\ active'.status = "ABORTED" =>
           \A w \in Workers :
               active.state[w] \in {"UPDATING", "VERIFIED"} => lifecycle'[w] # "READY"]_vars

\* A RECOVERING worker comes back only at the version its engine holds
\* ("until live probes re-establish their version", docs/architecture.md).
RecoveryNeedsProbe ==
    [][\A w \in Workers : lifecycle[w] = "RECOVERING" /\ lifecycle'[w] = "READY" =>
           loaded'[w] = engine[w]]_vars

\* The router implements the serving pool: READY workers are the advertised ones.
Pool == INSTANCE ServingPool WITH
            Out <- MaxVersion + 1,
            advertised <- [w \in Workers |-> IF Serving(w) THEN loaded[w] ELSE MaxVersion + 1]

\* The update protocol, its failures and its restarts refine the serving pool.
ImplementsPool == Pool!Spec
===============================================================================
