------------------------- MODULE PolicyVersionsProofs -------------------------
(***************************************************************************)
(* Theorems about PolicyVersions for every set of workers and every bound  *)
(* on versions.                                                            *)
(***************************************************************************)
EXTENDS PolicyVersions, TLAPS

\* A member that is loading weights is out of the pool: this is what keeps an
\* engine from changing under the requests routed to it.
LoadingIsOut ==
    \A w \in Workers : UnderUpdate(w) /\ active.state[w] = "UPDATING" =>
        lifecycle[w] \in {"UPDATING", "FAILED"}

\* A member that failed is not picked up again by the update.
FailedIsOut ==
    \A w \in Workers : UnderUpdate(w) /\ active.state[w] = "FAILED" =>
        lifecycle[w] = "FAILED"

\* version_state.json holds the update record the router has in memory, so a
\* restart resumes from the members' present states.
FileIsCurrent == saved = active

\* A verified member's engine holds the target.
VerifiedIsLoaded ==
    \A w \in Workers : InProgress(active) /\ active.state[w] = "VERIFIED" =>
        engine[w] = active.to

-------------------------------------------------------------------------------
\* The router starts well typed, with no update in the file.
LEMMA InitType == Init => TypeOK
<1> SUFFICES ASSUME Init PROVE TypeOK
    OBVIOUS
<1>1. InitialVersion \in Versions /\ 0 \in Versions
    BY VersionAssumption DEF Versions
<1>2. NoUpdate \in WeightUpdates
    BY <1>1 DEF NoUpdate, WeightUpdates, Modes, Statuses, MemberStates
<1> QED
    BY <1>1, <1>2 DEF Init, TypeOK, Lifecycles

\* The effect of MarkDrained and FailWorker on the update record is well typed.
LEMMA RecordType ==
    ASSUME NEW u \in WeightUpdates, NEW w \in Workers, NEW s \in MemberStates, NEW t \in Statuses
    PROVE  [u EXCEPT !.state[w] = s, !.status = t] \in WeightUpdates
BY DEF WeightUpdates

\* So is the effect of AcceptWorker.
LEMMA VerifiedType ==
    ASSUME NEW u \in WeightUpdates, NEW w \in Workers
    PROVE  [u EXCEPT !.state[w] = "VERIFIED"] \in WeightUpdates
BY DEF WeightUpdates, MemberStates

\* Every operation, report and restart keeps the types.
LEMMA NextType == TypeOK /\ [Next]_vars => TypeOK'
<1> SUFFICES ASSUME TypeOK, [Next]_vars PROVE TypeOK'
    OBVIOUS
<1> USE DEF TypeOK
<1>1. CASE BeginSome
    <2> PICK mode \in Modes, from \in Versions, to \in Versions, ids \in SUBSET Workers :
            BeginUpdate(mode, from, to, ids)
        BY <1>1 DEF BeginSome
    <2>1. active' \in WeightUpdates
        BY DEF BeginUpdate, WeightUpdates, Statuses, MemberStates
    <2>2. lifecycle' \in [Workers -> Lifecycles]
        BY DEF BeginUpdate, Lifecycles
    <2> QED
        BY <2>1, <2>2 DEF BeginUpdate
<1>2. ASSUME NEW w \in Workers, MarkDrained(w) PROVE TypeOK'
    <2>1. active' \in WeightUpdates
        BY <1>2, RecordType DEF MarkDrained, MemberStates, Statuses
    <2> QED
        BY <1>2, <2>1 DEF MarkDrained, Lifecycles
<1>3. CASE VerifySome
    <2> PICK w \in Workers, matches \in BOOLEAN : VerifyWorker(w, engine[w], matches)
        BY <1>3 DEF VerifySome
    <2>1. CASE AcceptWorker(w, engine[w])
        <3>1. active' \in WeightUpdates
            BY <2>1, VerifiedType DEF AcceptWorker
        <3>2. lifecycle' \in [Workers -> Lifecycles]
            BY <2>1 DEF AcceptWorker, Lifecycles
        <3> QED
            BY <2>1, <3>1, <3>2 DEF AcceptWorker
    <2>2. CASE FailWorker(w)
        <3>1. active' \in WeightUpdates
            BY <2>2, RecordType DEF FailWorker, MemberStates, Statuses
        <3> QED
            BY <2>2, <3>1 DEF FailWorker, Lifecycles
    <2> QED
        BY <2>1, <2>2 DEF VerifyWorker
<1>4. CASE Commit
    <2>1. active' \in WeightUpdates
        BY <1>4 DEF Commit, WeightUpdates, Statuses
    <2> QED
        BY <1>4, <2>1 DEF Commit
<1>5. CASE Abort
    <2>1. active' \in WeightUpdates
        BY <1>5 DEF Abort, WeightUpdates, Statuses
    <2> QED
        BY <1>5, <2>1 DEF Abort, AbortedLifecycle, Lifecycles
<1>6. CASE HeartbeatSome
    BY <1>6 DEF HeartbeatSome, Heartbeat, Lifecycles
<1>7. CASE RegisterSome
    BY <1>7 DEF RegisterSome, RegisterWorker, Lifecycles
<1>8. ASSUME NEW w \in Workers, NEW v \in Versions, EngineLoad(w, v) PROVE TypeOK'
    BY <1>8 DEF EngineLoad
<1>9. ASSUME NEW v \in Versions, Restart(v) PROVE TypeOK'
    <2>1. active' \in WeightUpdates
        BY <1>9 DEF Restart, WeightUpdates, Statuses
    <2> QED
        BY <1>9, <2>1 DEF Restart, Lifecycles
<1>10. CASE UNCHANGED vars
    BY <1>10 DEF vars
<1> QED
    BY <1>1, <1>2, <1>3, <1>4, <1>5, <1>6, <1>7, <1>8, <1>9, <1>10 DEF Next

\* Every reachable state of the coordinator is well typed: no operation, not
\* even one that raises half way, leaves a lifecycle or a record out of range.
THEOREM TypeCorrect == Spec => []TypeOK
BY InitType, NextType, PTL DEF Spec

-------------------------------------------------------------------------------
\* The controllers' discipline: lifecycles of workers under an update are not
\* rewritten from outside, and a restarted router is told the true version.
Disciplined == ~ReportsDuringUpdate /\ RestartMatchesEngines

\* The inductive invariant behind ServingMatchesEngine.
PoolInv == TypeOK /\ ServingMatchesEngine /\ LoadingIsOut

\* All workers start READY at the version their engines hold.
LEMMA PoolInit == Init => PoolInv
BY InitType DEF Init, PoolInv, ServingMatchesEngine, LoadingIsOut, UnderUpdate, InProgress, NoUpdate

\* The disciplined router keeps belief and engine together: a worker is READY
\* only after a check, and its engine changes only while it is out.
LEMMA PoolNext == Disciplined /\ PoolInv /\ [Next]_vars => PoolInv'
<1> SUFFICES ASSUME Disciplined, PoolInv, [Next]_vars
             PROVE  ServingMatchesEngine' /\ LoadingIsOut'
    BY NextType DEF PoolInv
<1> USE DEF PoolInv, ServingMatchesEngine, LoadingIsOut, UnderUpdate, Serving, Member
<1>1. CASE BeginSome
    BY <1>1 DEF BeginSome, BeginUpdate, TypeOK
<1>2. ASSUME NEW w \in Workers, MarkDrained(w)
      PROVE  ServingMatchesEngine' /\ LoadingIsOut'
    BY <1>2 DEF MarkDrained, TypeOK, WeightUpdates, InProgress
<1>3. CASE VerifySome
    <2> PICK w \in Workers, matches \in BOOLEAN : VerifyWorker(w, engine[w], matches)
        BY <1>3 DEF VerifySome
    <2>1. CASE AcceptWorker(w, engine[w])
        BY <2>1 DEF AcceptWorker, DrainedNext, TypeOK, WeightUpdates, InProgress, VerifyWorker
    <2>2. CASE FailWorker(w)
        BY <2>2 DEF FailWorker, TypeOK, WeightUpdates, InProgress, VerifyWorker
    <2> QED
        BY <2>1, <2>2 DEF VerifyWorker
<1>4. CASE Commit
    BY <1>4 DEF Commit, TypeOK, WeightUpdates, InProgress
<1>5. CASE Abort
    BY <1>5 DEF Abort, AbortedLifecycle, TypeOK, WeightUpdates, InProgress
<1>6. CASE HeartbeatSome
    BY <1>6 DEF HeartbeatSome, Heartbeat, ReportAllowed, Disciplined, TypeOK
<1>7. CASE RegisterSome
    BY <1>7 DEF RegisterSome, RegisterWorker, Disciplined, TypeOK
<1>8. ASSUME NEW w \in Workers, NEW v \in Versions, EngineLoad(w, v)
      PROVE  ServingMatchesEngine' /\ LoadingIsOut'
    BY <1>8 DEF EngineLoad, TypeOK, WeightUpdates
<1>9. ASSUME NEW v \in Versions, Restart(v)
      PROVE  ServingMatchesEngine' /\ LoadingIsOut'
    BY <1>9 DEF Restart, RestartVersionAllowed, Disciplined, TypeOK, WeightUpdates, InProgress
<1>10. CASE UNCHANGED vars
    BY <1>10 DEF vars
<1> QED
    BY <1>1, <1>2, <1>3, <1>4, <1>5, <1>6, <1>7, <1>8, <1>9, <1>10 DEF Next

\* Under that discipline the router never routes to a worker whose engine holds
\* another version than the one it believes, whatever fails in an update.
THEOREM ServingIsTrue == ASSUME Disciplined PROVE Spec => []ServingMatchesEngine
<1>1. Init => PoolInv
    BY PoolInit
<1>2. PoolInv /\ [Next]_vars => PoolInv'
    BY PoolNext
<1>3. PoolInv => ServingMatchesEngine
    BY DEF PoolInv
<1> QED
    BY <1>1, <1>2, <1>3, PTL DEF Spec

-------------------------------------------------------------------------------
\* Every step of the disciplined router is a step of the serving pool.
LEMMA PoolStep == Disciplined /\ PoolInv /\ PoolInv' /\ [Next]_vars => [Pool!Next]_Pool!poolVars
<1> SUFFICES ASSUME Disciplined, PoolInv, PoolInv', [Next]_vars
             PROVE  [Pool!Next]_Pool!poolVars
    OBVIOUS
<1> DEFINE Mark == MaxVersion + 1
<1> DEFINE adv == [w \in Workers |-> IF Serving(w) THEN loaded[w] ELSE Mark]
<1>1. ASSUME UNCHANGED engine,
             \A w \in Workers : Serving(w) /\ Serving(w)' => loaded'[w] = engine[w]
      PROVE  Pool!Readvertise
    <2>1. adv' \in [Workers -> Versions \union {Mark}]
        BY DEF PoolInv, TypeOK
    <2>2. \A w \in Workers : adv'[w] \in {adv[w], engine[w], Mark}
        BY <1>1 DEF PoolInv, ServingMatchesEngine
    <2> QED
        BY <1>1, <2>1, <2>2 DEF Pool!Readvertise
<1>2. CASE UNCHANGED engine
    BY <1>1, <1>2 DEF PoolInv, ServingMatchesEngine, Pool!Next
<1>3. ASSUME NEW w \in Workers, NEW v \in Versions, EngineLoad(w, v) PROVE Pool!Reload(w)
    <2>1. ~Serving(w)
        BY <1>3 DEF EngineLoad, PoolInv, LoadingIsOut, UnderUpdate, Member, Serving
    <2>2. UNCHANGED adv
        BY <1>3 DEF EngineLoad, Serving
    <2> QED
        BY <1>3, <2>1, <2>2 DEF EngineLoad, Pool!Reload
<1>4. CASE \E w \in Workers, v \in Versions : EngineLoad(w, v)
    BY <1>3, <1>4 DEF Pool!Next
<1>5. CASE ~(\E w \in Workers, v \in Versions : EngineLoad(w, v))
    <2>1. UNCHANGED engine
        BY <1>5 DEF Next, vars, BeginSome, BeginUpdate, MarkDrained, VerifySome, VerifyWorker,
                    AcceptWorker, FailWorker, Commit, Abort, HeartbeatSome, Heartbeat,
                    RegisterSome, RegisterWorker, Restart
    <2> QED
        BY <2>1, <1>2
<1> QED
    BY <1>4, <1>5

\* The update protocol implements the serving pool: whatever the order of its
\* steps and failures, engines are reloaded only out of the pool and workers
\* join it only at the version they hold.
THEOREM PoolRefinement == ASSUME Disciplined PROVE Spec => ImplementsPool
<1>1. Init => Pool!Init
    BY VersionAssumption DEF Init, Pool!Init, Serving, Versions
<1>2. Init => PoolInv
    BY PoolInit
<1>3. PoolInv /\ [Next]_vars => PoolInv'
    BY PoolNext
<1>4. PoolInv /\ PoolInv' /\ [Next]_vars => [Pool!Next]_Pool!poolVars
    BY PoolStep
<1> QED
    BY <1>1, <1>2, <1>3, <1>4, PTL DEF Spec, ImplementsPool, Pool!Spec

-------------------------------------------------------------------------------
\* The inductive invariant behind the one-at-a-time rolling update and the
\* finality of failures: it needs the discipline on reports, not on restarts.
MemberInv == TypeOK /\ RollingOneAtATime /\ FailedIsOut /\ FileIsCurrent

\* There is no update at the start.
LEMMA MemberInit == Init => MemberInv
BY InitType DEF Init, MemberInv, RollingOneAtATime, OutForUpdate, FailedIsOut, UnderUpdate,
                InProgress, NoUpdate, FileIsCurrent

\* Every operation on the update saves it before it returns.
LEMMA FileNext == FileIsCurrent /\ [Next]_vars => FileIsCurrent'
BY DEF FileIsCurrent, Next, vars, BeginSome, BeginUpdate, MarkDrained,
       VerifySome, VerifyWorker, AcceptWorker, FailWorker, Commit, Abort, HeartbeatSome, Heartbeat,
       RegisterSome, RegisterWorker, EngineLoad, Restart

\* The members of an update change lifecycle only through the coordinator, one
\* at a time in a rolling update.
LEMMA MemberNext == ~ReportsDuringUpdate /\ MemberInv /\ [Next]_vars => MemberInv'
<1> SUFFICES ASSUME ~ReportsDuringUpdate, MemberInv, [Next]_vars
             PROVE  RollingOneAtATime' /\ FailedIsOut'
    BY NextType, FileNext DEF MemberInv
<1> USE DEF MemberInv, RollingOneAtATime, FailedIsOut, OutForUpdate, UnderUpdate, Member
<1>1. CASE BeginSome
    <2> PICK mode \in Modes, from \in Versions, to \in Versions, ids \in SUBSET Workers :
            BeginUpdate(mode, from, to, ids)
        BY <1>1 DEF BeginSome
    <2>1. FailedIsOut'
        BY DEF BeginUpdate
    <2>2. PICK first \in DrainedFirst(mode, ids) :
             lifecycle' = [w \in Workers |-> IF w \in first THEN "DRAINING" ELSE lifecycle[w]]
        BY DEF BeginUpdate
    <2>3. active'.mode = mode /\ \A w \in Workers : active'.state[w] # "ABSENT" => w \in ids
        BY DEF BeginUpdate
    <2>4. \A w \in ids : lifecycle[w] = "READY"
        BY DEF BeginUpdate
    <2>5. mode = "rolling" => \E w \in ids : first = {w}
        BY <2>2 DEF DrainedFirst
    <2>6. RollingOneAtATime'
        BY <2>2, <2>3, <2>4, <2>5
    <2> QED
        BY <2>1, <2>6
<1>2. ASSUME NEW w \in Workers, MarkDrained(w)
      PROVE  RollingOneAtATime' /\ FailedIsOut'
    BY <1>2 DEF MarkDrained, TypeOK, WeightUpdates, InProgress
<1>3. CASE VerifySome
    <2> PICK w \in Workers, matches \in BOOLEAN : VerifyWorker(w, engine[w], matches)
        BY <1>3 DEF VerifySome
    <2>1. CASE AcceptWorker(w, engine[w])
        <3>1. PICK next \in DrainedNext(active') :
                lifecycle' = [x \in Workers |-> IF x \in next THEN "DRAINING"
                                                ELSE IF x = w THEN "READY" ELSE lifecycle[x]]
            BY <2>1 DEF AcceptWorker
        <3>2. /\ active'.mode = active.mode /\ active'.status = active.status
              /\ active'.state = [active.state EXCEPT ![w] = "VERIFIED"]
            BY <2>1 DEF AcceptWorker, TypeOK, WeightUpdates
        <3>3. /\ \A x \in next : active'.state[x] = "PENDING"
              /\ \A x, y \in next : x = y
            BY <3>1 DEF DrainedNext
        <3>4. \A x \in OutForUpdate : active.mode = "rolling" => x = w
            BY DEF VerifyWorker
        <3>5. RollingOneAtATime'
            BY <3>1, <3>2, <3>3, <3>4 DEF TypeOK, InProgress
        <3>6. FailedIsOut'
            BY <3>1, <3>2, <3>3 DEF TypeOK, InProgress, WeightUpdates
        <3> QED
            BY <3>5, <3>6
    <2>2. CASE FailWorker(w)
        BY <2>2 DEF FailWorker, TypeOK, WeightUpdates, InProgress, VerifyWorker
    <2> QED
        BY <2>1, <2>2 DEF VerifyWorker
<1>4. CASE Commit
    BY <1>4 DEF Commit, TypeOK, WeightUpdates, InProgress
<1>5. CASE Abort
    BY <1>5 DEF Abort, TypeOK, WeightUpdates, InProgress
<1>6. CASE HeartbeatSome
    BY <1>6 DEF HeartbeatSome, Heartbeat, ReportAllowed, TypeOK
<1>7. CASE RegisterSome
    BY <1>7 DEF RegisterSome, RegisterWorker, TypeOK
<1>8. ASSUME NEW w \in Workers, NEW v \in Versions, EngineLoad(w, v)
      PROVE  RollingOneAtATime' /\ FailedIsOut'
    BY <1>8 DEF EngineLoad
<1>9. ASSUME NEW v \in Versions, Restart(v)
      PROVE  RollingOneAtATime' /\ FailedIsOut'
    BY <1>9 DEF Restart, TypeOK, WeightUpdates, InProgress
<1>10. CASE UNCHANGED vars
    BY <1>10 DEF vars
<1> QED
    BY <1>1, <1>2, <1>3, <1>4, <1>5, <1>6, <1>7, <1>8, <1>9, <1>10 DEF Next

\* A rolling update never has two of its members out of service at once.
THEOREM RollingIsGentle == ASSUME ~ReportsDuringUpdate PROVE Spec => []RollingOneAtATime
<1>1. MemberInv /\ [Next]_vars => MemberInv'
    BY MemberNext
<1>2. MemberInv => RollingOneAtATime
    BY DEF MemberInv
<1> QED
    BY MemberInit, <1>1, <1>2, PTL DEF Spec

\* The operations leave a failed member failed: it is neither DRAINING nor
\* UPDATING, which mark_drained and verify_worker ask for.
LEMMA FailedStep == MemberInv /\ [Next]_vars =>
    \A w \in Workers : InProgress(active) /\ active.state[w] = "FAILED" =>
        active'.state[w] = "FAILED" /\ active'.status # "COMMITTED"
<1> SUFFICES ASSUME MemberInv, [Next]_vars, NEW w \in Workers,
                    InProgress(active), active.state[w] = "FAILED"
             PROVE  active'.state[w] = "FAILED" /\ active'.status # "COMMITTED"
    OBVIOUS
<1>1. lifecycle[w] = "FAILED"
    BY DEF MemberInv, FailedIsOut, UnderUpdate, Member
<1> USE <1>1 DEF MemberInv, TypeOK, WeightUpdates, InProgress
<1>2. CASE BeginSome
    BY <1>2 DEF BeginSome, BeginUpdate
<1>3. CASE \E x \in Workers : MarkDrained(x)
    BY <1>3 DEF MarkDrained
<1>4. CASE VerifySome
    <2> PICK x \in Workers, matches \in BOOLEAN : VerifyWorker(x, engine[x], matches)
        BY <1>4 DEF VerifySome
    <2>1. x # w
        BY <1>1 DEF VerifyWorker
    <2>2. CASE AcceptWorker(x, engine[x])
        BY <2>1, <2>2 DEF AcceptWorker
    <2>3. CASE FailWorker(x)
        BY <2>1, <2>3 DEF FailWorker
    <2> QED
        BY <2>2, <2>3 DEF VerifyWorker
<1>5. CASE Commit \/ Abort
    BY <1>5 DEF Commit, Abort
<1>6. CASE HeartbeatSome \/ RegisterSome
    BY <1>6 DEF HeartbeatSome, Heartbeat, RegisterSome, RegisterWorker
<1>7. CASE \E x \in Workers, v \in Versions : EngineLoad(x, v)
    BY <1>7 DEF EngineLoad
<1>8. CASE \E v \in Versions : Restart(v)
    BY <1>8 DEF Restart, FileIsCurrent
<1>9. CASE UNCHANGED vars
    BY <1>9 DEF vars
<1> QED
    BY <1>2, <1>3, <1>4, <1>5, <1>6, <1>7, <1>8, <1>9 DEF Next

\* A member's failure is never overwritten: the update it belongs to can only
\* be aborted.
THEOREM FailureStays == ASSUME ~ReportsDuringUpdate PROVE Spec => FailureIsFinal
<1>1. MemberInv /\ [Next]_vars => MemberInv'
    BY MemberNext
<1> QED
    BY MemberInit, <1>1, FailedStep, PTL DEF Spec, FailureIsFinal

-------------------------------------------------------------------------------
\* The inductive invariant behind CommitMeansLoaded, whatever is reported from
\* outside: a member leaves VERIFIED before its engine can be reloaded.
CommitInv == TypeOK /\ FileIsCurrent /\ VerifiedIsLoaded

\* A member is verified against its engine, which is not reloaded afterwards.
LEMMA CommitNext == CommitInv /\ [Next]_vars => CommitInv'
<1> SUFFICES ASSUME CommitInv, [Next]_vars PROVE VerifiedIsLoaded'
    BY NextType, FileNext DEF CommitInv
<1> USE DEF CommitInv, VerifiedIsLoaded, TypeOK, WeightUpdates, InProgress
<1>1. CASE BeginSome
    BY <1>1 DEF BeginSome, BeginUpdate
<1>2. CASE \E w \in Workers : MarkDrained(w)
    BY <1>2 DEF MarkDrained
<1>3. CASE VerifySome
    <2> PICK w \in Workers, matches \in BOOLEAN : VerifyWorker(w, engine[w], matches)
        BY <1>3 DEF VerifySome
    <2>1. CASE engine[w] = active.to /\ AcceptWorker(w, engine[w])
        <3>1. /\ active'.to = active.to /\ active'.status = active.status /\ engine' = engine
              /\ active'.state = [active.state EXCEPT ![w] = "VERIFIED"]
            BY <2>1 DEF AcceptWorker
        <3> QED
            BY <2>1, <3>1
    <2>2. CASE FailWorker(w)
        <3>1. /\ active'.to = active.to /\ engine' = engine
              /\ active'.state = [active.state EXCEPT ![w] = "FAILED"]
            BY <2>2 DEF FailWorker
        <3>2. InProgress(active)
            BY DEF VerifyWorker, UnderUpdate
        <3> QED
            BY <3>1, <3>2
    <2> QED
        BY <2>1, <2>2 DEF VerifyWorker
<1>4. CASE Commit \/ Abort
    BY <1>4 DEF Commit, Abort
<1>5. CASE HeartbeatSome \/ RegisterSome
    BY <1>5 DEF HeartbeatSome, Heartbeat, RegisterSome, RegisterWorker
<1>6. CASE \E w \in Workers, v \in Versions : EngineLoad(w, v)
    BY <1>6 DEF EngineLoad
<1>7. CASE \E v \in Versions : Restart(v)
    BY <1>7 DEF Restart, FileIsCurrent
<1>8. CASE UNCHANGED vars
    BY <1>8 DEF vars
<1> QED
    BY <1>1, <1>2, <1>3, <1>4, <1>5, <1>6, <1>7, <1>8 DEF Next

\* A step that commits is Commit itself.
LEMMA CommitStep == CommitInv /\ [Next]_vars =>
    (InProgress(active) /\ active'.status = "COMMITTED" =>
        \A w \in Workers : Member(active, w) => engine[w] = active.to)
<1> SUFFICES ASSUME CommitInv, [Next]_vars, InProgress(active), active'.status = "COMMITTED",
                    NEW w \in Workers, Member(active, w)
             PROVE  engine[w] = active.to
    OBVIOUS
<1>1. Commit
    <2> SUFFICES ASSUME ~Commit PROVE FALSE
        OBVIOUS
    <2> USE DEF CommitInv, TypeOK, WeightUpdates, InProgress
    <2>1. CASE BeginSome
        BY <2>1 DEF BeginSome, BeginUpdate
    <2>2. CASE \E x \in Workers : MarkDrained(x)
        BY <2>2 DEF MarkDrained
    <2>3. CASE VerifySome
        BY <2>3 DEF VerifySome, VerifyWorker, AcceptWorker, FailWorker
    <2>4. CASE Abort
        BY <2>4 DEF Abort
    <2>5. CASE HeartbeatSome \/ RegisterSome \/ UNCHANGED vars
        BY <2>5 DEF HeartbeatSome, Heartbeat, RegisterSome, RegisterWorker, vars
    <2>6. CASE \E x \in Workers, v \in Versions : EngineLoad(x, v)
        BY <2>6 DEF EngineLoad
    <2>7. CASE \E v \in Versions : Restart(v)
        BY <2>7 DEF Restart, FileIsCurrent
    <2> QED
        BY <2>1, <2>2, <2>3, <2>4, <2>5, <2>6, <2>7 DEF Next
<1> QED
    BY <1>1 DEF Commit, CommitInv, VerifiedIsLoaded, Member

\* A committed update has been loaded by every member, whatever controllers
\* reported in the meantime and however often the router restarted.
THEOREM CommitIsTrue == Spec => CommitMeansLoaded
<1>1. Init => CommitInv
    BY InitType DEF Init, CommitInv, FileIsCurrent, VerifiedIsLoaded, InProgress, NoUpdate
<1> QED
    BY <1>1, CommitNext, CommitStep, PTL DEF Spec, CommitMeansLoaded
-------------------------------------------------------------------------------
\* What separates old and new versions: belief and engine agree, and members
\* that load or have failed are out of the pool.
SeparateInv == PoolInv /\ MemberInv /\ SeparatePools

\* The disciplined router never puts a member back into the pool before it is
\* verified, and drains all of them at once when the update stops the world.
LEMMA SeparateNext == Disciplined /\ SeparateInv /\ [Next]_vars => SeparateInv'
<1> SUFFICES ASSUME Disciplined, SeparateInv, [Next]_vars PROVE SeparatePools'
    BY PoolNext, MemberNext DEF SeparateInv, Disciplined
<1> USE DEF SeparateInv, SeparatePools, Serving, Member
<1>1. CASE BeginSome
    <2> PICK mode \in Modes, from \in Versions, to \in Versions, ids \in SUBSET Workers :
            BeginUpdate(mode, from, to, ids)
        BY <1>1 DEF BeginSome
    <2>1. PICK first \in DrainedFirst(mode, ids) :
             lifecycle' = [w \in Workers |-> IF w \in first THEN "DRAINING" ELSE lifecycle[w]]
        BY DEF BeginUpdate
    <2>2. /\ active'.mode = mode /\ active'.from = from
          /\ active'.state = [w \in Workers |-> IF w \in ids THEN "PENDING" ELSE "ABSENT"]
          /\ loaded' = loaded /\ \A w \in ids : loaded[w] = from
        BY DEF BeginUpdate
    <2>3. mode # "rolling" => first = ids
        BY <2>1 DEF DrainedFirst
    <2> QED
        BY <2>1, <2>2, <2>3
<1>2. ASSUME NEW w \in Workers, MarkDrained(w) PROVE SeparatePools'
    BY <1>2 DEF MarkDrained, PoolInv, TypeOK, WeightUpdates, InProgress
<1>3. CASE VerifySome
    <2> PICK w \in Workers, matches \in BOOLEAN : VerifyWorker(w, engine[w], matches)
        BY <1>3 DEF VerifySome
    <2>1. CASE engine[w] = active.to /\ matches
        <3> AcceptWorker(w, engine[w])
            BY <2>1 DEF VerifyWorker
        <3>1. PICK next \in DrainedNext(active') :
                lifecycle' = [x \in Workers |-> IF x \in next THEN "DRAINING"
                                                ELSE IF x = w THEN "READY" ELSE lifecycle[x]]
            BY DEF AcceptWorker
        <3>2. /\ active'.mode = active.mode /\ active'.status = active.status
              /\ active'.from = active.from /\ active'.to = active.to
              /\ active'.state = [active.state EXCEPT ![w] = "VERIFIED"]
              /\ loaded' = [loaded EXCEPT ![w] = engine[w]]
            BY DEF AcceptWorker, PoolInv, TypeOK, WeightUpdates
        <3>3. ASSUME InProgress(active'), NEW x \in Workers, x # w,
                     active'.state[x] # "ABSENT", lifecycle'[x] = "READY"
              PROVE  \/ active'.state[x] = "VERIFIED" /\ loaded'[x] = active'.to
                     \/ /\ active'.state[x] = "PENDING" /\ loaded'[x] = active'.from
                        /\ active'.mode = "rolling"
            <4>1. active'.state[x] = active.state[x] /\ loaded'[x] = loaded[x]
                BY <3>2, <3>3 DEF PoolInv, TypeOK, WeightUpdates
            <4>2. lifecycle[x] = "READY"
                BY <3>1, <3>3
            <4> QED
                BY <3>2, <3>3, <4>1, <4>2 DEF InProgress
        <3>4. active'.state[w] = "VERIFIED" /\ loaded'[w] = active'.to
            BY <2>1, <3>2 DEF PoolInv, TypeOK, WeightUpdates
        <3> QED
            BY <3>3, <3>4 DEF InProgress
    <2>2. CASE ~(engine[w] = active.to /\ matches)
        <3>1. FailWorker(w) /\ InProgress(active)
            BY <2>2 DEF VerifyWorker, UnderUpdate
        <3>2. /\ active'.mode = active.mode /\ active'.from = active.from
              /\ active'.to = active.to /\ loaded' = loaded
              /\ \A x \in Workers : x # w => /\ active'.state[x] = active.state[x]
                                            /\ lifecycle'[x] = lifecycle[x]
              /\ lifecycle'[w] = "FAILED"
            BY <3>1 DEF FailWorker, PoolInv, TypeOK, WeightUpdates
        <3> QED
            BY <3>1, <3>2
    <2> QED
        BY <2>1, <2>2
<1>4. CASE Commit
    BY <1>4 DEF Commit, PoolInv, TypeOK, WeightUpdates, InProgress
<1>5. CASE Abort
    BY <1>5 DEF Abort, PoolInv, TypeOK, WeightUpdates, InProgress
<1>6. CASE HeartbeatSome
    BY <1>6 DEF HeartbeatSome, Heartbeat, ReportAllowed, Disciplined, UnderUpdate, PoolInv,
                TypeOK, ServingMatchesEngine
<1>7. CASE RegisterSome
    BY <1>7 DEF RegisterSome, RegisterWorker, Disciplined, UnderUpdate, PoolInv, TypeOK
<1>8. ASSUME NEW w \in Workers, NEW v \in Versions, EngineLoad(w, v) PROVE SeparatePools'
    BY <1>8 DEF EngineLoad
<1>9. ASSUME NEW v \in Versions, Restart(v) PROVE SeparatePools'
    BY <1>9 DEF Restart, PoolInv, TypeOK, WeightUpdates, InProgress
<1>10. CASE UNCHANGED vars
    BY <1>10 DEF vars
<1> QED
    BY <1>1, <1>2, <1>3, <1>4, <1>5, <1>6, <1>7, <1>8, <1>9, <1>10 DEF Next

\* During an update old and new versions never mix among the serving members,
\* for any pool, mode, failure and restart.
THEOREM PoolsStaySeparate == ASSUME Disciplined PROVE Spec => []SeparatePools
<1>1. Init => SeparateInv
    BY PoolInit, MemberInit DEF SeparateInv, SeparatePools, Init, InProgress, NoUpdate
<1>2. SeparateInv /\ [Next]_vars => SeparateInv'
    BY SeparateNext
<1>3. SeparateInv => SeparatePools
    BY DEF SeparateInv
<1> QED
    BY <1>1, <1>2, <1>3, PTL DEF Spec

\* Only abort and a restart end an update unfinished, and both take every
\* member that may hold other weights out of the pool.
LEMMA AbortStep == Disciplined /\ PoolInv /\ MemberInv /\ [Next]_vars =>
    (InProgress(active) /\ active'.status = "ABORTED" =>
        \A w \in Workers :
            active.state[w] \in {"UPDATING", "VERIFIED"} => lifecycle'[w] # "READY")
<1> SUFFICES ASSUME Disciplined, PoolInv, MemberInv, [Next]_vars,
                    InProgress(active), active'.status = "ABORTED",
                    NEW w \in Workers, active.state[w] \in {"UPDATING", "VERIFIED"}
             PROVE  lifecycle'[w] # "READY"
    OBVIOUS
<1> USE DEF InProgress
<1>1. CASE Abort
    BY <1>1 DEF Abort, AbortedLifecycle, Member, PoolInv, LoadingIsOut, UnderUpdate
<1>2. ASSUME NEW v \in Versions, Restart(v) PROVE lifecycle'[w] # "READY"
    BY <1>2 DEF Restart, Member, MemberInv, FileIsCurrent
<1>3. CASE BeginSome
    BY <1>3 DEF BeginSome, BeginUpdate
<1>4. ASSUME NEW x \in Workers, MarkDrained(x) PROVE FALSE
    BY <1>4 DEF MarkDrained, PoolInv, TypeOK, WeightUpdates
<1>5. CASE VerifySome
    <2> PICK x \in Workers, matches \in BOOLEAN : VerifyWorker(x, engine[x], matches)
        BY <1>5 DEF VerifySome
    <2> QED
        BY DEF VerifyWorker, AcceptWorker, FailWorker, PoolInv, TypeOK, WeightUpdates
<1>6. CASE Commit
    BY <1>6 DEF Commit, PoolInv, TypeOK, WeightUpdates
<1>7. CASE HeartbeatSome \/ RegisterSome \/ (\E x \in Workers, v \in Versions : EngineLoad(x, v))
           \/ UNCHANGED vars
    BY <1>7 DEF HeartbeatSome, Heartbeat, RegisterSome, RegisterWorker, EngineLoad, vars
<1> QED
    BY <1>1, <1>2, <1>3, <1>4, <1>5, <1>6, <1>7 DEF Next

\* An update that ends unfinished leaves no worker serving whose weights it may
\* have touched, whether an operator or a crash of the router ended it.
THEOREM AbortIsSafe == ASSUME Disciplined PROVE Spec => AbortIsolates
<1>1. Init => PoolInv /\ MemberInv
    BY PoolInit, MemberInit
<1>2. PoolInv /\ MemberInv /\ [Next]_vars => (PoolInv /\ MemberInv)'
    BY PoolNext, MemberNext DEF Disciplined
<1>3. PoolInv /\ MemberInv /\ [Next]_vars =>
        [InProgress(active) /\ active'.status = "ABORTED" =>
            \A w \in Workers :
                active.state[w] \in {"UPDATING", "VERIFIED"} => lifecycle'[w] # "READY"]_vars
    BY AbortStep
<1> QED
    BY <1>1, <1>2, <1>3, PTL DEF Spec, AbortIsolates
===============================================================================
