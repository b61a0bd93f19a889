---------------------- MODULE WeightUpdateExecutorProofs ----------------------
(***************************************************************************)
(* Theorems about WeightUpdateExecutor for every set of workers and of     *)
(* executions.                                                             *)
(***************************************************************************)
EXTENDS WeightUpdateExecutor, PolicyVersionsProofs, FiniteOrders, SequenceTheorems

Loads == [by : Executions, version : Versions]

ExecTypeOK ==
    /\ TypeOK
    /\ exec \in [Executions -> Coroutines]
    /\ loop \in Executions \union {None}
    /\ loads \in [Workers -> Seq(Loads)]

\* The points at which an execution has come to a worker.
WithWorker == {"draining", "loading", "answered", "refused", "except", "abort"}

\* An execution works on members of the update it began, and an update that it
\* keeps after the next one was begun is over.
ControlInv ==
    /\ ExecTypeOK
    /\ FileIsCurrent
    /\ \A e \in Executions :
          /\ ~Running(e) => ~Superseded(e)
          /\ Superseded(e) => ~InProgress(exec[e].kept)
          /\ Running(e) => \E w \in Workers : Member(Own(e), w)
          /\ exec[e].at \in WithWorker => Worker(e) \in Workers
          /\ Running(e) /\ Worker(e) # None => Member(Own(e), Worker(e))

\* What an operation on the coordinator keeps: types, a current file, and the
\* members of the update.
Keeps ==
    /\ TypeOK' /\ FileIsCurrent'
    /\ \A w \in Workers : Member(active, w)' <=> Member(active, w)

\* The execution goes to a point with the worker and the update it had.
Moves(e, point) ==
    /\ exec' \in [Executions -> Coroutines]
    /\ exec'[e].at = point /\ exec'[e].worker = exec[e].worker /\ exec'[e].kept = exec[e].kept
    /\ \A x \in Executions : x # e => exec'[x] = exec[x]

-------------------------------------------------------------------------------
\* The fields of a coroutine have their types.
LEMMA ExecFields ==
    ASSUME ExecTypeOK, NEW e \in Executions
    PROVE  /\ exec[e].at \in Points /\ exec[e].kept \in WeightUpdates
           /\ exec[e].worker \in Workers \union {None} /\ None \notin Workers
           /\ exec[e].waited \in {"record", "busy", "free"}
BY OrderAssumption DEF ExecTypeOK, Coroutines

\* There is no update without members that can be taken for an update.
LEMMA NoUpdateFields ==
    /\ NoUpdate \in WeightUpdates /\ ~InProgress(NoUpdate)
    /\ \A w \in Workers : ~Member(NoUpdate, w)
<1>1. 0 \in Versions
    BY VersionAssumption DEF Versions
<1> QED
    BY <1>1 DEF NoUpdate, WeightUpdates, Modes, Statuses, MemberStates, InProgress, Member

\* What Goto does.
LEMMA GotoMoves ==
    ASSUME ExecTypeOK, NEW e \in Executions, NEW point \in Points, Goto(e, point)
    PROVE  Moves(e, point)
<1>1. exec \in [Executions -> Coroutines]
    BY DEF ExecTypeOK
<1>2. exec[e] = [at |-> exec[e].at, worker |-> exec[e].worker,
                 waited |-> exec[e].waited, kept |-> exec[e].kept]
    BY <1>1 DEF Coroutines
<1>3. exec' = [exec EXCEPT ![e] = [at |-> point, worker |-> exec[e].worker,
                                   waited |-> exec[e].waited, kept |-> exec[e].kept]]
    <2>1. [exec[e] EXCEPT !.at = point] = [at |-> point, worker |-> exec[e].worker,
                                           waited |-> exec[e].waited, kept |-> exec[e].kept]
        BY <1>2
    <2> QED
        BY <2>1 DEF Goto
<1>4. [at |-> point, worker |-> exec[e].worker,
       waited |-> exec[e].waited, kept |-> exec[e].kept] \in Coroutines
    BY <1>1 DEF Coroutines
<1> QED
    BY <1>1, <1>3, <1>4 DEF Moves

\* A coroutine that has returned is well typed and refers to nothing.
LEMMA ReturnedFields ==
    /\ Returned \in Coroutines
    /\ Returned.at = "done" /\ Returned.worker = None /\ Returned.kept = NoUpdate
BY NoUpdateFields DEF Returned, Started, Coroutines, Points

-------------------------------------------------------------------------------
\* The operations of the coordinator that executions and the operator call.
LEMMA MarkKeeps ==
    ASSUME TypeOK, NEW w \in Workers, MarkDrained(w)
    PROVE  Keeps
<1>1. active' \in WeightUpdates
    BY RecordType DEF MarkDrained, TypeOK, MemberStates, Statuses
<1>2. TypeOK'
    BY <1>1 DEF MarkDrained, TypeOK, Lifecycles
<1>3. \A x \in Workers : Member(active, x)' <=> Member(active, x)
    BY DEF MarkDrained, TypeOK, WeightUpdates, Member
<1> QED
    BY <1>2, <1>3 DEF Keeps, FileIsCurrent, MarkDrained

LEMMA FailKeeps ==
    ASSUME TypeOK, NEW w \in Workers, Member(active, w), FailWorker(w)
    PROVE  Keeps
<1>1. active' \in WeightUpdates
    BY RecordType DEF FailWorker, TypeOK, MemberStates, Statuses
<1>2. TypeOK'
    BY <1>1 DEF FailWorker, TypeOK, Lifecycles
<1>3. \A x \in Workers : Member(active, x)' <=> Member(active, x)
    BY DEF FailWorker, TypeOK, WeightUpdates, Member
<1> QED
    BY <1>2, <1>3 DEF Keeps, FileIsCurrent, FailWorker

LEMMA AcceptKeeps ==
    ASSUME TypeOK, NEW w \in Workers, Member(active, w), NEW v \in Versions, AcceptWorker(w, v)
    PROVE  Keeps
<1>1. active' \in WeightUpdates
    BY VerifiedType DEF AcceptWorker, TypeOK
<1>2. lifecycle' \in [Workers -> Lifecycles]
    BY DEF AcceptWorker, TypeOK, Lifecycles
<1>3. TypeOK'
    BY <1>1, <1>2 DEF AcceptWorker, TypeOK
<1>4. \A x \in Workers : Member(active, x)' <=> Member(active, x)
    BY DEF AcceptWorker, TypeOK, WeightUpdates, Member
<1> QED
    BY <1>3, <1>4 DEF Keeps, FileIsCurrent, AcceptWorker

LEMMA CommitKeeps == ASSUME TypeOK, Commit PROVE Keeps
<1>1. active' \in WeightUpdates /\ active'.state = active.state
    BY DEF Commit, TypeOK, WeightUpdates, Statuses
<1> QED
    BY <1>1 DEF Keeps, FileIsCurrent, Commit, TypeOK, Member

LEMMA AbortKeeps == ASSUME TypeOK, Abort PROVE Keeps
<1>1. active' \in WeightUpdates /\ active'.state = active.state
    BY DEF Abort, TypeOK, WeightUpdates, Statuses
<1>2. lifecycle' \in [Workers -> Lifecycles]
    BY DEF Abort, AbortedLifecycle, TypeOK, Lifecycles
<1> QED
    BY <1>1, <1>2 DEF Keeps, FileIsCurrent, Abort, TypeOK, Member

LEMMA ReportKeeps ==
    ASSUME TypeOK, FileIsCurrent, UNCHANGED <<active, saved, engine>>,
           lifecycle' \in [Workers -> Lifecycles], loaded' \in [Workers -> Versions],
           busy' \in [Workers -> BOOLEAN]
    PROVE  Keeps
BY DEF Keeps, TypeOK, FileIsCurrent, Member

LEMMA NothingKeeps == ASSUME TypeOK, FileIsCurrent, UNCHANGED vars PROVE Keeps
BY DEF Keeps, TypeOK, FileIsCurrent, Member, vars

LEMMA RestartKeeps ==
    ASSUME TypeOK, FileIsCurrent, NEW version \in Versions, Restart(version)
    PROVE  Keeps /\ ~InProgress(active')
<1>1. active' \in WeightUpdates /\ active'.state = active.state /\ ~InProgress(active')
    BY DEF Restart, FileIsCurrent, TypeOK, WeightUpdates, Statuses, InProgress
<1>2. TypeOK'
    BY <1>1 DEF Restart, TypeOK, Lifecycles
<1> QED
    BY <1>1, <1>2 DEF Keeps, FileIsCurrent, Restart, Member

\* verify_worker accepts or fails the worker.
LEMMA VerifyKeeps ==
    ASSUME TypeOK, NEW w \in Workers, NEW v \in Versions, NEW matches, VerifyWorker(w, v, matches)
    PROVE  Keeps
<1>1. Member(active, w)
    BY DEF VerifyWorker, UnderUpdate
<1> QED
    BY <1>1, AcceptKeeps, FailKeeps DEF VerifyWorker

-------------------------------------------------------------------------------
\* A coroutine after a step of the coordinator that keeps the members: it stands
\* still, it has returned, or it goes on with the update it had.
GoesOn(e) ==
    \/ exec'[e] = exec[e]
    \/ exec'[e] = Returned
    \/ /\ Running(e)
       /\ exec'[e].at \notin {"idle", "done"}
       /\ exec'[e].kept = exec[e].kept
       /\ \/ exec'[e].worker = exec[e].worker
          \/ exec'[e].worker \in Workers /\ Member(Own(e), exec'[e].worker)
       /\ exec'[e].at \in WithWorker => exec'[e].worker \in Workers

LEMMA ControlKept ==
    ASSUME ControlInv, Keeps,
           exec' \in [Executions -> Coroutines], loop' \in Executions \union {None},
           loads' \in [Workers -> Seq(Loads)],
           \A e \in Executions : GoesOn(e)
    PROVE  ControlInv'
<1>1. ExecTypeOK' /\ FileIsCurrent'
    BY DEF Keeps, ExecTypeOK
<1>2. ASSUME NEW e \in Executions
      PROVE  /\ ~Running(e)' => ~Superseded(e)'
             /\ Superseded(e)' => ~InProgress(exec'[e].kept)
             /\ Running(e)' => \E w \in Workers : Member(Own(e)', w)
             /\ exec'[e].at \in WithWorker => exec'[e].worker \in Workers
             /\ Running(e)' /\ exec'[e].worker # None => Member(Own(e)', exec'[e].worker)
    <2>1. /\ exec[e].worker \in Workers \union {None} /\ None \notin Workers
          /\ ~Running(e) => ~Superseded(e)
          /\ Superseded(e) => ~InProgress(exec[e].kept)
          /\ Running(e) => \E w \in Workers : Member(Own(e), w)
          /\ exec[e].at \in WithWorker => exec[e].worker \in Workers
          /\ Running(e) /\ exec[e].worker # None => Member(Own(e), exec[e].worker)
        BY ExecFields DEF ControlInv, Worker
    <2>2. CASE exec'[e] = Returned
        BY <2>2, ReturnedFields DEF Running, Superseded, WithWorker
    <2>3. CASE exec'[e].kept = exec[e].kept
        <3>1. Own(e)' = IF Superseded(e) THEN exec[e].kept ELSE active'
            BY <2>3 DEF Own, Superseded
        <3>2. \A w \in Workers : Member(Own(e)', w) <=> Member(Own(e), w)
            BY <3>1 DEF Keeps, Own, Member
        <3>3. CASE exec'[e] = exec[e]
            BY <2>1, <3>2, <3>3 DEF Running, Superseded
        <3>4. CASE /\ Running(e) /\ exec'[e].at \notin {"idle", "done"}
                   /\ \/ exec'[e].worker = exec[e].worker
                      \/ exec'[e].worker \in Workers /\ Member(Own(e), exec'[e].worker)
                   /\ exec'[e].at \in WithWorker => exec'[e].worker \in Workers
            BY <2>1, <2>3, <3>2, <3>4 DEF Running, Superseded
        <3> QED
            BY <2>2, <2>3, <3>3, <3>4 DEF GoesOn
    <2> QED
        BY <2>2, <2>3 DEF GoesOn
<1> QED
    BY <1>1, <1>2 DEF ControlInv, Worker

\* Where only one coroutine moves, and to a point with a worker if it had one.
LEMMA MovesGoOn ==
    ASSUME ControlInv, NEW e \in Executions, Running(e), NEW point \in Points \ {"idle", "done"},
           Moves(e, point), point \in WithWorker => Worker(e) \in Workers
    PROVE  \A x \in Executions : GoesOn(x)
BY DEF Moves, GoesOn, Worker

LEMMA ReturnGoesOn ==
    ASSUME ControlInv, NEW e \in Executions, Return(e)
    PROVE  /\ exec' \in [Executions -> Coroutines] /\ exec'[e] = Returned
           /\ \A x \in Executions : x # e => exec'[x] = exec[x]
           /\ \A x \in Executions : GoesOn(x)
BY ReturnedFields DEF Return, GoesOn, ControlInv, ExecTypeOK

LEMMA StayGoesOn ==
    ASSUME ControlInv, UNCHANGED exec
    PROVE  exec' \in [Executions -> Coroutines] /\ \A x \in Executions : GoesOn(x)
BY DEF GoesOn, ControlInv, ExecTypeOK

-------------------------------------------------------------------------------
\* Every worker has a place in the order of each call.
LEMMA PositionType ==
    ASSUME NEW e \in Executions, NEW w \in Workers
    PROVE  Position(e, w) \in 1..Len(CallOrder[e]) /\ Position(e, w) \in Int
<1>1. CallOrder[e] \in Seq(Workers) /\ ToSet(CallOrder[e]) = Workers
    BY OrderAssumption
<1>2. \E i \in 1..Len(CallOrder[e]) : CallOrder[e][i] = w
    BY <1>1 DEF ToSet
<1>3. Len(CallOrder[e]) \in Int
    BY <1>1
<1> QED
    BY <1>2, <1>3 DEF Position

\* The member chosen next is one of those ahead.
LEMMA FirstOfIn ==
    ASSUME NEW e \in Executions, NEW ws \in SUBSET Workers, ws # {}
    PROVE  FirstOf(e, ws) \in ws
<1>1. \A w \in Workers : Position(e, w) \in 1..Len(CallOrder[e]) /\ Position(e, w) \in Int
    BY PositionType
<1> DEFINE places == {Position(e, w) : w \in ws}
<1>2. /\ places \in SUBSET Int /\ places \in SUBSET (1..Len(CallOrder[e])) /\ places # {}
    BY <1>1
<1>3. IsFiniteSet(1..Len(CallOrder[e]))
    <2>1. Len(CallOrder[e]) \in Int
        BY OrderAssumption
    <2> QED
        BY <2>1, FS_Interval
<1>4. IsFiniteSet(places)
    <2> HIDE DEF places
    <2> QED
        BY <1>2, <1>3, FS_Subset
<1>5. PICK m \in places : \A x \in places : m <= x
    <2> HIDE DEF places
    <2> QED
        BY <1>2, <1>4, MinExists
<1>6. PICK w \in ws : m = Position(e, w)
    OBVIOUS
<1>7. \A x \in ws : Position(e, w) <= Position(e, x)
    BY <1>5, <1>6
<1> QED
    BY <1>6, <1>7 DEF FirstOf

\* Select writes three fields of the coroutine.
LEMMA ThreeFields ==
    ASSUME NEW c \in Coroutines, NEW w, NEW point
    PROVE  [[[c EXCEPT !.worker = w] EXCEPT !.waited = "record"] EXCEPT !.at = point]
           = [at |-> point, worker |-> w, waited |-> "record", kept |-> c.kept]
<1>1. c = [at |-> c.at, worker |-> c.worker, waited |-> c.waited, kept |-> c.kept]
    BY DEF Coroutines
<1>2. [c EXCEPT !.worker = w] = [at |-> c.at, worker |-> w, waited |-> c.waited, kept |-> c.kept]
    BY <1>1
<1> DEFINE d == [at |-> c.at, worker |-> w, waited |-> c.waited, kept |-> c.kept]
<1>3. [d EXCEPT !.waited = "record"] = [at |-> c.at, worker |-> w, waited |-> "record", kept |-> c.kept]
    OBVIOUS
<1> DEFINE f == [at |-> c.at, worker |-> w, waited |-> "record", kept |-> c.kept]
<1>4. [f EXCEPT !.at = point] = [at |-> point, worker |-> w, waited |-> "record", kept |-> c.kept]
    OBVIOUS
<1> QED
    BY <1>2, <1>3, <1>4, Zenon

\* What the invariant gives about one coroutine.
LEMMA Facts ==
    ASSUME ControlInv, NEW e \in Executions
    PROVE  /\ ExecTypeOK /\ TypeOK /\ FileIsCurrent
           /\ exec[e].at \in Points /\ exec[e].kept \in WeightUpdates
           /\ Worker(e) \in Workers \union {None} /\ None \notin Workers
           /\ exec[e].at \in WithWorker => Worker(e) \in Workers
           /\ Own(e) \in WeightUpdates
           /\ Running(e) /\ Worker(e) # None => Member(Own(e), Worker(e))
BY ExecFields DEF ControlInv, ExecTypeOK, TypeOK, Own, Superseded, Worker

\* A coroutine goes to another point while the coordinator does what keeps the
\* members of the update.
LEMMA ControlGoto ==
    ASSUME ControlInv, Keeps, NEW e \in Executions, Running(e),
           NEW point \in Points \ {"idle", "done"}, Goto(e, point),
           point \in WithWorker => Worker(e) \in Workers,
           loop' \in Executions \union {None}, loads' \in [Workers -> Seq(Loads)]
    PROVE  ControlInv'
<1>1. Moves(e, point)
    BY Facts, GotoMoves
<1>2. exec' \in [Executions -> Coroutines]
    BY <1>1 DEF Moves
<1>3. \A x \in Executions : GoesOn(x)
    BY <1>1, MovesGoOn
<1> QED
    BY <1>2, <1>3, ControlKept

\* The coroutine returns.
LEMMA ControlReturn ==
    ASSUME ControlInv, Keeps, NEW e \in Executions, Return(e),
           loop' = None, UNCHANGED loads
    PROVE  ControlInv'
<1>1. loop' \in Executions \union {None} /\ loads' \in [Workers -> Seq(Loads)]
    BY DEF ControlInv, ExecTypeOK
<1> QED
    BY <1>1, ReturnGoesOn, ControlKept

\* begin_update supersedes the executions under way, and the new one begins.
LEMMA ControlExecute ==
    ASSUME ControlInv, NEW e \in Executions, NEW mode \in Modes, NEW from \in Versions,
           NEW to \in Versions, NEW ids \in SUBSET Workers, Execute(e, mode, from, to, ids)
    PROVE  ControlInv'
<1>1. /\ BeginUpdate(mode, from, to, ids) /\ exec[e].at = "idle" /\ loop' = e /\ UNCHANGED loads
      /\ exec' = [x \in Executions |->
                   IF x = e THEN Started
                   ELSE IF Running(x) THEN [exec[x] EXCEPT !.kept = Own(x)]
                   ELSE exec[x]]
    BY DEF Execute, At
<1>2. active' \in WeightUpdates
    BY <1>1 DEF BeginUpdate, WeightUpdates, Statuses, MemberStates
<1>3. TypeOK' /\ FileIsCurrent'
    <2>1. lifecycle' \in [Workers -> Lifecycles]
        BY <1>1 DEF BeginUpdate, ControlInv, ExecTypeOK, TypeOK, Lifecycles
    <2> QED
        BY <1>1, <1>2, <2>1 DEF BeginUpdate, ControlInv, ExecTypeOK, TypeOK, FileIsCurrent
<1>4. ~InProgress(active) /\ \E w \in Workers : Member(active', w)
    BY <1>1 DEF BeginUpdate, Member
<1>5. /\ exec'[e] = Started /\ Started \in Coroutines
      /\ Started.at = "next" /\ Started.worker = None /\ Started.kept = NoUpdate
    BY <1>1, NoUpdateFields DEF Started, Coroutines, Points
<1>6. ASSUME NEW x \in Executions, x # e, Running(x)
      PROVE  /\ exec'[x] \in Coroutines
             /\ exec'[x].at = exec[x].at /\ exec'[x].worker = exec[x].worker
             /\ exec'[x].kept = Own(x) /\ Own(x) # NoUpdate
    <2>1. exec'[x] = [exec[x] EXCEPT !.kept = Own(x)]
        BY <1>1, <1>6
    <2>2. exec[x] \in Coroutines /\ Own(x) \in WeightUpdates
        BY Facts DEF ExecTypeOK
    <2>3. Own(x) # NoUpdate
        BY <1>6, NoUpdateFields DEF ControlInv
    <2> QED
        BY <2>1, <2>2, <2>3 DEF Coroutines
<1>7. ASSUME NEW x \in Executions, x # e, ~Running(x)
      PROVE  exec'[x] = exec[x]
    BY <1>1, <1>7
<1>8. exec' \in [Executions -> Coroutines]
    <2>1. \A x \in Executions : exec'[x] \in Coroutines
        BY <1>5, <1>6, <1>7 DEF ControlInv, ExecTypeOK
    <2> QED
        BY <1>1, <2>1
<1>9. ASSUME NEW x \in Executions
      PROVE  /\ ~Running(x)' => ~Superseded(x)'
             /\ Superseded(x)' => ~InProgress(exec'[x].kept)
             /\ Running(x)' => \E w \in Workers : Member(Own(x)', w)
             /\ exec'[x].at \in WithWorker => exec'[x].worker \in Workers
             /\ Running(x)' /\ exec'[x].worker # None => Member(Own(x)', exec'[x].worker)
    <2>1. CASE x = e
        BY <1>4, <1>5, <2>1 DEF Running, Superseded, Own, WithWorker
    <2>2. CASE x # e /\ Running(x)
        <3>1. Superseded(x)' /\ Own(x)' = Own(x) /\ Running(x)'
            BY <1>6, <2>2 DEF Superseded, Own, Running
        <3>2. ~InProgress(Own(x))
            BY <1>4 DEF ControlInv, Own
        <3> QED
            BY <1>6, <2>2, <3>1, <3>2, Facts DEF ControlInv, Worker
    <2>3. CASE x # e /\ ~Running(x)
        <3>1. exec'[x] = exec[x] /\ ~Superseded(x) /\ exec[x].at \notin WithWorker
            BY <1>7, <2>3 DEF ControlInv, Running, WithWorker
        <3> QED
            BY <2>3, <3>1 DEF Running, Superseded
    <2> QED
        BY <2>1, <2>2, <2>3
<1>10. ExecTypeOK'
    BY <1>1, <1>3, <1>8 DEF ControlInv, ExecTypeOK
<1> QED
    BY <1>3, <1>9, <1>10 DEF ControlInv, Worker

\* A reload is added to the queue of the engine.
LEMMA ReloadLoads ==
    ASSUME ControlInv, NEW e \in Executions, Reload(e)
    PROVE  /\ Worker(e) \in Workers /\ Running(e)
           /\ loads' \in [Workers -> Seq(Loads)]
           /\ \A w \in Workers : w # Worker(e) => loads'[w] = loads[w]
           /\ loads'[Worker(e)] = Append(loads[Worker(e)], [by |-> e, version |-> Own(e).to])
<1>1. exec[e].at = "draining" /\ Worker(e) \in Workers
    BY Facts DEF Reload, At, WithWorker
<1>2. loads' = [loads EXCEPT ![Worker(e)] = Append(@, [by |-> e, version |-> Own(e).to])]
    BY DEF Reload
<1>3. [by |-> e, version |-> Own(e).to] \in Loads
    BY Facts DEF Loads, WeightUpdates
<1>4. loads \in [Workers -> Seq(Loads)]
    BY DEF ControlInv, ExecTypeOK
<1> QED
    BY <1>1, <1>2, <1>3, <1>4 DEF Running

\* Every step of a coroutine keeps the invariant.
LEMMA ControlProgress ==
    ASSUME ControlInv, NEW e \in Executions, Progress(e)
    PROVE  ControlInv'
<1> USE Facts
<1>1. /\ loop \in Executions \union {None} /\ loads \in [Workers -> Seq(Loads)]
      /\ exec \in [Executions -> Coroutines]
    BY DEF ControlInv, ExecTypeOK
<1>2. CASE Select(e)
    <2> DEFINE w == FirstOf(e, Ahead(e))
    <2>1. w \in Workers /\ Member(Own(e), w)
        BY <1>2, FirstOfIn DEF Select, Ahead
    <2>2. exec[e].at = "next" /\ Running(e) /\ UNCHANGED <<vars, loop, loads>>
        BY <1>2 DEF Select, At, Running
    <2> HIDE DEF w
    <2>3. PICK point \in {"draining", "except"} :
             exec' = [exec EXCEPT ![e] = [at |-> point, worker |-> w, waited |-> "record",
                                          kept |-> exec[e].kept]]
        <3> DEFINE point == IF lifecycle[w] = "DRAINING" THEN "draining" ELSE "except"
        <3>1. exec' = [exec EXCEPT ![e].worker = w, ![e].waited = "record", ![e].at = point]
            BY <1>2 DEF Select, w
        <3>2. point \in {"draining", "except"}
            OBVIOUS
        <3> HIDE DEF point
        <3>3. exec[e] \in Coroutines
            BY <1>1
        <3>4. [[[exec[e] EXCEPT !.worker = w] EXCEPT !.waited = "record"] EXCEPT !.at = point]
              = [at |-> point, worker |-> w, waited |-> "record", kept |-> exec[e].kept]
            BY <3>3, ThreeFields
        <3>5. exec' = [exec EXCEPT ![e] = [[[exec[e] EXCEPT !.worker = w] EXCEPT !.waited = "record"]
                                              EXCEPT !.at = point]]
            BY <1>1, <3>1
        <3> QED
            BY <3>2, <3>4, <3>5
    <2>4. exec' \in [Executions -> Coroutines]
        BY <1>1, <2>1, <2>3 DEF Coroutines, Points
    <2>5. \A x \in Executions : GoesOn(x)
        BY <1>1, <2>1, <2>2, <2>3 DEF GoesOn
    <2> QED
        BY <1>1, <2>2, <2>4, <2>5, NothingKeeps, ControlKept
<1>3. CASE Sleep(e)
    <2>1. UNCHANGED <<vars, exec, loads>> /\ loop' = None
        BY <1>3 DEF Sleep
    <2> QED
        BY <1>1, <2>1, NothingKeeps, StayGoesOn, ControlKept
<1>4. CASE DrainTimesOut(e) \/ VerifyRaises(e) \/ SeeRefusal(e) \/ FinishRaises(e)
    <2>1. /\ exec[e].at \in {"draining", "answered", "refused", "next"}
          /\ Goto(e, "except") /\ loop' \in Executions \union {None} /\ UNCHANGED <<vars, loads>>
        BY <1>1, <1>4 DEF DrainTimesOut, VerifyRaises, SeeRefusal, FinishRaises, At
    <2>2. Worker(e) \in Workers
        <3>1. CASE exec[e].at # "next"
            BY <2>1, <3>1 DEF WithWorker
        <3>2. CASE exec[e].at = "next"
            <4>1. Ahead(e) = {} /\ Running(e)
                BY <1>4, <3>2 DEF DrainTimesOut, VerifyRaises, SeeRefusal, FinishRaises, At, Running
            <4>2. PICK w \in Workers : Member(Own(e), w)
                BY <4>1 DEF ControlInv
            <4>3. Worker(e) # None
                BY <4>1, <4>2 DEF Ahead
            <4> QED
                BY <4>3
        <3> QED
            BY <3>1, <3>2
    <2>3. Running(e) /\ "except" \in Points \ {"idle", "done"}
        BY <2>1 DEF Running, Points
    <2> QED
        BY <1>1, <2>1, <2>2, <2>3, NothingKeeps, ControlGoto
<1>5. CASE Reload(e)
    <2>1. Keeps /\ Goto(e, "loading") /\ loop' = None
        BY <1>5, ReloadLoads, MarkKeeps DEF Reload
    <2>2. "loading" \in Points \ {"idle", "done"}
        BY DEF Points
    <2> QED
        BY <1>5, <2>1, <2>2, ReloadLoads, ControlGoto
<1>6. CASE ReloadRaises(e)
    <2>1. exec[e].at = "draining" /\ Worker(e) \in Workers /\ Running(e)
        BY <1>6 DEF ReloadRaises, At, WithWorker, Running
    <2>2. Keeps
        BY <1>6, <2>1, MarkKeeps, NothingKeeps DEF ReloadRaises
    <2>3. Goto(e, "except") /\ loop' = e /\ UNCHANGED loads /\ "except" \in Points \ {"idle", "done"}
        BY <1>6 DEF ReloadRaises, Points
    <2> QED
        BY <1>1, <2>1, <2>2, <2>3, ControlGoto
<1>7. ASSUME NEW matches \in BOOLEAN, Verify(e, matches) PROVE ControlInv'
    <2>1. exec[e].at = "answered" /\ Worker(e) \in Workers /\ Running(e) /\ Own(e).to \in Versions
        BY <1>7 DEF Verify, At, WithWorker, Running, WeightUpdates
    <2>2. Keeps
        BY <1>7, <2>1, VerifyKeeps DEF Verify
    <2>3. PICK point \in {"next", "except"} : Goto(e, point)
        BY <1>7 DEF Verify
    <2>4. point \in Points \ {"idle", "done"} /\ loop' = e /\ UNCHANGED loads
        BY <1>7 DEF Verify, Points
    <2> QED
        BY <1>1, <2>1, <2>2, <2>3, <2>4, ControlGoto
<1>8. CASE Finish(e)
    BY <1>8, CommitKeeps, ControlReturn DEF Finish
<1>9. CASE HandleFailure(e)
    <2>1. exec[e].at = "except" /\ Worker(e) \in Workers /\ Running(e)
        BY <1>9 DEF HandleFailure, At, WithWorker, Running
    <2>2. Keeps
        BY <1>9, <2>1, FailKeeps, NothingKeeps DEF HandleFailure
    <2>3. Goto(e, "abort") /\ UNCHANGED <<loop, loads>> /\ "abort" \in Points \ {"idle", "done"}
        BY <1>9 DEF HandleFailure, Points
    <2> QED
        BY <1>1, <2>1, <2>2, <2>3, ControlGoto
<1>10. CASE HandlerRaises(e)
    <2>1. exec[e].at = "except" /\ Worker(e) \in Workers
        BY <1>10 DEF HandlerRaises, At, WithWorker
    <2>2. lifecycle' \in [Workers -> Lifecycles]
        BY <1>10, <2>1 DEF HandlerRaises, TypeOK, Lifecycles
    <2>3. Keeps
        BY <1>10, <2>2, ReportKeeps DEF HandlerRaises, TypeOK
    <2> QED
        BY <1>10, <2>3, ControlReturn DEF HandlerRaises
<1>11. CASE EndFailure(e)
    <2>1. Keeps
        BY <1>11, AbortKeeps, NothingKeeps DEF EndFailure
    <2> QED
        BY <1>11, <2>1, ControlReturn DEF EndFailure
<1> QED
    BY <1>2, <1>3, <1>4, <1>5, <1>6, <1>7, <1>8, <1>9, <1>10, <1>11 DEF Progress

\* A reload leaves the queue of the engine.
LEMMA TailLoads ==
    ASSUME ControlInv, NEW w \in Workers, loads[w] # <<>>, loads' = [loads EXCEPT ![w] = Tail(@)]
    PROVE  /\ loads' \in [Workers -> Seq(Loads)] /\ loads'[w] = Tail(loads[w])
           /\ \A x \in Workers : x # w => loads'[x] = loads[x]
           /\ Head(loads[w]) \in Loads
           /\ Head(loads[w]).by \in Executions /\ Head(loads[w]).version \in Versions
<1>1. loads \in [Workers -> Seq(Loads)]
    BY DEF ControlInv, ExecTypeOK
<1>2. Tail(loads[w]) \in Seq(Loads) /\ Head(loads[w]) \in Loads
    BY <1>1, HeadTailProperties
<1> QED
    BY <1>1, <1>2 DEF Loads

\* So does every step around the coroutines: of threads, engines, the operator
\* and the process.
LEMMA ControlAround ==
    ASSUME ControlInv,
           \/ \E e \in Executions : Answer(e) \/ AnswerFails(e)
           \/ \E w \in Workers : EngineReloads(w) \/ EngineRejects(w)
           \/ \E w \in Workers : Report(w) \/ Readmit(w)
           \/ OperatorAborts
           \/ \E v \in Versions : RouterRestarts(v)
           \/ UNCHANGED allVars
    PROVE  ControlInv'
<1>1. /\ loop \in Executions \union {None} /\ loads \in [Workers -> Seq(Loads)]
      /\ exec \in [Executions -> Coroutines] /\ TypeOK /\ FileIsCurrent
    BY DEF ControlInv, ExecTypeOK
<1>2. ASSUME NEW e \in Executions, Answer(e) \/ AnswerFails(e) PROVE ControlInv'
    <2>1. PICK point \in {"answered", "refused"} : Goto(e, point)
        BY <1>2 DEF Answer, AnswerFails
    <2>2. exec[e].at = "loading" /\ UNCHANGED <<vars, loop, loads>>
        BY <1>2 DEF Answer, AnswerFails, At
    <2>3. Worker(e) \in Workers /\ Running(e) /\ point \in Points \ {"idle", "done"}
        BY <2>2, Facts DEF WithWorker, Running, Points
    <2> QED
        BY <1>1, <2>1, <2>2, <2>3, NothingKeeps, ControlGoto
<1>3. ASSUME NEW w \in Workers, EngineReloads(w) PROVE ControlInv'
    <2>1. /\ loads' \in [Workers -> Seq(Loads)] /\ Head(loads[w]).version \in Versions
        BY <1>3, TailLoads DEF EngineReloads
    <2>2. /\ engine' = [engine EXCEPT ![w] = Head(loads[w]).version]
          /\ UNCHANGED <<lifecycle, loaded, busy, active, saved, exec, loop>>
        BY <1>3 DEF EngineReloads
    <2>3. Keeps
        BY <1>1, <2>1, <2>2 DEF Keeps, TypeOK, FileIsCurrent, Member
    <2> QED
        BY <1>1, <2>1, <2>2, <2>3, StayGoesOn, ControlKept
<1>4. ASSUME NEW w \in Workers, EngineRejects(w) PROVE ControlInv'
    <2>1. /\ loads' \in [Workers -> Seq(Loads)] /\ Head(loads[w]).by \in Executions
          /\ UNCHANGED <<vars, loop>>
        BY <1>4, TailLoads DEF EngineRejects
    <2>2. PICK e \in Executions : e = Head(loads[w]).by
        BY <2>1
    <2>3. CASE At(e, "loading") /\ Worker(e) = w /\ Goto(e, "refused")
        <3>1. Running(e) /\ Worker(e) \in Workers /\ "refused" \in Points \ {"idle", "done"}
            BY <2>3 DEF At, Running, Points
        <3> QED
            BY <1>1, <2>1, <2>3, <3>1, NothingKeeps, ControlGoto
    <2>4. CASE UNCHANGED exec
        BY <1>1, <2>1, <2>4, NothingKeeps, StayGoesOn, ControlKept
    <2> QED
        BY <1>4, <2>2, <2>3, <2>4 DEF EngineRejects
<1>5. ASSUME NEW w \in Workers, Readmit(w) PROVE ControlInv'
    <2>1. Keeps
        BY <1>1, <1>5, ReportKeeps DEF Readmit, RegisterWorker, TypeOK, Lifecycles
    <2>2. UNCHANGED <<loop, loads>>
        BY <1>5 DEF Readmit
    <2>3. ASSUME NEW e \in Executions
          PROVE  exec'[e] \in Coroutines /\ GoesOn(e)
        <3>1. CASE exec'[e] = exec[e]
            BY <1>1, <3>1 DEF GoesOn
        <3>2. CASE /\ At(e, "draining")
                   /\ exec'[e] = [exec[e] EXCEPT !.waited = IF busy[w] THEN "busy" ELSE "free"]
            <4>1. exec[e] \in Coroutines /\ exec[e].worker \in Workers
                BY <1>1, <3>2, Facts DEF At, WithWorker, Worker
            <4>2. /\ exec'[e] \in Coroutines /\ exec'[e].at = "draining"
                  /\ exec'[e].kept = exec[e].kept /\ exec'[e].worker = exec[e].worker
                BY <3>2, <4>1 DEF Coroutines, At
            <4> QED
                BY <3>2, <4>1, <4>2 DEF GoesOn, At, Running
        <3> QED
            BY <1>5, <3>1, <3>2 DEF Readmit
    <2>4. exec' \in [Executions -> Coroutines]
        BY <1>5, <2>3 DEF Readmit
    <2> QED
        BY <1>1, <2>1, <2>2, <2>3, <2>4, ControlKept
<1>6. ASSUME NEW w \in Workers, Report(w) PROVE ControlInv'
    <2>1. PICK state \in ReportedLifecycles(w), version \in ReportedVersions(w), load \in BOOLEAN :
              Heartbeat(w, state, version, load)
        BY <1>6 DEF Report
    <2>2. state \in Lifecycles /\ version \in Versions
        BY <1>1 DEF ReportedLifecycles, ReportedVersions, TypeOK, Lifecycles
    <2>3. Keeps
        BY <1>1, <2>1, <2>2, ReportKeeps DEF Heartbeat, TypeOK
    <2> QED
        BY <1>1, <1>6, <2>3, StayGoesOn, ControlKept DEF Report, execVars
<1>7. CASE OperatorAborts
    BY <1>1, <1>7, AbortKeeps, StayGoesOn, ControlKept DEF OperatorAborts, execVars
<1>8. ASSUME NEW v \in Versions, RouterRestarts(v) PROVE ControlInv'
    <2>1. Keeps
        BY <1>1, <1>8, RestartKeeps DEF RouterRestarts
    <2>2. /\ loop' = None /\ UNCHANGED loads
          /\ exec' = [e \in Executions |-> IF Running(e) THEN Returned ELSE exec[e]]
        BY <1>8 DEF RouterRestarts
    <2>3. exec' \in [Executions -> Coroutines] /\ \A e \in Executions : GoesOn(e)
        BY <1>1, <2>2, ReturnedFields DEF GoesOn
    <2> QED
        BY <1>1, <2>1, <2>2, <2>3, ControlKept
<1>9. CASE UNCHANGED allVars
    BY <1>1, <1>9, NothingKeeps, StayGoesOn, ControlKept DEF allVars, execVars
<1> QED
    BY <1>2, <1>3, <1>4, <1>5, <1>6, <1>7, <1>8, <1>9

LEMMA ControlInit == ExecInit => ControlInv
<1> SUFFICES ASSUME ExecInit PROVE ControlInv
    OBVIOUS
<1>1. TypeOK /\ FileIsCurrent
    BY InitType DEF ExecInit, Init, FileIsCurrent
<1>2. ASSUME NEW e \in Executions
      PROVE  exec[e] \in Coroutines /\ exec[e].at = "idle" /\ exec[e].kept = NoUpdate
    BY <1>2, NoUpdateFields DEF ExecInit, Started, Coroutines, Points
<1>3. ExecTypeOK
    BY <1>1, <1>2 DEF ExecTypeOK, ExecInit
<1> QED
    BY <1>1, <1>2, <1>3 DEF ControlInv, Running, Superseded, WithWorker

LEMMA ControlNext == ControlInv /\ [ExecNext]_allVars => ControlInv'
<1> SUFFICES ASSUME ControlInv, [ExecNext]_allVars PROVE ControlInv'
    OBVIOUS
<1>1. ASSUME NEW e \in Executions, ExecuteSome(e) PROVE ControlInv'
    BY <1>1, ControlExecute DEF ExecuteSome
<1>2. ASSUME NEW e \in Executions, Progress(e) PROVE ControlInv'
    BY <1>2, ControlProgress
<1> QED
    BY <1>1, <1>2, ControlAround DEF ExecNext

\* Steps but those that may put workers back into service leave the history alone.
LEMMA ProgressHurriesNone ==
    ASSUME NEW e \in Executions, ExecuteSome(e) \/ Progress(e) \/ Answer(e) \/ AnswerFails(e)
    PROVE  UNCHANGED hurried
BY DEF ExecuteSome, Execute, Answer, AnswerFails, Progress, Select, Sleep, DrainTimesOut, Reload,
       ReloadRaises, Verify, VerifyRaises, SeeRefusal, Finish, FinishRaises, HandleFailure,
       HandlerRaises, EndFailure

\* A worker hurried once stays so in the history.
LEMMA HurriedGrows ==
    ASSUME [ExecNext]_allVars
    PROVE  /\ hurried \subseteq hurried'
           /\ hurried \subseteq Workers => hurried' \subseteq Workers
<1>1. CASE NoteHurried
    BY <1>1 DEF NoteHurried
<1>2. CASE UNCHANGED hurried
    BY <1>2
<1>3. NoteHurried \/ UNCHANGED hurried
    BY ProgressHurriesNone DEF ExecNext, EngineReloads, EngineRejects, Report, Readmit,
       OperatorAborts, RouterRestarts, allVars
<1> QED
    BY <1>1, <1>2, <1>3

\* Every reachable state is well typed, for any overlap of executions, aborts
\* and restarts: no handler reads the update of an execution where it has none.
THEOREM ExecTypesCorrect == ExecSpec => [](ExecTypeOK /\ hurried \subseteq Workers)
<1>1. ControlInv => ExecTypeOK
    BY DEF ControlInv
<1>2. ExecInit => hurried \subseteq Workers
    BY DEF ExecInit
<1>3. hurried \subseteq Workers /\ [ExecNext]_allVars => (hurried \subseteq Workers)'
    BY HurriedGrows
<1> QED
    BY <1>1, <1>2, <1>3, ControlInit, ControlNext, PTL DEF ExecSpec

-------------------------------------------------------------------------------
\* Going to another point of the coroutine is no return.
LEMMA GotoIsNoReturn ==
    ASSUME ExecTypeOK, NEW x \in Executions, NEW e \in Executions,
           NEW point \in Points \ {"done"}, Goto(x, point), Running(e)
    PROVE  exec'[e].at # "done"
BY GotoMoves DEF Moves, Running

\* Only these steps return from an execution.
LEMMA ReturnIsLast ==
    ASSUME ControlInv, [ExecNext]_allVars, NEW e \in Executions, Running(e), exec'[e].at = "done"
    PROVE  \/ Finish(e) \/ HandlerRaises(e) \/ EndFailure(e)
           \/ \E v \in Versions : RouterRestarts(v)
<1> DEFINE going == {"next", "draining", "loading", "answered", "refused", "except", "abort"}
<1>1. going \subseteq Points \ {"done"} /\ ExecTypeOK /\ exec \in [Executions -> Coroutines]
      /\ exec[e].at # "done"
    BY DEF Points, ControlInv, ExecTypeOK, Running
<1>2. ASSUME NEW x \in Executions, NEW point \in going, Goto(x, point) PROVE FALSE
    <2>1. point \in Points \ {"done"}
        BY <1>1
    <2> QED
        BY <1>1, <1>2, <2>1, GotoIsNoReturn
<1>3. ASSUME NEW x \in Executions, ExecuteSome(x) PROVE FALSE
    <2>1. exec' = [y \in Executions |->
                     IF y = x THEN Started
                     ELSE IF Running(y) THEN [exec[y] EXCEPT !.kept = Own(y)]
                     ELSE exec[y]]
        BY <1>3 DEF ExecuteSome, Execute
    <2>2. exec'[e].at \in {"next", exec[e].at}
        BY <1>1, <2>1 DEF Started, Coroutines
    <2> QED
        BY <1>1, <2>2
<1>4. ASSUME NEW x \in Executions, Progress(x)
      PROVE  Finish(e) \/ HandlerRaises(e) \/ EndFailure(e)
    <2>1. CASE Select(x)
        <3> DEFINE w == FirstOf(x, Ahead(x))
                   point == IF lifecycle[w] = "DRAINING" THEN "draining" ELSE "except"
        <3>1. exec' = [exec EXCEPT ![x].worker = w, ![x].waited = "record", ![x].at = point]
            BY <2>1 DEF Select
        <3>2. point \in going
            OBVIOUS
        <3> HIDE DEF w, point
        <3>3. exec' = [exec EXCEPT ![x] = [[[exec[x] EXCEPT !.worker = w] EXCEPT !.waited = "record"]
                                              EXCEPT !.at = point]]
            BY <1>1, <3>1
        <3>4. exec[x] \in Coroutines
            BY <1>1
        <3>5. exec' = [exec EXCEPT ![x] = [at |-> point, worker |-> w, waited |-> "record",
                                           kept |-> exec[x].kept]]
            BY <3>3, <3>4, ThreeFields
        <3>6. exec'[e].at \in {exec[e].at, point}
            BY <1>1, <3>5
        <3> QED
            BY <1>1, <3>2, <3>6
    <2>2. CASE Sleep(x)
        BY <1>1, <2>2 DEF Sleep
    <2>3. CASE \/ DrainTimesOut(x) \/ Reload(x) \/ ReloadRaises(x) \/ VerifyRaises(x)
               \/ SeeRefusal(x) \/ FinishRaises(x) \/ HandleFailure(x)
               \/ \E matches \in BOOLEAN : Verify(x, matches)
        <3>1. PICK point \in going : Goto(x, point)
            BY <2>3 DEF DrainTimesOut, Reload, ReloadRaises, VerifyRaises, SeeRefusal,
                        FinishRaises, HandleFailure, Verify
        <3> QED
            BY <1>2, <3>1
    <2>4. CASE Finish(x) \/ HandlerRaises(x) \/ EndFailure(x)
        <3>1. Return(x)
            BY <2>4 DEF Finish, HandlerRaises, EndFailure
        <3>2. x = e
            BY <1>1, <3>1, ReturnGoesOn
        <3> QED
            BY <2>4, <3>2
    <2> QED
        BY <1>4, <2>1, <2>2, <2>3, <2>4 DEF Progress
<1>5. ASSUME NEW x \in Executions, Answer(x) \/ AnswerFails(x) PROVE FALSE
    <2>1. PICK point \in going : Goto(x, point)
        BY <1>5 DEF Answer, AnswerFails
    <2> QED
        BY <1>2, <2>1
<1>6. ASSUME NEW w \in Workers, EngineRejects(w) PROVE FALSE
    <2>1. CASE UNCHANGED exec
        BY <1>1, <2>1
    <2>2. CASE Goto(Head(loads[w]).by, "refused")
        <3>1. Head(loads[w]).by \in Executions
            BY <1>6, TailLoads DEF EngineRejects
        <3> QED
            BY <1>2, <2>2, <3>1
    <2> QED
        BY <1>6, <2>1, <2>2 DEF EngineRejects
<1>7. ASSUME NEW w \in Workers, Readmit(w) PROVE FALSE
    <2>1. \/ exec'[e] = exec[e]
          \/ exec'[e] = [exec[e] EXCEPT !.waited = IF busy[w] THEN "busy" ELSE "free"]
        BY <1>7 DEF Readmit
    <2>2. exec'[e].at = exec[e].at
        BY <1>1, <2>1 DEF Coroutines
    <2> QED
        BY <1>1, <2>2
<1>8. ASSUME UNCHANGED exec PROVE FALSE
    BY <1>1, <1>8
<1>9. \/ \E v \in Versions : RouterRestarts(v)
      \/ \E x \in Executions : ExecuteSome(x) \/ Progress(x) \/ Answer(x) \/ AnswerFails(x)
      \/ \E w \in Workers : EngineRejects(w) \/ Readmit(w)
      \/ UNCHANGED exec
    BY DEF ExecNext, EngineReloads, Report, OperatorAborts, execVars, allVars
<1> QED
    BY <1>3, <1>4, <1>5, <1>6, <1>7, <1>8, <1>9

\* A return leaves no update of the execution open.
LEMMA ReturnStep ==
    ControlInv /\ [ExecNext]_allVars =>
        [\A e \in Executions : Running(e) /\ exec'[e].at = "done" =>
            ~InProgress(IF Superseded(e) THEN exec[e].kept ELSE active')]_allVars
<1> SUFFICES ASSUME ControlInv, [ExecNext]_allVars, NEW e \in Executions,
                    Running(e), exec'[e].at = "done", ~Superseded(e)
             PROVE  ~InProgress(active')
    BY DEF ControlInv
<1>1. Own(e) = active /\ TypeOK /\ FileIsCurrent
    BY DEF Own, ControlInv, ExecTypeOK
<1>2. CASE Finish(e)
    BY <1>1, <1>2 DEF Finish, Commit, TypeOK, WeightUpdates, InProgress
<1>3. CASE HandlerRaises(e)
    <2>1. exec[e].at = "except" /\ ~UnderUpdate(Worker(e)) /\ active' = active
        BY <1>3 DEF HandlerRaises, At
    <2>2. Member(active, Worker(e))
        BY <1>1, <2>1, Facts DEF WithWorker
    <2> QED
        BY <2>1, <2>2 DEF UnderUpdate
<1>4. CASE EndFailure(e)
    BY <1>1, <1>4 DEF EndFailure, Abort, vars, TypeOK, WeightUpdates, InProgress
<1>5. CASE \E v \in Versions : RouterRestarts(v)
    BY <1>1, <1>5, RestartKeeps DEF RouterRestarts
<1> QED
    BY <1>2, <1>3, <1>4, <1>5, ReturnIsLast

\* An execution that returns, with a result or an exception, leaves no update of
\* its own open, however executions, aborts and restarts overlapped with it.
THEOREM ReturnsEndUpdates == ExecSpec => ReturnEndsUpdate
<1>1. ControlInv /\ [ExecNext]_allVars =>
        [\A e \in Executions : Running(e) /\ exec'[e].at = "done" =>
            ~InProgress(IF Superseded(e) THEN exec[e].kept ELSE active')]_allVars
    BY ReturnStep
<1> QED
    BY <1>1, ControlInit, ControlNext, PTL DEF ExecSpec, ReturnEndsUpdate

-------------------------------------------------------------------------------
\* No execution sends the engine of a worker that was never hurried an older
\* version than it holds.  The code does not compare the two; see the README on
\* when it could happen.
NeverDowngraded ==
    [][\A e \in Executions : /\ At(e, "draining") /\ exec'[e].at = "loading"
                             /\ Worker(e) \notin hurried
                             => Own(e).to > engine[Worker(e)]]_allVars

\* What a worker's place in the update in progress says of its engine.
MemberOk(w) ==
    /\ active.state[w] = "PENDING" =>
          /\ lifecycle[w] \in {"READY", "DRAINING", "FAILED"}
          /\ loads[w] = <<>> /\ engine[w] < active.to
    /\ active.state[w] = "UPDATING" =>
          /\ lifecycle[w] \in {"UPDATING", "FAILED"}
          /\ loads[w] # <<>> => engine[w] < active.to
    /\ active.state[w] = "VERIFIED" =>
          /\ lifecycle[w] \in {"READY", "FAILED"}
          /\ loads[w] = <<>> /\ engine[w] = active.to
    /\ active.state[w] = "FAILED" => lifecycle[w] = "FAILED"

\* A serving worker that was never hurried has its engine at the advertised
\* version and nothing on its way to it; at most one reload is under way, and it
\* raises the version.
WorkerOk(w) == w \notin hurried =>
    /\ Serving(w) => loaded[w] = engine[w] /\ loads[w] = <<>>
    /\ loads[w] # <<>> => Tail(loads[w]) = <<>> /\ Head(loads[w]).version > engine[w]
    /\ UnderUpdate(w) => MemberOk(w)

\* An answer not yet looked at is true of the engine if it is for the version the
\* update in progress wants; engines only rise, so an old answer never is.
AnswerOk(e) == Worker(e) \notin hurried =>
    /\ Own(e).to <= engine[Worker(e)]
    /\ /\ UnderUpdate(Worker(e)) /\ active.state[Worker(e)] = "UPDATING"
       /\ Own(e).to = active.to
       => engine[Worker(e)] = active.to /\ loads[Worker(e)] = <<>>

SafeInv ==
    /\ ControlInv
    /\ \A w \in Workers : WorkerOk(w)
    /\ \A e \in Executions : At(e, "answered") => AnswerOk(e)

\* No execution gets an answer in this step.
NoNewAnswer ==
    \A e \in Executions : exec'[e].at = "answered" =>
        exec[e].at = "answered" /\ exec'[e].worker = exec[e].worker /\ exec'[e].kept = exec[e].kept

\* A worker whose part of the state does not change, or whose update ends.
LEMMA WorkerKept ==
    ASSUME NEW w \in Workers, WorkerOk(w), hurried \subseteq hurried',
           lifecycle'[w] = lifecycle[w], loaded'[w] = loaded[w],
           engine'[w] = engine[w], loads'[w] = loads[w],
           UnderUpdate(w)' => /\ UnderUpdate(w) /\ active'.to = active.to
                              /\ active'.state[w] = active.state[w]
    PROVE  WorkerOk(w)'
BY DEF WorkerOk, MemberOk, Serving

\* Answers stay true where engines stand still, nothing is sent to them and no
\* worker starts to update.
LEMMA AnswersKept ==
    ASSUME SafeInv, NoNewAnswer, active'.to = active.to, UNCHANGED engine,
           hurried \subseteq hurried',
           \A w \in Workers : UnderUpdate(w)' /\ active'.state[w] = "UPDATING" =>
               /\ UnderUpdate(w) /\ active.state[w] = "UPDATING"
               /\ w \in hurried \/ loads'[w] = loads[w] \/ loads'[w] = <<>>
    PROVE  \A e \in Executions : At(e, "answered")' => AnswerOk(e)'
<1> SUFFICES ASSUME NEW e \in Executions, At(e, "answered")' PROVE AnswerOk(e)'
    OBVIOUS
<1>1. /\ At(e, "answered") /\ AnswerOk(e) /\ Worker(e)' = Worker(e)
      /\ Own(e)'.to = Own(e).to /\ Worker(e) \in Workers
    <2>1. At(e, "answered") /\ exec'[e].worker = exec[e].worker /\ exec'[e].kept = exec[e].kept
        BY DEF NoNewAnswer, At
    <2>2. Own(e)'.to = Own(e).to
        BY <2>1 DEF Own, Superseded
    <2>3. Worker(e) \in Workers
        BY <2>1, Facts DEF SafeInv, At, WithWorker
    <2> QED
        BY <2>1, <2>2, <2>3 DEF SafeInv, Worker
<1> QED
    BY <1>1 DEF AnswerOk

\* What an operation on the coordinator leaves true of the workers, while nothing
\* is sent to an engine.
Effect ==
    /\ active'.to = active.to /\ UNCHANGED engine /\ hurried \subseteq hurried'
    /\ \A w \in Workers : UnderUpdate(w)' /\ active'.state[w] = "UPDATING" =>
           UnderUpdate(w) /\ active.state[w] = "UPDATING"
    /\ \A w \in Workers : WorkerOk(w)'

LEMMA SafeEffect ==
    ASSUME SafeInv, ControlInv', NoNewAnswer, Effect, UNCHANGED loads
    PROVE  SafeInv'
<1>1. \A e \in Executions : At(e, "answered")' => AnswerOk(e)'
    BY AnswersKept DEF Effect
<1> QED
    BY <1>1 DEF SafeInv, Effect

LEMMA NothingSafe == ASSUME SafeInv, UNCHANGED <<vars, loads, hurried>> PROVE Effect
<1>1. ASSUME NEW w \in Workers PROVE WorkerOk(w)'
    BY WorkerKept DEF SafeInv, vars, UnderUpdate, InProgress, Member
<1> QED
    BY <1>1 DEF Effect, vars, UnderUpdate, InProgress, Member

\* The update ends, or only the record of one worker outside it changes.
LEMMA EndSafe ==
    ASSUME SafeInv, UNCHANGED <<loaded, engine, loads, hurried>>, ~InProgress(active'),
           active'.to = active.to,
           \A w \in Workers : Serving(w)' => Serving(w)
    PROVE  Effect
BY DEF Effect, SafeInv, WorkerOk, UnderUpdate

LEMMA AbortSafe == ASSUME SafeInv, Abort, UNCHANGED <<loads, hurried>> PROVE Effect
<1>1. TypeOK
    BY DEF SafeInv, ControlInv, ExecTypeOK
<1>2. ~InProgress(active') /\ active'.to = active.to
    BY <1>1 DEF Abort, TypeOK, WeightUpdates, InProgress
<1>3. \A w \in Workers : Serving(w)' => Serving(w)
    BY DEF Abort, AbortedLifecycle, Serving
<1> QED
    BY <1>2, <1>3, EndSafe DEF Abort

LEMMA CommitSafe == ASSUME SafeInv, Commit, UNCHANGED <<loads, hurried>> PROVE Effect
<1>1. TypeOK
    BY DEF SafeInv, ControlInv, ExecTypeOK
<1>2. ~InProgress(active') /\ active'.to = active.to
    BY <1>1 DEF Commit, TypeOK, WeightUpdates, InProgress
<1>3. \A w \in Workers : Serving(w)' => Serving(w)
    BY DEF Commit, Serving
<1> QED
    BY <1>2, <1>3, EndSafe DEF Commit

LEMMA FailSafe ==
    ASSUME SafeInv, NEW w \in Workers, UnderUpdate(w), FailWorker(w), UNCHANGED <<loads, hurried>>
    PROVE  Effect
<1>1. TypeOK
    BY DEF SafeInv, ControlInv, ExecTypeOK
<1>2. /\ lifecycle' = [lifecycle EXCEPT ![w] = "FAILED"] /\ UNCHANGED <<loaded, engine>>
      /\ active'.to = active.to /\ active'.state = [active.state EXCEPT ![w] = "FAILED"]
      /\ InProgress(active') /\ InProgress(active)
    BY <1>1 DEF FailWorker, TypeOK, WeightUpdates, InProgress, UnderUpdate
<1>3. active.state \in [Workers -> MemberStates] /\ lifecycle \in [Workers -> Lifecycles]
    BY <1>1 DEF TypeOK, WeightUpdates
<1>4. ASSUME NEW x \in Workers, x # w
      PROVE  /\ WorkerOk(x)'
             /\ UnderUpdate(x)' /\ active'.state[x] = "UPDATING" =>
                   UnderUpdate(x) /\ active.state[x] = "UPDATING"
    <2>1. lifecycle'[x] = lifecycle[x] /\ active'.state[x] = active.state[x]
        BY <1>2, <1>3, <1>4
    <2>2. UnderUpdate(x)' => UnderUpdate(x)
        BY <1>2, <2>1 DEF UnderUpdate, Member
    <2> QED
        BY <1>2, <2>1, <2>2, WorkerKept DEF SafeInv
<1>5. WorkerOk(w)' /\ active'.state[w] = "FAILED"
    <2>1. lifecycle'[w] = "FAILED" /\ active'.state[w] = "FAILED"
        BY <1>2, <1>3
    <2>2. WorkerOk(w)
        BY DEF SafeInv
    <2> QED
        BY <1>2, <2>1, <2>2 DEF WorkerOk, MemberOk, Serving
<1> QED
    BY <1>2, <1>4, <1>5 DEF Effect

\* A worker accepted at the version its engine holds goes back into service, and
\* the next one of a rolling update is drained.
LEMMA AcceptSafe ==
    ASSUME SafeInv, NEW w \in Workers, UnderUpdate(w),
           w \in hurried \/ (engine[w] = active.to /\ loads[w] = <<>>),
           AcceptWorker(w, active.to), UNCHANGED <<loads, hurried>>
    PROVE  Effect
<1>1. TypeOK
    BY DEF SafeInv, ControlInv, ExecTypeOK
<1>2. /\ UNCHANGED engine /\ loaded' = [loaded EXCEPT ![w] = active.to]
      /\ active'.to = active.to /\ active'.state = [active.state EXCEPT ![w] = "VERIFIED"]
      /\ InProgress(active') /\ InProgress(active)
    BY <1>1 DEF AcceptWorker, TypeOK, WeightUpdates, InProgress, UnderUpdate
<1>3. /\ active.state \in [Workers -> MemberStates] /\ lifecycle \in [Workers -> Lifecycles]
      /\ loaded \in [Workers -> Versions]
    BY <1>1 DEF TypeOK, WeightUpdates
<1>4. PICK next \in DrainedNext(active') :
          lifecycle' = [x \in Workers |-> IF x \in next THEN "DRAINING"
                                          ELSE IF x = w THEN "READY" ELSE lifecycle[x]]
    BY DEF AcceptWorker
<1>5. \A x \in next : x \in Workers /\ active'.state[x] = "PENDING"
    BY DEF DrainedNext
<1>6. ASSUME NEW x \in Workers, x # w
      PROVE  /\ WorkerOk(x)'
             /\ UnderUpdate(x)' /\ active'.state[x] = "UPDATING" =>
                   UnderUpdate(x) /\ active.state[x] = "UPDATING"
    <2>1. /\ loaded'[x] = loaded[x] /\ active'.state[x] = active.state[x]
          /\ lifecycle'[x] = IF x \in next THEN "DRAINING" ELSE lifecycle[x]
        BY <1>2, <1>3, <1>4, <1>6
    <2>2. UnderUpdate(x)' <=> UnderUpdate(x)
        BY <1>2, <2>1 DEF UnderUpdate, Member
    <2>3. CASE x \notin next
        BY <1>2, <2>1, <2>2, <2>3, WorkerKept DEF SafeInv
    <2>4. CASE x \in next
        <3>1. active.state[x] = "PENDING" /\ lifecycle'[x] = "DRAINING" /\ active'.state[x] = "PENDING"
            BY <1>5, <2>1, <2>4
        <3>2. WorkerOk(x)
            BY DEF SafeInv
        <3> QED
            BY <1>2, <2>2, <3>1, <3>2 DEF WorkerOk, MemberOk, Serving
    <2> QED
        BY <2>3, <2>4
<1>7. WorkerOk(w)' /\ active'.state[w] = "VERIFIED"
    <2>1. active'.state[w] = "VERIFIED" /\ loaded'[w] = active.to
        BY <1>2, <1>3
    <2>2. w \notin next
        BY <1>5, <2>1
    <2>3. lifecycle'[w] = "READY"
        BY <1>4, <2>2
    <2> QED
        BY <1>2, <2>1, <2>3 DEF WorkerOk, MemberOk, Serving
<1> QED
    BY <1>2, <1>6, <1>7 DEF Effect

\* mark_drained changes the record of a worker outside the update and raises.
LEMMA MarkOutsiderSafe ==
    ASSUME SafeInv, NEW w \in Workers, ~Member(active, w), MarkDrained(w), UNCHANGED <<loads, hurried>>
    PROVE  Effect
<1>1. TypeOK
    BY DEF SafeInv, ControlInv, ExecTypeOK
<1>2. UNCHANGED <<loaded, engine, active>> /\ lifecycle' = [lifecycle EXCEPT ![w] = "UPDATING"]
    BY DEF MarkDrained
<1>3. ASSUME NEW x \in Workers PROVE WorkerOk(x)'
    <2>1. UnderUpdate(x)' <=> UnderUpdate(x)
        BY <1>2 DEF UnderUpdate, Member
    <2>2. CASE x # w
        <3>1. lifecycle'[x] = lifecycle[x]
            BY <1>1, <1>2, <2>2 DEF TypeOK
        <3> QED
            BY <1>2, <2>1, <3>1, WorkerKept DEF SafeInv
    <2>3. CASE x = w
        <3>1. lifecycle'[w] = "UPDATING" /\ ~UnderUpdate(w) /\ WorkerOk(w)
            BY <1>1, <1>2 DEF TypeOK, UnderUpdate, SafeInv
        <3> QED
            BY <1>2, <2>1, <2>3, <3>1 DEF WorkerOk, Serving
    <2> QED
        BY <2>2, <2>3
<1> QED
    BY <1>2, <1>3 DEF Effect, UnderUpdate, Member

LEMMA GotoNoAnswer ==
    ASSUME ExecTypeOK, NEW e \in Executions, NEW point \in Points \ {"answered"}, Goto(e, point)
    PROVE  NoNewAnswer
BY GotoMoves DEF Moves, NoNewAnswer

LEMMA ReturnNoAnswer ==
    ASSUME ControlInv, NEW e \in Executions, Return(e)
    PROVE  NoNewAnswer
BY ReturnGoesOn, ReturnedFields DEF NoNewAnswer

\* begin_update takes workers that are in service.
LEMMA ExecuteSafe ==
    ASSUME SafeInv, ControlInv', NEW e \in Executions, NEW mode \in Modes, NEW from \in Versions,
           NEW to \in Versions, NEW ids \in SUBSET Workers, Execute(e, mode, from, to, ids)
    PROVE  SafeInv'
<1>1. /\ BeginUpdate(mode, from, to, ids) /\ UNCHANGED <<loads, hurried>>
      /\ exec' = [x \in Executions |->
                   IF x = e THEN Started
                   ELSE IF Running(x) THEN [exec[x] EXCEPT !.kept = Own(x)]
                   ELSE exec[x]]
      /\ TypeOK /\ exec \in [Executions -> Coroutines] /\ ControlInv
    BY DEF Execute, SafeInv, ControlInv, ExecTypeOK
<1>2. /\ UNCHANGED <<loaded, engine>> /\ to > from /\ active'.to = to
      /\ active'.state = [w \in Workers |-> IF w \in ids THEN "PENDING" ELSE "ABSENT"]
      /\ \A w \in ids : lifecycle[w] = "READY" /\ loaded[w] = from
      /\ ~InProgress(active)
    BY <1>1 DEF BeginUpdate
<1>3. PICK first \in DrainedFirst(mode, ids) :
          lifecycle' = [w \in Workers |-> IF w \in first THEN "DRAINING" ELSE lifecycle[w]]
    BY <1>1 DEF BeginUpdate
<1>4. ASSUME NEW w \in Workers PROVE WorkerOk(w)' /\ active'.state[w] # "UPDATING"
    <2>1. WorkerOk(w) /\ lifecycle'[w] \in {"DRAINING", lifecycle[w]}
          /\ active'.state[w] = (IF w \in ids THEN "PENDING" ELSE "ABSENT")
        BY <1>2, <1>3 DEF SafeInv
    <2>2. CASE w \in ids
        BY <1>1, <1>2, <2>1, <2>2 DEF WorkerOk, MemberOk, Serving, TypeOK, Versions
    <2>3. CASE w \notin ids
        <3>1. ~UnderUpdate(w)'
            BY <2>1, <2>3 DEF UnderUpdate, Member
        <3> QED
            BY <1>1, <1>2, <2>1, <3>1 DEF WorkerOk, Serving
    <2> QED
        BY <2>2, <2>3
<1>5. ASSUME NEW x \in Executions, At(x, "answered")' PROVE AnswerOk(x)'
    <2>1. x # e
        BY <1>1, <1>5 DEF At, Started
    <2>2. exec'[x] = exec[x] \/ exec'[x] = [exec[x] EXCEPT !.kept = Own(x)]
        BY <1>1, <2>1
    <2>3. exec'[x].at = "answered" /\ exec[x].at = "answered" /\ exec'[x].worker = exec[x].worker
        BY <1>1, <1>5, <2>2 DEF At, Coroutines
    <2>4. Running(x) /\ exec'[x].kept = Own(x) /\ Worker(x) \in Workers
        BY <1>1, <2>1, <2>3, Facts DEF Running, Coroutines, WithWorker
    <2>5. Own(x) # NoUpdate
        BY <1>1, <2>4, NoUpdateFields DEF ControlInv
    <2>6. Own(x)' = Own(x) /\ Worker(x)' = Worker(x)
        BY <2>3, <2>4, <2>5 DEF Own, Superseded, Worker
    <2>7. AnswerOk(x)
        BY <2>3 DEF SafeInv, At
    <2> QED
        BY <1>1, <1>2, <1>4, <2>4, <2>6, <2>7 DEF AnswerOk
<1> QED
    BY <1>4, <1>5 DEF SafeInv

\* A drained member is sent its reload.
LEMMA ReloadSafe ==
    ASSUME SafeInv, ControlInv', NEW e \in Executions, Reload(e),
           Worker(e) \notin hurried => Own(e).to > engine[Worker(e)]
    PROVE  SafeInv'
<1>0. PICK w \in Workers : w = Worker(e)
    BY ReloadLoads DEF SafeInv
<1>1. /\ Member(active, w) /\ MarkDrained(w) /\ Goto(e, "loading") /\ ControlInv
      /\ UNCHANGED hurried
      /\ \A x \in Workers : x # w => loads'[x] = loads[x]
      /\ loads'[w] = Append(loads[w], [by |-> e, version |-> Own(e).to])
    BY <1>0, ReloadLoads DEF Reload, SafeInv
<1>2. TypeOK /\ ExecTypeOK
    BY <1>1 DEF ControlInv, ExecTypeOK
<1>3. /\ UNCHANGED <<loaded, engine>> /\ lifecycle' = [lifecycle EXCEPT ![w] = "UPDATING"]
      /\ active'.to = active.to /\ active'.state = [active.state EXCEPT ![w] = "UPDATING"]
      /\ InProgress(active') /\ UnderUpdate(w) /\ lifecycle[w] = "DRAINING"
    BY <1>1, <1>2 DEF MarkDrained, TypeOK, WeightUpdates, InProgress, UnderUpdate
<1>4. /\ active.state \in [Workers -> MemberStates] /\ lifecycle \in [Workers -> Lifecycles]
      /\ engine[w] \in Nat /\ active.to \in Nat
    BY <1>1, <1>2, VersionAssumption DEF TypeOK, WeightUpdates, Versions
<1>5. w \notin hurried => loads[w] = <<>> /\ engine[w] < active.to
    <2>1. WorkerOk(w) /\ active.state[w] \in {"PENDING", "UPDATING", "VERIFIED", "FAILED"}
        BY <1>1, <1>3, <1>4 DEF SafeInv, UnderUpdate, Member, MemberStates
    <2> QED
        BY <1>3, <2>1 DEF WorkerOk, MemberOk
<1>6. WorkerOk(w)'
    <2> SUFFICES ASSUME w \notin hurried' PROVE WorkerOk(w)'
        BY DEF WorkerOk
    <2>1. lifecycle'[w] = "UPDATING" /\ active'.state[w] = "UPDATING"
        BY <1>1, <1>3, <1>4
    <2>2. loads'[w] = <<[by |-> e, version |-> Own(e).to]>>
        <3>1. w \notin hurried
            BY <1>1
        <3>2. loads[w] = <<>>
            BY <1>5, <3>1
        <3> QED
            BY <1>1, <3>2
    <2>3. Tail(loads'[w]) = <<>> /\ Head(loads'[w]).version = Own(e).to
        BY <2>2
    <2>4. Head(loads'[w]).version > engine'[w]
        BY <1>0, <1>1, <1>3, <2>3
    <2> QED
        BY <1>1, <1>3, <1>5, <2>1, <2>3, <2>4 DEF WorkerOk, MemberOk, Serving
<1>7. ASSUME NEW x \in Workers, x # w
      PROVE  /\ WorkerOk(x)' /\ loads'[x] = loads[x]
             /\ UnderUpdate(x)' /\ active'.state[x] = "UPDATING" =>
                   UnderUpdate(x) /\ active.state[x] = "UPDATING"
    <2>1. lifecycle'[x] = lifecycle[x] /\ active'.state[x] = active.state[x] /\ loads'[x] = loads[x]
        BY <1>1, <1>3, <1>4, <1>7
    <2>2. UnderUpdate(x)' => UnderUpdate(x)
        BY <1>3, <2>1 DEF UnderUpdate, Member
    <2> QED
        BY <1>1, <1>3, <2>1, <2>2, WorkerKept DEF SafeInv
<1>8. ASSUME NEW x \in Executions, At(x, "answered")' PROVE AnswerOk(x)'
    <2>1. NoNewAnswer
        BY <1>1, <1>2, GotoNoAnswer DEF Points
    <2>2. At(x, "answered") /\ exec'[x].worker = exec[x].worker /\ exec'[x].kept = exec[x].kept
        BY <1>8, <2>1 DEF NoNewAnswer, At
    <2>3. AnswerOk(x) /\ Worker(x)' = Worker(x) /\ Own(x)'.to = Own(x).to
        BY <1>3, <2>2 DEF Own, Superseded, Worker, SafeInv
    <2>4. Worker(x) \in Workers /\ Own(x).to \in Nat
        BY <1>1, <2>2, Facts, VersionAssumption DEF At, WithWorker, WeightUpdates, Versions
    <2>5. CASE Worker(x) = w
        BY <1>1, <1>3, <1>4, <1>5, <2>3, <2>4, <2>5 DEF AnswerOk
    <2>6. CASE Worker(x) # w
        <3>1. PICK y \in Workers : y = Worker(x)
            BY <2>4
        <3>2. /\ loads'[y] = loads[y]
              /\ UnderUpdate(y)' /\ active'.state[y] = "UPDATING" =>
                   UnderUpdate(y) /\ active.state[y] = "UPDATING"
            BY <1>7, <2>6, <3>1
        <3> QED
            BY <1>1, <1>3, <2>3, <3>1, <3>2 DEF AnswerOk
    <2> QED
        BY <2>5, <2>6
<1> QED
    BY <1>6, <1>7, <1>8 DEF SafeInv

\* verify_worker accepts a worker only at the version its engine has loaded,
\* whichever execution brings the answer.
LEMMA VerifySafe ==
    ASSUME SafeInv, NEW e \in Executions, NEW matches \in BOOLEAN, Verify(e, matches)
    PROVE  Effect
<1>0. PICK w \in Workers : w = Worker(e)
    BY Facts DEF SafeInv, Verify, At, WithWorker
<1>1. /\ At(e, "answered") /\ VerifyWorker(w, Own(e).to, matches) /\ UNCHANGED <<loads, hurried>>
      /\ UnderUpdate(w) /\ lifecycle[w] = "UPDATING" /\ TypeOK
    BY <1>0 DEF Verify, VerifyWorker, SafeInv, ControlInv, ExecTypeOK
<1>2. w \in hurried \/ active.state[w] = "UPDATING"
    <2>1. WorkerOk(w) /\ active.state[w] \in {"PENDING", "UPDATING", "VERIFIED", "FAILED"}
        BY <1>1 DEF SafeInv, UnderUpdate, Member, MemberStates, TypeOK, WeightUpdates
    <2> QED
        BY <1>1, <2>1 DEF WorkerOk, MemberOk
<1>3. CASE Own(e).to = active.to /\ matches
    <2>1. w \in hurried \/ (engine[w] = active.to /\ loads[w] = <<>>)
        BY <1>0, <1>1, <1>2, <1>3 DEF SafeInv, AnswerOk
    <2>2. AcceptWorker(w, active.to)
        BY <1>1, <1>3 DEF VerifyWorker
    <2> QED
        BY <1>1, <2>1, <2>2, AcceptSafe
<1>4. CASE ~(Own(e).to = active.to /\ matches)
    <2>1. FailWorker(w)
        BY <1>1, <1>4 DEF VerifyWorker
    <2> QED
        BY <1>1, <2>1, FailSafe
<1> QED
    BY <1>3, <1>4

\* Steps of a coroutine, but for the reload.
LEMMA ProgressSafe ==
    ASSUME SafeInv, ControlInv', NEW e \in Executions, Progress(e), ~Reload(e)
    PROVE  SafeInv'
<1>1. ControlInv /\ ExecTypeOK /\ TypeOK
    BY DEF SafeInv, ControlInv, ExecTypeOK
<1>2. ASSUME NEW point \in Points \ {"answered"}, Goto(e, point) PROVE NoNewAnswer
    BY <1>1, <1>2, GotoNoAnswer
<1>3. CASE Select(e)
    <2> DEFINE w == FirstOf(e, Ahead(e))
               point == IF lifecycle[w] = "DRAINING" THEN "draining" ELSE "except"
    <2>1. exec' = [exec EXCEPT ![e].worker = w, ![e].waited = "record", ![e].at = point]
        BY <1>3 DEF Select
    <2>2. point # "answered"
        OBVIOUS
    <2> HIDE DEF w, point
    <2>3. exec[e] \in Coroutines /\ exec \in [Executions -> Coroutines]
        BY <1>1 DEF ExecTypeOK
    <2>4. exec' = [exec EXCEPT ![e] = [[[exec[e] EXCEPT !.worker = w] EXCEPT !.waited = "record"]
                                          EXCEPT !.at = point]]
        BY <2>1, <2>3
    <2>5. exec' = [exec EXCEPT ![e] = [at |-> point, worker |-> w, waited |-> "record",
                                       kept |-> exec[e].kept]]
        BY <2>3, <2>4, ThreeFields
    <2>6. NoNewAnswer
        BY <2>2, <2>3, <2>5 DEF NoNewAnswer
    <2> QED
        BY <1>3, <2>6, NothingSafe, SafeEffect DEF Select
<1>4. CASE Sleep(e)
    <2>1. NoNewAnswer
        BY <1>4 DEF Sleep, NoNewAnswer
    <2> QED
        BY <1>4, <2>1, NothingSafe, SafeEffect DEF Sleep
<1>5. CASE DrainTimesOut(e) \/ VerifyRaises(e) \/ SeeRefusal(e) \/ FinishRaises(e)
    <2>1. Goto(e, "except") /\ UNCHANGED <<vars, loads, hurried>>
        BY <1>5 DEF DrainTimesOut, VerifyRaises, SeeRefusal, FinishRaises
    <2> QED
        BY <1>2, <2>1, NothingSafe, SafeEffect DEF Points
<1>6. CASE ReloadRaises(e)
    <2>1. Goto(e, "except") /\ UNCHANGED <<loads, hurried>> /\ Worker(e) \in Workers
        BY <1>1, <1>6, Facts DEF ReloadRaises, At, WithWorker
    <2>2. Effect
        BY <1>6, <2>1, NothingSafe, MarkOutsiderSafe DEF ReloadRaises
    <2> QED
        BY <1>2, <2>1, <2>2, SafeEffect DEF Points
<1>7. ASSUME NEW matches \in BOOLEAN, Verify(e, matches) PROVE SafeInv'
    <2>1. PICK point \in {"next", "except"} : Goto(e, point)
        BY <1>7 DEF Verify
    <2>2. NoNewAnswer /\ UNCHANGED <<loads, hurried>>
        BY <1>2, <1>7, <2>1 DEF Verify, Points
    <2> QED
        BY <1>7, <2>2, VerifySafe, SafeEffect
<1>8. CASE Finish(e)
    BY <1>1, <1>8, CommitSafe, ReturnNoAnswer, SafeEffect DEF Finish
<1>9. CASE HandleFailure(e)
    <2>1. Goto(e, "abort") /\ UNCHANGED <<loads, hurried>> /\ Worker(e) \in Workers
        BY <1>1, <1>9, Facts DEF HandleFailure, At, WithWorker
    <2>2. Effect
        BY <1>9, <2>1, NothingSafe, FailSafe DEF HandleFailure, UnderUpdate
    <2> QED
        BY <1>2, <2>1, <2>2, SafeEffect DEF Points
<1>10. CASE HandlerRaises(e)
    <2>1. /\ Return(e) /\ UNCHANGED <<loaded, busy, active, saved, engine, loads, hurried>>
          /\ Worker(e) \in Workers /\ ~UnderUpdate(Worker(e))
          /\ lifecycle' = lifecycle \/ lifecycle' = [lifecycle EXCEPT ![Worker(e)] = "FAILED"]
        BY <1>1, <1>10, Facts DEF HandlerRaises, At, WithWorker
    <2>2. ASSUME NEW x \in Workers PROVE WorkerOk(x)'
        <3>1. UnderUpdate(x)' <=> UnderUpdate(x)
            BY <2>1 DEF UnderUpdate, InProgress, Member
        <3>2. CASE lifecycle'[x] = lifecycle[x]
            BY <2>1, <3>1, <3>2, WorkerKept DEF SafeInv
        <3>3. CASE lifecycle'[x] # lifecycle[x]
            <4>1. ~UnderUpdate(x) /\ lifecycle'[x] = "FAILED"
                BY <1>1, <2>1, <3>3 DEF TypeOK
            <4> QED
                BY <2>1, <3>1, <4>1 DEF SafeInv, WorkerOk, Serving
        <3> QED
            BY <3>2, <3>3
    <2>3. Effect
        BY <2>1, <2>2 DEF Effect, UnderUpdate, InProgress, Member
    <2> QED
        BY <1>1, <2>1, <2>3, ReturnNoAnswer, SafeEffect
<1>11. CASE EndFailure(e)
    <2>1. Effect
        BY <1>11, AbortSafe, NothingSafe DEF EndFailure
    <2> QED
        BY <1>1, <1>11, <2>1, ReturnNoAnswer, SafeEffect DEF EndFailure
<1> QED
    BY <1>3, <1>4, <1>5, <1>6, <1>7, <1>8, <1>9, <1>10, <1>11 DEF Progress

\* The engine confirms: it holds the version of the execution, and if that is the
\* version the update wants, no other reload is on its way to it.
LEMMA AnswerSafe ==
    ASSUME SafeInv, ControlInv', NEW e \in Executions, Answer(e)
    PROVE  SafeInv'
<1>1. /\ Goto(e, "answered") /\ UNCHANGED <<vars, loads, hurried>> /\ At(e, "loading")
      /\ engine[Worker(e)] = Own(e).to /\ ControlInv /\ ExecTypeOK /\ TypeOK
    BY DEF Answer, SafeInv, ControlInv, ExecTypeOK
<1>2. Moves(e, "answered")
    BY <1>1, GotoMoves DEF Points
<1>3. \A w \in Workers : WorkerOk(w)'
    BY <1>1, NothingSafe DEF Effect
<1>4. ASSUME NEW x \in Executions, At(x, "answered")' PROVE AnswerOk(x)'
    <2>1. Worker(x)' = Worker(x) /\ Own(x)' = Own(x) /\ (x # e => At(x, "answered"))
        BY <1>1, <1>2, <1>4 DEF Moves, Worker, Own, Superseded, vars, At
    <2>2. AnswerOk(x)
        <3>1. CASE x = e
            <4>1. /\ Worker(e) \in Workers
                  /\ Own(e).to \in Nat
                BY <1>1, Facts, VersionAssumption DEF At, WithWorker, WeightUpdates, Versions
            <4>2. WorkerOk(Worker(e))
                BY <4>1 DEF SafeInv
            <4> QED
                BY <1>1, <3>1, <4>1, <4>2 DEF WorkerOk, MemberOk, AnswerOk
        <3>2. CASE x # e
            BY <2>1, <3>2 DEF SafeInv
        <3> QED
            BY <3>1, <3>2
    <2> QED
        BY <1>1, <2>1, <2>2 DEF AnswerOk, UnderUpdate, InProgress, Member, vars
<1> QED
    BY <1>3, <1>4 DEF SafeInv

\* An engine does the one reload under way: its worker is out of service.
LEMMA EngineReloadsSafe ==
    ASSUME SafeInv, ControlInv', NEW w \in Workers, EngineReloads(w)
    PROVE  SafeInv'
<1>1. /\ loads[w] # <<>> /\ loads' = [loads EXCEPT ![w] = Tail(@)] /\ ControlInv /\ TypeOK
      /\ engine' = [engine EXCEPT ![w] = Head(loads[w]).version]
      /\ UNCHANGED <<lifecycle, loaded, busy, active, saved, exec, loop, hurried>>
    BY DEF EngineReloads, SafeInv, ControlInv, ExecTypeOK
<1>2. /\ w \notin hurried => loads'[w] = <<>> /\ engine'[w] > engine[w] /\ ~Serving(w)
      /\ engine[w] \in Nat /\ engine'[w] \in Nat
      /\ \A x \in Workers : x # w => loads'[x] = loads[x] /\ engine'[x] = engine[x]
    <2>1. WorkerOk(w)
        BY DEF SafeInv
    <2>2. loads'[w] = Tail(loads[w]) /\ engine'[w] = Head(loads[w]).version
          /\ Head(loads[w]).version \in Versions
          /\ \A x \in Workers : x # w => loads'[x] = loads[x] /\ engine'[x] = engine[x]
        BY <1>1, TailLoads DEF TypeOK
    <2>3. w \notin hurried => loads'[w] = <<>> /\ engine'[w] > engine[w] /\ ~Serving(w)
        BY <1>1, <2>1, <2>2 DEF WorkerOk
    <2>4. engine[w] \in Nat /\ engine'[w] \in Nat
        BY <1>1, <2>2, VersionAssumption DEF TypeOK, Versions
    <2> QED
        BY <2>2, <2>3, <2>4
<1>3. \A x \in Workers : UnderUpdate(x)' <=> UnderUpdate(x)
    BY <1>1 DEF UnderUpdate, InProgress, Member
<1>4. ASSUME NEW x \in Workers PROVE WorkerOk(x)'
    <2>1. WorkerOk(x)
        BY DEF SafeInv
    <2>2. CASE x # w
        BY <1>1, <1>2, <1>3, <2>1, <2>2, WorkerKept
    <2>3. CASE x = w
        BY <1>1, <1>2, <1>3, <2>1, <2>3 DEF WorkerOk, MemberOk, Serving
    <2> QED
        BY <2>2, <2>3
<1>5. ASSUME NEW e \in Executions, At(e, "answered")' PROVE AnswerOk(e)'
    <2>1. /\ At(e, "answered") /\ AnswerOk(e) /\ Worker(e)' = Worker(e) /\ Own(e)' = Own(e)
        BY <1>1, <1>5 DEF At, Worker, Own, Superseded, SafeInv
    <2>2. PICK y \in Workers : y = Worker(e)
        BY <1>1, <2>1, Facts DEF At, WithWorker
    <2>3. Own(e).to \in Nat /\ (y \notin hurried => Own(e).to <= engine[y])
        BY <1>1, <2>1, <2>2, Facts, VersionAssumption DEF WeightUpdates, Versions, AnswerOk
    <2>4. CASE y # w
        BY <1>1, <1>2, <1>3, <2>1, <2>2, <2>4 DEF AnswerOk
    <2>5. CASE y = w
        <3>1. w \notin hurried =>
                ~(UnderUpdate(w) /\ active.state[w] = "UPDATING" /\ Own(e).to = active.to)
            BY <1>1, <2>1, <2>2, <2>5 DEF AnswerOk
        <3>2. w \notin hurried => Own(e).to <= engine'[w]
            BY <1>2, <2>3, <2>5
        <3> QED
            BY <1>1, <1>3, <2>1, <2>2, <2>5, <3>1, <3>2 DEF AnswerOk
    <2> QED
        BY <2>4, <2>5
<1> QED
    BY <1>4, <1>5 DEF SafeInv

\* An engine rejects the one reload under way.
LEMMA EngineRejectsSafe ==
    ASSUME SafeInv, ControlInv', NEW w \in Workers, EngineRejects(w)
    PROVE  SafeInv'
<1>1. /\ loads[w] # <<>> /\ loads' = [loads EXCEPT ![w] = Tail(@)] /\ UNCHANGED <<vars, hurried>>
      /\ ControlInv /\ TypeOK /\ ExecTypeOK
    BY DEF EngineRejects, SafeInv, ControlInv, ExecTypeOK
<1>2. /\ w \notin hurried => loads'[w] = <<>>
      /\ \A x \in Workers : x # w => loads'[x] = loads[x]
    <2>1. WorkerOk(w)
        BY DEF SafeInv
    <2> QED
        BY <1>1, <2>1, TailLoads DEF WorkerOk
<1>3. NoNewAnswer
    <2>1. CASE Goto(Head(loads[w]).by, "refused")
        <3>1. Head(loads[w]).by \in Executions
            BY <1>1, TailLoads
        <3> QED
            BY <1>1, <2>1, <3>1, GotoNoAnswer DEF Points
    <2>2. CASE UNCHANGED exec
        BY <2>2 DEF NoNewAnswer
    <2> QED
        BY <2>1, <2>2 DEF EngineRejects
<1>4. UNCHANGED <<lifecycle, loaded, active, engine, hurried>>
      /\ \A x \in Workers : UnderUpdate(x)' <=> UnderUpdate(x)
    BY <1>1 DEF vars, UnderUpdate, InProgress, Member
<1>5. ASSUME NEW x \in Workers PROVE WorkerOk(x)'
    <2>1. WorkerOk(x)
        BY DEF SafeInv
    <2>2. CASE x # w
        BY <1>2, <1>4, <2>1, <2>2, WorkerKept
    <2>3. CASE x = w
        BY <1>2, <1>4, <2>1, <2>3 DEF WorkerOk, MemberOk, Serving
    <2> QED
        BY <2>2, <2>3
<1>6. \A x \in Workers : x \in hurried \/ loads'[x] = loads[x] \/ loads'[x] = <<>>
    BY <1>2
<1>7. \A e \in Executions : At(e, "answered")' => AnswerOk(e)'
    BY <1>3, <1>4, <1>6, AnswersKept
<1> QED
    BY <1>5, <1>7 DEF SafeInv

\* What the history says of a worker that comes back and was never hurried.
LEMMA NotHurried ==
    ASSUME NoteHurried, NEW w \in Workers, w \notin hurried',
           ~Serving(w), lifecycle'[w] = "READY"
    PROVE  loads[w] = <<>>
BY DEF NoteHurried

\* A worker outside any update is registered again at the version just probed.
LEMMA ReadmitSafe ==
    ASSUME Disciplined, SafeInv, ControlInv', NEW w \in Workers, Readmit(w)
    PROVE  SafeInv'
<1>1. /\ TypeOK /\ exec \in [Executions -> Coroutines] /\ ~UnderUpdate(w)
      /\ lifecycle' = [lifecycle EXCEPT ![w] = "READY"]
      /\ loaded' = [loaded EXCEPT ![w] = engine[w]]
      /\ UNCHANGED <<active, engine, loads>>
      /\ NoteHurried /\ hurried \subseteq hurried'
    BY DEF Readmit, RegisterWorker, Disciplined, SafeInv, ControlInv, ExecTypeOK, NoteHurried
<1>2. NoNewAnswer
    <2> SUFFICES ASSUME NEW e \in Executions
                 PROVE  exec'[e].at = exec[e].at /\ exec'[e].worker = exec[e].worker
                        /\ exec'[e].kept = exec[e].kept
        BY DEF NoNewAnswer
    <2>1. \/ exec'[e] = exec[e]
          \/ exec'[e] = [exec[e] EXCEPT !.waited = IF busy[w] THEN "busy" ELSE "free"]
        BY DEF Readmit
    <2> QED
        BY <1>1, <2>1 DEF Coroutines
<1>3. \A x \in Workers : UnderUpdate(x)' <=> UnderUpdate(x)
    BY <1>1 DEF UnderUpdate, InProgress, Member
<1>4. ASSUME NEW x \in Workers PROVE WorkerOk(x)'
    <2>1. CASE x = w
        <3> SUFFICES ASSUME w \notin hurried' PROVE WorkerOk(w)'
            BY <2>1 DEF WorkerOk
        <3>1. WorkerOk(w) /\ w \notin hurried
            BY <1>1 DEF SafeInv
        <3>2. lifecycle'[w] = "READY" /\ loaded'[w] = engine[w]
            BY <1>1 DEF TypeOK
        <3>3. loads[w] = <<>>
            BY <1>1, <3>1, <3>2, NotHurried DEF WorkerOk
        <3> QED
            BY <1>1, <1>3, <3>2, <3>3 DEF WorkerOk
    <2>2. CASE x # w
        <3>1. lifecycle'[x] = lifecycle[x] /\ loaded'[x] = loaded[x]
            BY <1>1, <2>2 DEF TypeOK
        <3> QED
            BY <1>1, <1>3, <3>1, WorkerKept DEF SafeInv
    <2> QED
        BY <2>1, <2>2
<1> QED
    BY <1>1, <1>2, <1>3, <1>4, SafeEffect DEF Effect

\* A heartbeat that keeps to ReportAllowed tells the truth of a worker it brings
\* back, and says nothing but a failure of a member of the update.
LEMMA ReportSafe ==
    ASSUME Disciplined, SafeInv, ControlInv', NEW w \in Workers, Report(w)
    PROVE  SafeInv'
<1>1. PICK state \in ReportedLifecycles(w), version \in ReportedVersions(w), load \in BOOLEAN :
          Heartbeat(w, state, version, load)
    BY DEF Report
<1>2. /\ TypeOK /\ UNCHANGED <<active, engine, exec, loads>>
      /\ lifecycle'[w] = state /\ loaded'[w] = version
      /\ version \in {loaded[w], engine[w]}
      /\ \A x \in Workers : x # w => lifecycle'[x] = lifecycle[x] /\ loaded'[x] = loaded[x]
      /\ NoteHurried /\ hurried \subseteq hurried'
    BY <1>1 DEF Report, Heartbeat, ReportedVersions, execVars, NoteHurried,
                SafeInv, ControlInv, ExecTypeOK, TypeOK
<1>3. \/ state \in {lifecycle[w], "FAILED"}
      \/ ~UnderUpdate(w) /\ (state = "READY" => version = engine[w])
    BY <1>1 DEF Heartbeat, ReportAllowed, Disciplined
<1>4. NoNewAnswer
    BY <1>2 DEF NoNewAnswer
<1>5. \A x \in Workers : UnderUpdate(x)' <=> UnderUpdate(x)
    BY <1>2 DEF UnderUpdate, InProgress, Member
<1>6. WorkerOk(w)'
    <2> SUFFICES ASSUME w \notin hurried' PROVE WorkerOk(w)'
        BY DEF WorkerOk
    <2>1. WorkerOk(w) /\ w \notin hurried
        BY <1>2 DEF SafeInv
    <2>2. CASE state = lifecycle[w]
        BY <1>2, <1>5, <2>1, <2>2 DEF WorkerOk, MemberOk, Serving
    <2>3. CASE state = "FAILED"
        BY <1>2, <1>5, <2>1, <2>3 DEF WorkerOk, MemberOk, Serving
    <2>4. CASE state # lifecycle[w] /\ ~UnderUpdate(w) /\ (state = "READY" => version = engine[w])
        <3>1. state = "READY" => loads[w] = <<>>
            BY <1>2, <2>4, NotHurried DEF Serving
        <3> QED
            BY <1>2, <1>5, <2>1, <2>4, <3>1 DEF WorkerOk, Serving
    <2> QED
        BY <1>3, <2>2, <2>3, <2>4
<1>7. ASSUME NEW x \in Workers, x # w PROVE WorkerOk(x)'
    BY <1>2, <1>5, <1>7, WorkerKept DEF SafeInv
<1> QED
    BY <1>2, <1>4, <1>5, <1>6, <1>7, SafeEffect DEF Effect

\* A restarted router believes the version the operator read from the engines.
LEMMA RestartSafe ==
    ASSUME Disciplined, SafeInv, ControlInv', NEW v \in Versions, RouterRestarts(v)
    PROVE  SafeInv'
<1>1. /\ TypeOK /\ saved = active /\ UNCHANGED <<engine, loads>> /\ Restart(v)
      /\ exec' = [e \in Executions |-> IF Running(e) THEN Returned ELSE exec[e]]
      /\ \A w \in Workers : lifecycle'[w] = "READY" => engine[w] = v
      /\ NoteHurried /\ hurried \subseteq hurried'
    BY DEF RouterRestarts, Restart, RestartVersionAllowed, Disciplined, NoteHurried,
           SafeInv, ControlInv, ExecTypeOK, FileIsCurrent
<1>2. ~InProgress(active') /\ loaded' = [w \in Workers |-> v] /\ active'.to = active.to
    BY <1>1 DEF Restart, InProgress, TypeOK, WeightUpdates
<1>3. ASSUME NEW w \in Workers, w \notin hurried' PROVE WorkerOk(w)'
    <2>1. WorkerOk(w) /\ w \notin hurried
        BY <1>1, <1>3 DEF SafeInv
    <2>2. lifecycle'[w] = "READY" => loads[w] = <<>>
        BY <1>1, <1>3, <2>1, NotHurried DEF WorkerOk
    <2> QED
        BY <1>1, <1>2, <2>1, <2>2 DEF WorkerOk, Serving, UnderUpdate
<1>4. NoNewAnswer
    BY <1>1, ReturnedFields DEF NoNewAnswer
<1>5. \A w \in Workers : WorkerOk(w)'
    BY <1>3 DEF WorkerOk
<1> QED
    BY <1>1, <1>2, <1>4, <1>5, SafeEffect DEF Effect, UnderUpdate

\* The invariant holds of every step that sends no engine an older version.
LEMMA SafeNext ==
    ASSUME Disciplined, SafeInv, [ExecNext]_allVars,
           [\A e \in Executions : /\ At(e, "draining") /\ exec'[e].at = "loading"
                                  /\ Worker(e) \notin hurried
                                  => Own(e).to > engine[Worker(e)]]_allVars
    PROVE  SafeInv'
<1>1. ControlInv' /\ ControlInv /\ ExecTypeOK
    BY ControlNext DEF SafeInv, ControlInv
<1>2. ASSUME NEW e \in Executions, ExecuteSome(e) PROVE SafeInv'
    BY <1>1, <1>2, ExecuteSafe DEF ExecuteSome
<1>3. ASSUME NEW e \in Executions, Progress(e) PROVE SafeInv'
    <2>1. CASE Reload(e)
        <3>1. exec[e].at = "draining" /\ Goto(e, "loading")
            BY <2>1 DEF Reload, At
        <3>2. exec'[e].at = "loading"
            BY <1>1, <3>1, GotoMoves DEF Moves, Points
        <3>3. ~UNCHANGED allVars
            BY <3>1, <3>2 DEF allVars, execVars
        <3>4. Worker(e) \notin hurried => Own(e).to > engine[Worker(e)]
            BY <3>1, <3>2, <3>3 DEF At
        <3> QED
            BY <1>1, <2>1, <3>4, ReloadSafe
    <2> QED
        BY <1>1, <1>3, <2>1, ProgressSafe
<1>4. ASSUME NEW e \in Executions, AnswerFails(e) PROVE SafeInv'
    <2>1. Goto(e, "refused") /\ UNCHANGED <<vars, loads, hurried>>
        BY <1>4 DEF AnswerFails
    <2> QED
        BY <1>1, <2>1, GotoNoAnswer, NothingSafe, SafeEffect DEF Points
<1>5. CASE OperatorAborts
    <2>1. Abort /\ UNCHANGED <<exec, loads, hurried>>
        BY <1>5 DEF OperatorAborts, execVars
    <2>2. NoNewAnswer
        BY <2>1 DEF NoNewAnswer
    <2> QED
        BY <1>1, <2>1, <2>2, AbortSafe, SafeEffect
<1>6. CASE UNCHANGED allVars
    <2>1. UNCHANGED <<vars, exec, loads, hurried>>
        BY <1>6 DEF allVars, execVars
    <2>2. NoNewAnswer
        BY <2>1 DEF NoNewAnswer
    <2> QED
        BY <1>1, <2>1, <2>2, NothingSafe, SafeEffect
<1> QED
    BY <1>1, <1>2, <1>3, <1>4, <1>5, <1>6, AnswerSafe, EngineReloadsSafe,
       EngineRejectsSafe, ReportSafe, ReadmitSafe, RestartSafe DEF ExecNext

LEMMA SafeInit == ExecInit => SafeInv
<1> SUFFICES ASSUME ExecInit PROVE SafeInv
    OBVIOUS
<1>1. \A w \in Workers : WorkerOk(w)
    BY DEF ExecInit, Init, WorkerOk, UnderUpdate, InProgress, NoUpdate
<1>2. \A e \in Executions : ~At(e, "answered")
    BY DEF ExecInit, At, Started
<1> QED
    BY <1>1, <1>2, ControlInit DEF SafeInv

\* What the theorems below rest on.
LEMMA AlwaysSafe == ASSUME Disciplined PROVE ExecSpec /\ NeverDowngraded => []SafeInv
<1>1. SafeInv /\ [ExecNext]_allVars
      /\ [\A e \in Executions : /\ At(e, "draining") /\ exec'[e].at = "loading"
                                /\ Worker(e) \notin hurried
                                => Own(e).to > engine[Worker(e)]]_allVars
      => SafeInv'
    BY SafeNext
<1> QED
    BY <1>1, SafeInit, PTL DEF ExecSpec, NeverDowngraded

\* A reload on its way to an engine never meets requests, whatever executions
\* overlap, abort, time out or restart and whatever is reported, unless somebody
\* brought that worker back before its engine had done its reloads; provided no
\* execution sends an older version than the engine has.
THEOREM ReloadsOutOfService ==
    ASSUME Disciplined PROVE ExecSpec /\ NeverDowngraded => []NoReloadInService
<1>1. SafeInv => NoReloadInService
    BY DEF SafeInv, WorkerOk, NoReloadInService
<1> QED
    BY <1>1, AlwaysSafe, PTL

\* A coroutine writes the update by the operations of the coordinator alone.
LEMMA ProgressWrites ==
    ASSUME ControlInv, NEW e \in Executions, Progress(e)
    PROVE  \/ UNCHANGED <<active, engine>>
           \/ \E w \in Workers : MarkDrained(w) \/ (UnderUpdate(w) /\ FailWorker(w))
           \/ \E w \in Workers, v \in Versions, matches \in BOOLEAN : VerifyWorker(w, v, matches)
           \/ Commit \/ Abort
<1>1. exec[e].at \in WithWorker => Worker(e) \in Workers
    BY Facts
<1>2. CASE \/ Select(e) \/ Sleep(e) \/ DrainTimesOut(e) \/ VerifyRaises(e) \/ SeeRefusal(e)
           \/ FinishRaises(e) \/ HandlerRaises(e)
    BY <1>2 DEF Select, Sleep, DrainTimesOut, VerifyRaises, SeeRefusal, FinishRaises,
                HandlerRaises, vars
<1>3. CASE Reload(e) \/ ReloadRaises(e)
    BY <1>1, <1>3 DEF Reload, ReloadRaises, At, WithWorker, vars
<1>4. ASSUME NEW matches \in BOOLEAN, Verify(e, matches)
      PROVE  VerifyWorker(Worker(e), Own(e).to, matches)
             /\ Worker(e) \in Workers /\ Own(e).to \in Versions
    BY <1>1, <1>4, Facts DEF Verify, At, WithWorker, WeightUpdates
<1>5. CASE HandleFailure(e)
    BY <1>1, <1>5 DEF HandleFailure, At, WithWorker, vars, UnderUpdate
<1>6. CASE Finish(e) \/ EndFailure(e)
    BY <1>6 DEF Finish, EndFailure, vars
<1> QED
    BY <1>2, <1>3, <1>4, <1>5, <1>6 DEF Progress

\* Only the engines themselves change the version they hold.
LEMMA ProgressEngine ==
    ASSUME ControlInv, NEW e \in Executions, Progress(e)
    PROVE  UNCHANGED engine
<1>1. CASE \E w \in Workers : MarkDrained(w) \/ FailWorker(w)
    BY <1>1 DEF MarkDrained, FailWorker
<1>2. CASE \E w \in Workers, v \in Versions, matches \in BOOLEAN : VerifyWorker(w, v, matches)
    BY <1>2 DEF VerifyWorker, AcceptWorker, FailWorker
<1>3. CASE Commit \/ Abort
    BY <1>3 DEF Commit, Abort
<1> QED
    BY <1>1, <1>2, <1>3, ProgressWrites

\* Only a commit turns an update in progress into a committed one.
LEMMA ExecCommitStep ==
    ASSUME SafeInv, [ExecNext]_allVars, InProgress(active), active'.status = "COMMITTED"
    PROVE  \A w \in Workers \ hurried : Member(active, w) => engine[w] = active.to
<1>1. TypeOK /\ FileIsCurrent
    BY DEF SafeInv, ControlInv, ExecTypeOK
<1>2. CASE Commit
    BY <1>2 DEF Commit, SafeInv, WorkerOk, MemberOk, UnderUpdate, Member
<1>3. CASE ~Commit
    <2> USE <1>1 DEF TypeOK, WeightUpdates, InProgress
    <2>1. active' # active
        OBVIOUS
    <2>2. ASSUME NEW e \in Executions, ExecuteSome(e) PROVE FALSE
        BY <2>2 DEF ExecuteSome, Execute, BeginUpdate
    <2>3. ASSUME NEW w \in Workers, MarkDrained(w) \/ FailWorker(w) PROVE FALSE
        BY <2>3 DEF MarkDrained, FailWorker
    <2>4. ASSUME NEW w \in Workers, NEW v \in Versions, NEW matches \in BOOLEAN,
                 VerifyWorker(w, v, matches)
          PROVE  FALSE
        BY <2>4 DEF VerifyWorker, AcceptWorker, FailWorker
    <2>5. ASSUME Abort PROVE FALSE
        BY <2>5 DEF Abort
    <2>6. ASSUME NEW e \in Executions, Progress(e) PROVE FALSE
        <3>1. ControlInv
            BY DEF SafeInv
        <3> QED
            BY <1>3, <2>1, <2>3, <2>4, <2>5, <2>6, <3>1, ProgressWrites
    <2>7. ASSUME NEW v \in Versions, RouterRestarts(v) PROVE FALSE
        BY <2>7 DEF RouterRestarts, Restart, FileIsCurrent
    <2>8. \/ \E e \in Executions : ExecuteSome(e) \/ Progress(e)
          \/ \E v \in Versions : RouterRestarts(v)
          \/ Abort \/ UNCHANGED active
        BY DEF ExecNext, Answer, AnswerFails, EngineReloads, EngineRejects, Readmit, RegisterWorker,
               Report, Heartbeat, OperatorAborts, vars, allVars
    <2> QED
        BY <2>1, <2>2, <2>5, <2>6, <2>7, <2>8
<1> QED
    BY <1>2, <1>3

\* A commit means that the engines of the members never hurried hold the target.
PatientCommits ==
    [][InProgress(active) /\ active'.status = "COMMITTED" =>
           \A w \in Workers \ hurried : Member(active, w) => engine[w] = active.to]_vars

\* A committed execution has brought the engine of every member that was never
\* hurried to the target.
THEOREM ExecutionsCommitTruly ==
    ASSUME Disciplined PROVE ExecSpec /\ NeverDowngraded => PatientCommits
<1>1. SafeInv /\ [ExecNext]_allVars
      => [InProgress(active) /\ active'.status = "COMMITTED" =>
             \A w \in Workers \ hurried : Member(active, w) => engine[w] = active.to]_vars
    BY ExecCommitStep
<1> QED
    BY <1>1, AlwaysSafe, PTL DEF ExecSpec, PatientCommits

\* Every step around executions is a step of the serving pool.
LEMMA ExecPoolStep ==
    ASSUME SafeInv, SafeInv', [ExecNext]_allVars
    PROVE  [PatientPool!Next]_PatientPool!poolVars
<1> DEFINE Mark == MaxVersion + 1
<1> DEFINE adv == [w \in Workers |-> IF Serving(w) /\ w \notin hurried THEN loaded[w] ELSE Mark]
<1>1. /\ TypeOK /\ TypeOK'
      /\ \A w \in Workers \ hurried : Serving(w) => loaded[w] = engine[w] /\ loads[w] = <<>>
      /\ \A w \in Workers \ hurried' : Serving(w)' => loaded'[w] = engine'[w]
    BY DEF SafeInv, ControlInv, ExecTypeOK, WorkerOk
<1>2. CASE UNCHANGED engine
    <2>1. adv' \in [Workers -> Versions \union {Mark}]
        BY <1>1 DEF TypeOK
    <2>2. \A w \in Workers : adv'[w] \in {adv[w], engine[w], Mark}
        BY <1>1, <1>2
    <2> QED
        BY <1>2, <2>1, <2>2 DEF PatientPool!Readvertise, PatientPool!Next
<1>3. ASSUME NEW w \in Workers, EngineReloads(w) PROVE PatientPool!Next
    <2>1. w \notin hurried => ~Serving(w)
        BY <1>1, <1>3 DEF EngineReloads
    <2>2. UNCHANGED adv
        BY <1>3 DEF EngineReloads, Serving
    <2>3. Head(loads[w]).version \in Versions
        BY <1>3, TailLoads DEF EngineReloads, SafeInv
    <2>4. engine' = [engine EXCEPT ![w] = Head(loads[w]).version]
        BY <1>3 DEF EngineReloads
    <2>5. adv[w] = Mark
        BY <2>1
    <2> QED
        BY <2>2, <2>3, <2>4, <2>5 DEF PatientPool!Reload, PatientPool!Next
<1>4. CASE ~(\E w \in Workers : EngineReloads(w))
    <2>1. \A e \in Executions : Progress(e) => UNCHANGED engine
        BY ProgressEngine DEF SafeInv
    <2>2. (\E e \in Executions : ExecuteSome(e) \/ Answer(e) \/ AnswerFails(e)) => UNCHANGED engine
        BY DEF ExecuteSome, Execute, BeginUpdate, Answer, AnswerFails, vars
    <2>3. (\E w \in Workers : EngineRejects(w) \/ Readmit(w)) => UNCHANGED engine
        BY DEF EngineRejects, Readmit, RegisterWorker, vars
    <2>4. (\E w \in Workers : Report(w)) => UNCHANGED engine
        BY DEF Report, Heartbeat
    <2>5. OperatorAborts \/ (\E v \in Versions : RouterRestarts(v)) => UNCHANGED engine
        BY DEF OperatorAborts, Abort, RouterRestarts, Restart
    <2>6. UNCHANGED allVars => UNCHANGED engine
        BY DEF allVars, vars
    <2>7. UNCHANGED engine
        BY <1>4, <2>1, <2>2, <2>3, <2>4, <2>5, <2>6 DEF ExecNext
    <2> QED
        BY <1>2, <2>7
<1> QED
    BY <1>3, <1>4

\* Executions over real engines implement the serving pool: requests and the
\* version they are promised never meet a reload, but on a worker that was once
\* brought back too early, which the pool counts as withdrawn from then on.
THEOREM ExecutionsRefinePool ==
    ASSUME Disciplined PROVE ExecSpec /\ NeverDowngraded => ImplementsPatientPool
<1>1. ExecInit => PatientPool!Init
    BY VersionAssumption DEF ExecInit, Init, PatientPool!Init, Serving, Versions
<1>2. SafeInv /\ SafeInv' /\ [ExecNext]_allVars => [PatientPool!Next]_PatientPool!poolVars
    BY ExecPoolStep
<1> QED
    BY <1>1, <1>2, AlwaysSafe, PTL DEF ExecSpec, ImplementsPatientPool, PatientPool!Spec

-------------------------------------------------------------------------------
\* The workers an execution may still send its version to.
ToCome(e) == IF Running(e) THEN Ahead(e) \union {w \in Workers : At(e, "draining") /\ w = Worker(e)}
                           ELSE {}

\* Two executions: while the second has not begun, nothing but the first reloads
\* an engine; once it has begun, no third one takes the workers from it again.
TwoInv ==
    /\ SafeInv
    /\ \A e, x \in Executions : Superseded(e) => ~At(x, "idle")
    /\ \A e, x \in Executions : At(x, "idle") =>
          \A w \in ToCome(e) \ hurried : engine[w] < Own(e).to /\ loads[w] = <<>>
    /\ \A e \in Executions : Superseded(e) =>
          \A w \in ToCome(e) \ hurried : UnderUpdate(w) /\ active.state[w] = "PENDING" =>
              engine[w] < exec[e].kept.to

\* What steps other than a begin and a reload leave alone.
Narrows(e) ==
    /\ exec'[e].at = "idle" => exec[e].at = "idle"
    /\ exec'[e].kept # NoUpdate => exec'[e].kept = exec[e].kept
    /\ ToCome(e)' \subseteq ToCome(e)
    /\ exec'[e].kept = exec[e].kept \/ ToCome(e)' = {}

\* The update of the coordinator ends or goes on with the members it has.
Continues ==
    /\ active'.to = active.to
    /\ InProgress(active') => InProgress(active)
    /\ \A w \in Workers : /\ active'.state[w] = "PENDING" => active.state[w] = "PENDING"
                          /\ Member(active, w)' <=> Member(active, w)

LEMMA TwoKept ==
    ASSUME TwoInv, SafeInv', Continues, \A e \in Executions : Narrows(e),
           hurried \subseteq hurried',
           \A w \in Workers : loads[w] = <<>> => engine'[w] = engine[w],
           \A w \in Workers : loads[w] = <<>> => loads'[w] = <<>>
    PROVE  TwoInv'
<1>1. ASSUME NEW e \in Executions, NEW x \in Executions, Superseded(e)', At(x, "idle")' PROVE FALSE
    BY <1>1 DEF TwoInv, Narrows, Superseded, At
<1>2. ASSUME NEW e \in Executions, NEW x \in Executions, At(x, "idle")',
             NEW w \in ToCome(e)', w \notin hurried'
      PROVE  engine'[w] < Own(e)'.to /\ loads'[w] = <<>>
    <2>1. At(x, "idle") /\ w \in ToCome(e) \ hurried /\ exec'[e].kept = exec[e].kept
        BY <1>2 DEF Narrows, At
    <2>2. w \in Workers /\ engine[w] < Own(e).to /\ loads[w] = <<>>
        BY <2>1 DEF TwoInv, ToCome, Ahead
    <2>3. Own(e)'.to = Own(e).to
        BY <2>1 DEF Own, Superseded, Continues
    <2> QED
        BY <2>2, <2>3
<1>3. ASSUME NEW e \in Executions, Superseded(e)', NEW w \in ToCome(e)', w \notin hurried',
             UnderUpdate(w)', active'.state[w] = "PENDING"
      PROVE  engine'[w] < exec'[e].kept.to
    <2>1. Superseded(e) /\ w \in ToCome(e) \ hurried /\ exec'[e].kept = exec[e].kept
        BY <1>3 DEF Narrows, Superseded
    <2>2. w \in Workers /\ UnderUpdate(w) /\ active.state[w] = "PENDING"
        BY <1>3, <2>1 DEF Continues, UnderUpdate, ToCome, Ahead
    <2>3. engine[w] < exec[e].kept.to /\ loads[w] = <<>>
        BY <2>1, <2>2 DEF TwoInv, SafeInv, WorkerOk, MemberOk
    <2> QED
        BY <2>1, <2>2, <2>3
<1> QED
    BY <1>1, <1>2, <1>3 DEF TwoInv

\* A coroutine that stays with its worker and its update, away from the wait.
LEMMA StaysNarrow ==
    ASSUME NEW e \in Executions, Running(e), Continues,
           exec'[e].worker = exec[e].worker, exec'[e].kept = exec[e].kept,
           exec'[e].at # "idle", exec'[e].at = "draining" => exec[e].at = "draining"
    PROVE  Narrows(e)
<1>1. Own(e)' = IF Superseded(e) THEN exec[e].kept ELSE active'
    BY DEF Own, Superseded
<1>2. \A w \in Workers : Member(Own(e)', w) <=> Member(Own(e), w)
    BY <1>1 DEF Continues, Own, Member
<1>3. Ahead(e)' = Ahead(e)
    BY <1>2 DEF Ahead, Worker
<1> QED
    BY <1>3 DEF Narrows, ToCome, At, Worker

LEMMA StillNarrow ==
    ASSUME NEW e \in Executions, Continues, exec'[e] = exec[e]
    PROVE  Narrows(e)
<1>1. CASE Running(e)
    BY <1>1, StaysNarrow DEF Running
<1>2. CASE ~Running(e)
    BY <1>2 DEF Narrows, ToCome, Running
<1> QED
    BY <1>1, <1>2

LEMMA ReturnedNarrow ==
    ASSUME NEW e \in Executions, exec'[e] = Returned
    PROVE  Narrows(e)
BY ReturnedFields DEF Narrows, ToCome, Running

\* The operations of the coordinator continue or end an update.
LEMMA ProgressContinues ==
    ASSUME ControlInv, NEW e \in Executions, Progress(e)
    PROVE  Continues
<1>1. TypeOK
    BY DEF ControlInv, ExecTypeOK
<1> USE <1>1 DEF TypeOK, WeightUpdates, InProgress
<1>2. CASE UNCHANGED <<active, engine>>
    BY <1>2 DEF Continues, Member
<1>3. ASSUME NEW w \in Workers, MarkDrained(w) PROVE Continues
    BY <1>3 DEF MarkDrained, Continues, Member
<1>4. ASSUME NEW w \in Workers, UnderUpdate(w), FailWorker(w) PROVE Continues
    BY <1>4 DEF FailWorker, Continues, Member, UnderUpdate
<1>5. ASSUME NEW w \in Workers, NEW v \in Versions, NEW matches \in BOOLEAN,
             VerifyWorker(w, v, matches)
      PROVE  Continues
    <2>1. UnderUpdate(w) /\ (AcceptWorker(w, v) \/ FailWorker(w))
        BY <1>5 DEF VerifyWorker
    <2>2. CASE AcceptWorker(w, v)
        BY <2>1, <2>2 DEF AcceptWorker, Continues, Member, UnderUpdate
    <2> QED
        BY <1>4, <2>1, <2>2
<1>6. CASE Commit \/ Abort
    BY <1>6 DEF Commit, Abort, Continues, Member
<1> QED
    BY <1>2, <1>3, <1>4, <1>5, <1>6, ProgressWrites

\* Select moves on to one of the workers to come, none of which comes before it.
LEMMA SelectNarrow ==
    ASSUME ControlInv, NEW e \in Executions, Select(e)
    PROVE  \A x \in Executions : Narrows(x)
<1> DEFINE first == FirstOf(e, Ahead(e))
           there == IF lifecycle[first] = "DRAINING" THEN "draining" ELSE "except"
<1>1. PICK w \in Workers : w = first /\ w \in Ahead(e)
    BY FirstOfIn DEF Select, Ahead
<1>2. PICK point \in {"draining", "except"} : point = there
    OBVIOUS
<1>3. exec' = [exec EXCEPT ![e].worker = w, ![e].waited = "record", ![e].at = point]
    BY <1>1, <1>2 DEF Select
<1>4. /\ Running(e) /\ Continues /\ UNCHANGED active /\ exec \in [Executions -> Coroutines]
      /\ Worker(e) \in Workers \union {None}
    <2>1. /\ Running(e) /\ UNCHANGED active /\ exec \in [Executions -> Coroutines]
          /\ Worker(e) \in Workers \union {None}
        BY Facts DEF Select, At, Running, vars, ControlInv, ExecTypeOK
    <2> QED
        BY <2>1 DEF Continues, Member
<1> HIDE DEF first, there
<1>5. exec' = [exec EXCEPT ![e] = [[[exec[e] EXCEPT !.worker = w] EXCEPT !.waited = "record"]
                                      EXCEPT !.at = point]]
    BY <1>3, <1>4
<1>6. exec' = [exec EXCEPT ![e] = [at |-> point, worker |-> w, waited |-> "record",
                                   kept |-> exec[e].kept]]
    BY <1>4, <1>5, ThreeFields
<1>7. \A x \in Executions : x # e => Narrows(x)
    BY <1>4, <1>6, StillNarrow
<1>8. Narrows(e)
    <2>1. exec'[e].at = point /\ exec'[e].worker = w /\ exec'[e].kept = exec[e].kept
        BY <1>4, <1>6
    <2>2. Own(e)' = Own(e)
        BY <1>4, <2>1 DEF Own, Superseded
    <2>3. \A y \in Workers : Position(e, y) \in Int
        BY PositionType
    <2>4. w # None /\ (Worker(e) # None => Position(e, w) > Position(e, Worker(e)))
        BY <1>1, Facts DEF Ahead
    <2>5. Ahead(e)' \subseteq Ahead(e)
        BY <1>4, <2>1, <2>2, <2>3, <2>4 DEF Ahead, Worker
    <2>6. ToCome(e)' \subseteq Ahead(e)
        BY <1>1, <2>1, <2>5 DEF ToCome, Worker
    <2> QED
        BY <1>4, <2>1, <2>6 DEF Narrows, ToCome
<1> QED
    BY <1>7, <1>8

\* A coroutine that goes to a point other than the wait.
LEMMA GotoNarrow ==
    ASSUME ControlInv, NEW e \in Executions, Running(e), Continues,
           NEW point \in Points \ {"idle", "draining"}, Goto(e, point)
    PROVE  \A x \in Executions : Narrows(x)
<1>1. Moves(e, point)
    BY GotoMoves DEF ControlInv
<1>2. Narrows(e)
    BY <1>1, StaysNarrow DEF Moves
<1>3. \A x \in Executions : x # e => Narrows(x)
    BY <1>1, StillNarrow DEF Moves
<1> QED
    BY <1>2, <1>3

LEMMA ReturnNarrow ==
    ASSUME ControlInv, NEW e \in Executions, Continues, Return(e)
    PROVE  \A x \in Executions : Narrows(x)
BY ReturnGoesOn, StillNarrow, ReturnedNarrow

\* No step of a coroutine adds to the workers to come.
LEMMA ProgressNarrow ==
    ASSUME ControlInv, NEW e \in Executions, Progress(e)
    PROVE  \A x \in Executions : Narrows(x)
<1> DEFINE points == {"loading", "next", "except", "abort"}
<1>1. Continues
    BY ProgressContinues
<1>2. CASE Select(e)
    BY <1>2, SelectNarrow
<1>3. CASE Sleep(e)
    BY <1>1, <1>3, StillNarrow DEF Sleep
<1>4. CASE Finish(e) \/ HandlerRaises(e) \/ EndFailure(e)
    BY <1>1, <1>4, ReturnNarrow DEF Finish, HandlerRaises, EndFailure
<1>5. CASE \/ DrainTimesOut(e) \/ Reload(e) \/ ReloadRaises(e) \/ VerifyRaises(e)
           \/ SeeRefusal(e) \/ FinishRaises(e) \/ HandleFailure(e)
           \/ \E matches \in BOOLEAN : Verify(e, matches)
    <2>1. PICK point \in points : Goto(e, point)
        BY <1>5 DEF DrainTimesOut, Reload, ReloadRaises, VerifyRaises, SeeRefusal,
                    FinishRaises, HandleFailure, Verify
    <2>2. Running(e)
        BY <1>5 DEF DrainTimesOut, Reload, ReloadRaises, VerifyRaises, SeeRefusal,
                    FinishRaises, HandleFailure, Verify, At, Running
    <2>3. point \in Points \ {"idle", "draining"}
        BY DEF Points
    <2> QED
        BY <1>1, <2>1, <2>2, <2>3, GotoNarrow
<1> QED
    BY <1>2, <1>3, <1>4, <1>5 DEF Progress

\* A reload goes to a worker whose engine is behind, in an update of another
\* execution too.
LEMMA TwoForward ==
    ASSUME TwoInv, NEW e \in Executions, Reload(e), Worker(e) \notin hurried
    PROVE  Own(e).to > engine[Worker(e)]
<1>1. PICK w \in Workers : w = Worker(e)
    BY ReloadLoads DEF TwoInv, SafeInv
<1>2. UnderUpdate(w) /\ lifecycle[w] = "DRAINING" /\ exec[e].at = "draining"
    BY <1>1 DEF Reload, MarkDrained, UnderUpdate, At
<1>3. TypeOK /\ ControlInv
    BY DEF TwoInv, SafeInv, ControlInv, ExecTypeOK
<1>4. active.state[w] = "PENDING" /\ engine[w] < active.to /\ w \notin hurried
    <2>1. WorkerOk(w) /\ active.state[w] \in {"PENDING", "UPDATING", "VERIFIED", "FAILED"}
        BY <1>2, <1>3 DEF TwoInv, SafeInv, UnderUpdate, Member, MemberStates, TypeOK, WeightUpdates
    <2> QED
        BY <1>1, <1>2, <2>1 DEF WorkerOk, MemberOk
<1>5. /\ engine[w] \in Nat /\ active.to \in Nat /\ Own(e).to \in Nat
    BY <1>3, Facts, VersionAssumption DEF TypeOK, WeightUpdates, Versions
<1>6. CASE Superseded(e)
    <2>1. w \in ToCome(e)
        BY <1>1, <1>2 DEF ToCome, Running, At
    <2>2. engine[w] < exec[e].kept.to
        BY <1>2, <1>4, <1>6, <2>1 DEF TwoInv
    <2> QED
        BY <1>1, <1>5, <1>6, <2>2 DEF Own
<1>7. CASE ~Superseded(e)
    BY <1>1, <1>4, <1>5, <1>7 DEF Own
<1> QED
    BY <1>6, <1>7

\* The reload takes its worker from those to come; the other execution, if it
\* has not begun, has none.
LEMMA TwoReload ==
    ASSUME NEW a, NEW b, Executions \subseteq {a, b},
           TwoInv, SafeInv', NEW e \in Executions, Reload(e)
    PROVE  TwoInv'
<1>0. PICK w \in Workers : w = Worker(e)
    BY ReloadLoads DEF TwoInv, SafeInv
<1>1. /\ ControlInv /\ TypeOK /\ Continues /\ UNCHANGED engine /\ exec[e].at = "draining" /\ Running(e)
      /\ \A x \in Executions : Narrows(x)
      /\ Goto(e, "loading") /\ Member(active, w) /\ MarkDrained(w) /\ UNCHANGED hurried
      /\ \A x \in Workers : x # w => loads'[x] = loads[x]
    <2>1. ControlInv /\ TypeOK
        BY DEF TwoInv, SafeInv, ControlInv, ExecTypeOK
    <2> QED
        BY <1>0, <2>1, ReloadLoads, ProgressContinues, ProgressNarrow
           DEF Progress, Reload, MarkDrained, At
<1>2. active'.state[w] = "UPDATING"
    BY <1>1 DEF MarkDrained, TypeOK, WeightUpdates
<1>3. Moves(e, "loading")
    BY <1>1, GotoMoves DEF Points, ControlInv
<1>4. ASSUME NEW y \in Executions, NEW x \in Executions, Superseded(y)', At(x, "idle")' PROVE FALSE
    BY <1>1, <1>4 DEF TwoInv, Narrows, Superseded, At
<1>5. ASSUME NEW y \in Executions, NEW x \in Executions, At(x, "idle")',
             NEW v \in ToCome(y)', v \notin hurried'
      PROVE  engine'[v] < Own(y)'.to /\ loads'[v] = <<>>
    <2>1. At(x, "idle") /\ x # e
        BY <1>1, <1>3, <1>5 DEF Narrows, At, Moves
    <2>2. v \in ToCome(y) /\ y # x /\ exec'[y].kept = exec[y].kept
        BY <1>1, <1>5, <2>1 DEF Narrows, ToCome, Running, At
    <2>3. y = e
        BY <2>1, <2>2
    <2>4. v \in Workers /\ engine[v] < Own(y).to /\ loads[v] = <<>>
        BY <1>1, <1>5, <2>1, <2>2 DEF TwoInv, ToCome, Ahead
    <2>5. Worker(e)' = w /\ ~At(e, "draining")'
        BY <1>0, <1>3 DEF Moves, Worker, At
    <2>6. v \in Ahead(e)'
        BY <1>5, <2>3, <2>5 DEF ToCome
    <2>7. w # None /\ Position(e, w) \in Int
        BY PositionType, OrderAssumption
    <2>8. v # w
        BY <2>5, <2>6, <2>7 DEF Ahead
    <2>9. Own(y)'.to = Own(y).to
        BY <1>1, <2>2 DEF Own, Superseded, Continues
    <2> QED
        BY <1>1, <2>4, <2>8, <2>9
<1>6. ASSUME NEW y \in Executions, Superseded(y)', NEW v \in ToCome(y)', v \notin hurried',
             UnderUpdate(v)', active'.state[v] = "PENDING"
      PROVE  engine'[v] < exec'[y].kept.to
    <2>1. Superseded(y) /\ v \in ToCome(y) /\ exec'[y].kept = exec[y].kept
        BY <1>1, <1>6 DEF Narrows, Superseded
    <2>2. v \in Workers /\ UnderUpdate(v) /\ active.state[v] = "PENDING"
        BY <1>1, <1>6, <2>1 DEF Continues, UnderUpdate, ToCome, Ahead
    <2>3. engine[v] < exec[y].kept.to
        BY <1>1, <1>6, <2>1, <2>2 DEF TwoInv
    <2> QED
        BY <1>1, <2>1, <2>3
<1> QED
    BY <1>4, <1>5, <1>6 DEF TwoInv

\* The second execution begins: the workers the first has not come to still have
\* the engines it found.
LEMMA TwoExecute ==
    ASSUME NEW a, NEW b, Executions \subseteq {a, b}, TwoInv, SafeInv',
           NEW e \in Executions, NEW mode \in Modes, NEW from \in Versions,
           NEW to \in Versions, NEW ids \in SUBSET Workers, Execute(e, mode, from, to, ids)
    PROVE  TwoInv'
<1>1. /\ BeginUpdate(mode, from, to, ids) /\ UNCHANGED <<loads, hurried>> /\ exec[e].at = "idle"
      /\ exec' = [x \in Executions |->
                   IF x = e THEN Started
                   ELSE IF Running(x) THEN [exec[x] EXCEPT !.kept = Own(x)]
                   ELSE exec[x]]
      /\ TypeOK /\ exec \in [Executions -> Coroutines] /\ ControlInv
    BY DEF Execute, At, TwoInv, SafeInv, ControlInv, ExecTypeOK
<1>2. /\ UNCHANGED <<loaded, engine>> /\ to > from /\ active'.to = to
      /\ active'.state = [w \in Workers |-> IF w \in ids THEN "PENDING" ELSE "ABSENT"]
      /\ \A w \in ids : lifecycle[w] = "READY" /\ loaded[w] = from
    BY <1>1 DEF BeginUpdate
<1>3. exec'[e].at = "next" /\ exec'[e].kept = NoUpdate /\ exec'[e].worker = None
    BY <1>1 DEF Started
<1>4. ASSUME NEW x \in Executions, x # e, Running(x)
      PROVE  /\ exec'[x].at = exec[x].at /\ exec'[x].worker = exec[x].worker
             /\ exec'[x].kept = Own(x) /\ Own(x)' = Own(x) /\ ToCome(x)' = ToCome(x)
    <2>1. /\ exec'[x].at = exec[x].at /\ exec'[x].worker = exec[x].worker
          /\ exec'[x].kept = Own(x)
        BY <1>1, <1>4 DEF Coroutines
    <2>2. Own(x) # NoUpdate
        BY <1>1, <1>4, NoUpdateFields DEF ControlInv
    <2>3. Own(x)' = Own(x)
        BY <2>1, <2>2 DEF Own, Superseded
    <2> QED
        BY <2>1, <2>3 DEF ToCome, Running, Ahead, Worker, At
<1>5. ASSUME NEW x \in Executions, x # e, ~Running(x)
      PROVE  exec'[x] = exec[x] /\ exec[x].kept = NoUpdate /\ ToCome(x)' = {}
    BY <1>1, <1>5 DEF ControlInv, Superseded, ToCome, Running
<1>6. ASSUME NEW y \in Executions, NEW x \in Executions, Superseded(y)', At(x, "idle")' PROVE FALSE
    <2>1. y # e /\ x # e /\ x = y
        BY <1>3, <1>6 DEF Superseded, At
    <2>2. Running(y)
        BY <1>5, <1>6, <2>1 DEF Superseded
    <2> QED
        BY <1>4, <1>6, <2>1, <2>2 DEF At, Running
<1>7. ASSUME NEW y \in Executions, NEW x \in Executions, At(x, "idle")',
             NEW v \in ToCome(y)', v \notin hurried'
      PROVE  engine'[v] < Own(y)'.to /\ loads'[v] = <<>>
    <2>1. x # e /\ ToCome(x)' = {}
        BY <1>3, <1>7 DEF At, ToCome, Running
    <2>2. y = e
        BY <1>7, <2>1
    <2>3. Own(e)' = active'
        BY <1>3 DEF Own, Superseded
    <2>4. v \in Workers /\ Member(active', v)
        BY <1>3, <1>7, <2>2, <2>3 DEF ToCome, Ahead, At
    <2>5. v \in ids /\ WorkerOk(v)
        BY <1>2, <2>4 DEF Member, TwoInv, SafeInv
    <2>6. engine[v] = from /\ loads[v] = <<>>
        BY <1>1, <1>2, <1>7, <2>5 DEF WorkerOk, Serving
    <2> QED
        BY <1>1, <1>2, <2>2, <2>3, <2>6, VersionAssumption DEF Versions
<1>8. ASSUME NEW y \in Executions, Superseded(y)', NEW v \in ToCome(y)', v \notin hurried'
      PROVE  engine'[v] < exec'[y].kept.to
    <2>1. y # e
        BY <1>3, <1>8 DEF Superseded
    <2>2. Running(y)
        BY <1>5, <1>8, <2>1
    <2>3. v \in ToCome(y) /\ At(e, "idle") /\ exec'[y].kept = Own(y)
        BY <1>1, <1>4, <1>8, <2>1, <2>2 DEF At
    <2> QED
        BY <1>1, <1>2, <1>8, <2>3 DEF TwoInv
<1> QED
    BY <1>6, <1>7, <1>8 DEF TwoInv

\* The steps around the coroutines.
LEMMA TwoAround ==
    ASSUME TwoInv, SafeInv',
           \/ \E e \in Executions : Answer(e) \/ AnswerFails(e)
           \/ \E w \in Workers : EngineReloads(w) \/ EngineRejects(w)
           \/ \E w \in Workers : Report(w) \/ Readmit(w)
           \/ OperatorAborts
           \/ \E v \in Versions : RouterRestarts(v)
           \/ UNCHANGED allVars
    PROVE  TwoInv'
<1>1. ControlInv /\ TypeOK /\ exec \in [Executions -> Coroutines] /\ FileIsCurrent /\ SafeInv
    BY DEF TwoInv, SafeInv, ControlInv, ExecTypeOK
<1>2. UNCHANGED active => Continues
    BY DEF Continues, Member
<1>0. hurried \subseteq hurried'
    <2>1. [ExecNext]_allVars
        BY DEF ExecNext
    <2> QED
        BY <2>1, HurriedGrows
<1>3. ASSUME UNCHANGED active, UNCHANGED exec PROVE \A x \in Executions : Narrows(x)
    BY <1>2, <1>3, StillNarrow
<1>4. ASSUME NEW e \in Executions, Answer(e) \/ AnswerFails(e) PROVE TwoInv'
    <2>1. PICK point \in {"answered", "refused"} : Goto(e, point)
        BY <1>4 DEF Answer, AnswerFails
    <2>2. Running(e) /\ UNCHANGED <<active, engine, loads>> /\ point \in Points \ {"idle", "draining"}
        BY <1>4 DEF Answer, AnswerFails, At, Running, vars, Points
    <2> QED
        BY <1>1, <1>2, <2>1, <2>2, GotoNarrow, <1>0, TwoKept
<1>5. ASSUME NEW w \in Workers, EngineReloads(w) PROVE TwoInv'
    <2>1. /\ loads[w] # <<>> /\ loads' = [loads EXCEPT ![w] = Tail(@)]
          /\ engine' = [engine EXCEPT ![w] = Head(loads[w]).version]
          /\ UNCHANGED <<active, exec>>
        BY <1>5 DEF EngineReloads
    <2>2. \A x \in Workers : loads[x] = <<>> => engine'[x] = engine[x] /\ loads'[x] = <<>>
        BY <1>1, <2>1, TailLoads DEF TypeOK
    <2> QED
        BY <1>2, <1>3, <2>1, <2>2, <1>0, TwoKept
<1>6. ASSUME NEW w \in Workers, EngineRejects(w) PROVE TwoInv'
    <2>1. /\ loads[w] # <<>> /\ loads' = [loads EXCEPT ![w] = Tail(@)]
          /\ UNCHANGED <<active, engine>>
        BY <1>6 DEF EngineRejects, vars
    <2>2. \A x \in Workers : loads[x] = <<>> => loads'[x] = <<>>
        BY <1>1, <2>1, TailLoads
    <2>3. \A x \in Executions : Narrows(x)
        <3>1. PICK e \in Executions : e = Head(loads[w]).by
            BY <1>1, <2>1, TailLoads
        <3>2. CASE At(e, "loading") /\ Goto(e, "refused")
            <4>1. Running(e) /\ "refused" \in Points \ {"idle", "draining"}
                BY <3>2 DEF At, Running, Points
            <4> QED
                BY <1>1, <1>2, <2>1, <3>2, <4>1, GotoNarrow
        <3>3. CASE UNCHANGED exec
            BY <1>3, <2>1, <3>3
        <3> QED
            BY <1>6, <3>1, <3>2, <3>3 DEF EngineRejects
    <2> QED
        BY <1>2, <2>1, <2>2, <2>3, <1>0, TwoKept
<1>7. ASSUME NEW w \in Workers, Readmit(w) PROVE TwoInv'
    <2>1. UNCHANGED <<active, engine, loads>>
        BY <1>7 DEF Readmit, RegisterWorker
    <2>2. ASSUME NEW e \in Executions PROVE Narrows(e)
        <3>1. CASE exec'[e] = exec[e]
            BY <1>2, <2>1, <3>1, StillNarrow
        <3>2. CASE /\ At(e, "draining")
                   /\ exec'[e] = [exec[e] EXCEPT !.waited = IF busy[w] THEN "busy" ELSE "free"]
            <4>1. exec'[e].at = exec[e].at /\ exec'[e].worker = exec[e].worker
                  /\ exec'[e].kept = exec[e].kept /\ Running(e)
                BY <1>1, <3>2 DEF Coroutines, At, Running
            <4> QED
                BY <1>2, <2>1, <4>1, StaysNarrow DEF Running
        <3> QED
            BY <1>7, <3>1, <3>2 DEF Readmit
    <2> QED
        BY <1>2, <2>1, <2>2, <1>0, TwoKept
<1>8. ASSUME NEW w \in Workers, Report(w) PROVE TwoInv'
    <2>1. UNCHANGED <<active, engine, exec, loads>>
        BY <1>8 DEF Report, Heartbeat, execVars
    <2> QED
        BY <1>2, <1>3, <2>1, <1>0, TwoKept
<1>9. CASE OperatorAborts
    <2>1. Abort /\ UNCHANGED <<engine, exec, loads>>
        BY <1>9 DEF OperatorAborts, execVars, Abort
    <2>2. Continues
        BY <1>1, <2>1 DEF Abort, Continues, Member, TypeOK, WeightUpdates, InProgress
    <2> QED
        BY <2>1, <2>2, StillNarrow, <1>0, TwoKept
<1>10. ASSUME NEW v \in Versions, RouterRestarts(v) PROVE TwoInv'
    <2>1. /\ Restart(v) /\ UNCHANGED <<engine, loads>>
          /\ exec' = [e \in Executions |-> IF Running(e) THEN Returned ELSE exec[e]]
        BY <1>10 DEF RouterRestarts, Restart
    <2>2. Continues
        BY <1>1, <2>1 DEF Restart, FileIsCurrent, Continues, Member, TypeOK, WeightUpdates, InProgress
    <2>3. \A e \in Executions : Narrows(e)
        BY <2>1, <2>2, StillNarrow, ReturnedNarrow
    <2> QED
        BY <2>1, <2>2, <2>3, <1>0, TwoKept
<1>11. CASE UNCHANGED allVars
    BY <1>0, <1>2, <1>3, <1>11, TwoKept DEF allVars, execVars, vars
<1> QED
    BY <1>4, <1>5, <1>6, <1>7, <1>8, <1>9, <1>10, <1>11

LEMMA TwoNext ==
    ASSUME Disciplined, NEW a, NEW b, Executions \subseteq {a, b}, TwoInv, [ExecNext]_allVars
    PROVE  /\ TwoInv'
           /\ [\A e \in Executions : /\ At(e, "draining") /\ exec'[e].at = "loading"
                                     /\ Worker(e) \notin hurried
                                     => Own(e).to > engine[Worker(e)]]_allVars
<1>1. ControlInv /\ ExecTypeOK /\ SafeInv
    BY DEF TwoInv, SafeInv, ControlInv
<1>2. ASSUME NEW e \in Executions, At(e, "draining"), exec'[e].at = "loading"
      PROVE  Reload(e)
    <2>1. ASSUME NEW x \in Executions, Moves(x, exec'[x].at), exec'[x].at # "loading" PROVE FALSE
        BY <1>2, <2>1 DEF Moves, At
    <2>2. ASSUME NEW x \in Executions, NEW point \in Points \ {"loading"}, Goto(x, point) PROVE FALSE
        BY <1>1, <2>1, <2>2, GotoMoves DEF Moves
    <2>3. ASSUME exec'[e].at = exec[e].at PROVE FALSE
        BY <1>2, <2>3 DEF At
    <2>4. exec \in [Executions -> Coroutines] /\ exec[e] \in Coroutines
        BY <1>1 DEF ExecTypeOK
    <2>5. ASSUME NEW x \in Executions, ExecuteSome(x) PROVE FALSE
        <3>1. exec'[e] = Started \/ exec'[e] = [exec[e] EXCEPT !.kept = Own(e)] \/ exec'[e] = exec[e]
            BY <2>5 DEF ExecuteSome, Execute
        <3>2. exec'[e].at = "next" \/ exec'[e].at = exec[e].at
            BY <2>4, <3>1 DEF Started, Coroutines
        <3> QED
            BY <1>2, <2>3, <3>2
    <2>6. ASSUME NEW x \in Executions, Progress(x) PROVE Reload(e)
        <3>1. CASE Reload(x)
            <4>1. x = e
                BY <1>1, <1>2, <3>1, GotoMoves DEF Reload, Moves, Points, At
            <4> QED
                BY <3>1, <4>1
        <3>2. CASE Select(x)
            <4>1. x # e
                BY <1>2, <3>2 DEF Select, At
            <4>2. exec'[e] = exec[e]
                BY <2>4, <3>2, <4>1 DEF Select
            <4> QED
                BY <2>3, <4>2
        <3>3. CASE Sleep(x)
            BY <2>3, <3>3 DEF Sleep
        <3>4. CASE \/ DrainTimesOut(x) \/ ReloadRaises(x) \/ VerifyRaises(x)
                   \/ SeeRefusal(x) \/ FinishRaises(x) \/ HandleFailure(x)
                   \/ \E matches \in BOOLEAN : Verify(x, matches)
            <4>1. PICK point \in {"next", "except", "abort"} : Goto(x, point)
                BY <3>4 DEF DrainTimesOut, ReloadRaises, VerifyRaises, SeeRefusal,
                            FinishRaises, HandleFailure, Verify
            <4> QED
                BY <2>2, <4>1 DEF Points
        <3>5. CASE Finish(x) \/ HandlerRaises(x) \/ EndFailure(x)
            <4>1. Return(x)
                BY <3>5 DEF Finish, HandlerRaises, EndFailure
            <4>2. exec'[e] = Returned \/ exec'[e] = exec[e]
                BY <1>1, <4>1, ReturnGoesOn
            <4> QED
                BY <1>2, <2>3, <4>2, ReturnedFields
        <3> QED
            BY <2>6, <3>1, <3>2, <3>3, <3>4, <3>5 DEF Progress
    <2>7. ASSUME NEW x \in Executions, Answer(x) \/ AnswerFails(x) PROVE FALSE
        BY <2>2, <2>7 DEF Answer, AnswerFails, Points
    <2>8. ASSUME NEW w \in Workers, EngineRejects(w) PROVE FALSE
        <3>1. Head(loads[w]).by \in Executions
            BY <1>1, <2>8, TailLoads DEF EngineRejects
        <3> QED
            BY <2>2, <2>3, <2>8, <3>1 DEF EngineRejects, Points
    <2>9. ASSUME NEW w \in Workers, Readmit(w) PROVE FALSE
        <3>1. \/ exec'[e] = exec[e]
              \/ exec'[e] = [exec[e] EXCEPT !.waited = IF busy[w] THEN "busy" ELSE "free"]
            BY <2>9 DEF Readmit
        <3> QED
            BY <2>3, <2>4, <3>1 DEF Coroutines
    <2>10. ASSUME NEW v \in Versions, RouterRestarts(v) PROVE FALSE
        BY <1>2, <2>3, <2>10, ReturnedFields DEF RouterRestarts
    <2> QED
        BY <2>3, <2>5, <2>6, <2>7, <2>8, <2>9, <2>10
           DEF ExecNext, EngineReloads, Report, OperatorAborts, execVars, allVars
<1>3. [\A e \in Executions : /\ At(e, "draining") /\ exec'[e].at = "loading"
                             /\ Worker(e) \notin hurried
                             => Own(e).to > engine[Worker(e)]]_allVars
    BY <1>2, TwoForward
<1>4. SafeInv'
    BY <1>1, <1>3, SafeNext
<1>5. ASSUME NEW e \in Executions, ExecuteSome(e) PROVE TwoInv'
    BY <1>4, <1>5, TwoExecute DEF ExecuteSome
<1>6. ASSUME NEW e \in Executions, Progress(e) PROVE TwoInv'
    <2>1. CASE Reload(e)
        BY <1>4, <2>1, TwoReload
    <2>2. CASE ~Reload(e)
        <3>1. UNCHANGED loads
            BY <1>6, <2>2 DEF Progress, Select, Sleep, DrainTimesOut, ReloadRaises, Verify, VerifyRaises,
                   SeeRefusal, Finish, FinishRaises, HandleFailure, HandlerRaises, EndFailure
        <3>2. UNCHANGED engine
            BY <1>1, <1>6, ProgressEngine
        <3>3. UNCHANGED hurried
            BY <1>6, ProgressHurriesNone
        <3> QED
            BY <1>1, <1>4, <1>6, <3>1, <3>2, <3>3, ProgressContinues, ProgressNarrow, TwoKept
    <2> QED
        BY <2>1, <2>2
<1> QED
    BY <1>3, <1>4, <1>5, <1>6, TwoAround DEF ExecNext

LEMMA TwoInit == ExecInit => TwoInv
<1> SUFFICES ASSUME ExecInit PROVE TwoInv
    OBVIOUS
<1>1. \A e \in Executions : exec[e].at = "idle" /\ exec[e].kept = NoUpdate
    BY DEF ExecInit, Started
<1> QED
    BY <1>1, SafeInit DEF TwoInv, Superseded, ToCome, Running

\* Of two executions, none sends an older version than the engine holds to a
\* worker that was never hurried: a worker both may reload waits its turn in the
\* second's update, with the engine the first one found, since the first has not
\* come to it.
THEOREM TwoNeverDowngrade ==
    ASSUME Disciplined, NEW a, NEW b, Executions \subseteq {a, b}
    PROVE  ExecSpec => NeverDowngraded
<1>1. TwoInv /\ [ExecNext]_allVars
      => /\ TwoInv'
         /\ [\A e \in Executions : /\ At(e, "draining") /\ exec'[e].at = "loading"
                                   /\ Worker(e) \notin hurried
                                   => Own(e).to > engine[Worker(e)]]_allVars
    BY TwoNext
<1> QED
    BY <1>1, TwoInit, PTL DEF ExecSpec, NeverDowngraded

\* Two executions that overlap in any way, over any workers, orders and versions,
\* keep reloads and requests apart and commit only what is loaded, on every
\* worker that nobody brought back while a reload was on its way to it.
THEOREM TwoExecutionsAreSafe ==
    ASSUME Disciplined, NEW a, NEW b, Executions \subseteq {a, b}
    PROVE  ExecSpec => []NoReloadInService /\ PatientCommits /\ ImplementsPatientPool
BY TwoNeverDowngrade, ReloadsOutOfService, ExecutionsCommitTruly, ExecutionsRefinePool, PTL
===============================================================================
