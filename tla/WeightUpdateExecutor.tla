------------------------- MODULE WeightUpdateExecutor -------------------------
(***************************************************************************)
(* WeightUpdateExecutor.execute_disk_update behind                         *)
(* POST /rl/execute-weight-update: coroutines that drive the coordinator   *)
(* of PolicyVersions over the real engines, while the operator may abort,  *)
(* readmit workers and start the next execution.                           *)
(*                                                                         *)
(* Executions share one event loop and give it up only while they sleep or *)
(* wait for the thread that calls the engine.  loop names the execution    *)
(* that runs between two such points; the engine, its threads and nothing  *)
(* else of the router move meanwhile.                                      *)
(***************************************************************************)
EXTENDS PolicyVersions, Sequences, SequencesExt

CONSTANTS
    Executions,    \* calls of the endpoint, each made at most once
    CallOrder,     \* the order each call names the workers in
    ReportedFields, \* what heartbeats carry besides the load
    None           \* no worker, or no execution

ASSUME OrderAssumption ==
    /\ CallOrder \in [Executions -> Seq(Workers)]
    /\ \A e \in Executions : /\ ToSet(CallOrder[e]) = Workers
                             /\ Len(CallOrder[e]) = Cardinality(Workers)
    /\ ReportedFields \subseteq {"failure", "lifecycle", "version"}
    /\ None \notin Workers \union Executions

VARIABLES
    exec,  \* the coroutines' local state
    loop,  \* the execution on the event loop, or None
    loads, \* reloads each engine was sent and has not done yet, oldest first
    hurried \* history: workers ever brought back to READY before their engine
            \* had done the reloads on their way to it

execVars == <<exec, loop, loads>>
allVars == <<vars, execVars, hurried>>

\* Points of the coroutine: "next" is the head of the for loop, "draining" the
\* loop of _wait_drained, "loading" the threads that call the engine, "answered"
\* and "refused" their outcome not yet seen by the coroutine, "except" and
\* "abort" the two halves of the handler.
Points == {"idle", "next", "draining", "loading", "answered", "refused",
           "except", "abort", "done"}

\* waited says whether _wait_drained looks at the registered record or at a
\* replaced one, whose counters no longer change; kept is the update the local
\* variable refers to once the coordinator works on another one.
Coroutines == [at : Points, worker : Workers \union {None},
               waited : {"record", "busy", "free"}, kept : WeightUpdates]

Started == [at |-> "next", worker |-> None, waited |-> "record", kept |-> NoUpdate]
Returned == [Started EXCEPT !.at = "done"]

At(e, point) == exec[e].at = point
Worker(e) == exec[e].worker

\* The update the execution has begun.
Superseded(e) == exec[e].kept # NoUpdate
Own(e) == IF Superseded(e) THEN exec[e].kept ELSE active

Position(e, w) == CHOOSE i \in 1..Len(CallOrder[e]) : CallOrder[e][i] = w
FirstOf(e, ws) == CHOOSE w \in ws : \A x \in ws : Position(e, w) <= Position(e, x)

\* The members of its update the for loop of e has not come to.
Ahead(e) == {w \in Workers : /\ Member(Own(e), w)
                             /\ Worker(e) # None => Position(e, w) > Position(e, Worker(e))}

Running(e) == exec[e].at \notin {"idle", "done"}

\* The execution whose update the coordinator works on.
Beginner == CHOOSE e \in Executions : Running(e) /\ ~Superseded(e)
Goto(e, point) == exec' = [exec EXCEPT ![e].at = point]
Return(e) == exec' = [exec EXCEPT ![e] = Returned]
Holds(e) == loop = e
Free == loop = None
MayRun(e) == loop \in {None, e}

ExecInit ==
    /\ Init
    /\ exec = [e \in Executions |-> [Started EXCEPT !.at = "idle"]]
    /\ loop = None
    /\ loads = [w \in Workers |-> <<>>]
    /\ hurried = {}

\* The history of a step that may put workers back into service.
NoteHurried ==
    hurried' = hurried \union
        {w \in Workers : loads[w] # <<>> /\ ~Serving(w) /\ lifecycle'[w] = "READY"}

-------------------------------------------------------------------------------
\* A rolling update first drains the worker its caller names first.
InOrder(e, ids) == \A w \in ids : lifecycle'[w] = "DRAINING" => w = FirstOf(e, ids)

Execute(e, mode, from, to, ids) ==
    /\ Free /\ At(e, "idle")
    /\ BeginUpdate(mode, from, to, ids)
    /\ mode = "rolling" => InOrder(e, ids)
    /\ exec' = [x \in Executions |->
                   IF x = e THEN Started
                   ELSE IF Running(x) THEN [exec[x] EXCEPT !.kept = Own(x)]
                   ELSE exec[x]]
    /\ loop' = e
    /\ UNCHANGED <<loads, hurried>>

\* The next member of the for loop; it must have been drained for this update.
Select(e) ==
    /\ Holds(e) /\ At(e, "next")
    /\ Ahead(e) # {}
    /\ LET w == FirstOf(e, Ahead(e))
       IN  exec' = [exec EXCEPT ![e].worker = w, ![e].waited = "record",
                                ![e].at = IF lifecycle[w] = "DRAINING"
                                          THEN "draining" ELSE "except"]
    /\ UNCHANGED <<vars, loop, loads, hurried>>

SeenBusy(e) == IF exec[e].waited = "record" THEN busy[Worker(e)]
                                            ELSE exec[e].waited = "busy"

\* The worker is seen busy and the coroutine sleeps for the poll interval.
Sleep(e) ==
    /\ Holds(e) /\ At(e, "draining") /\ SeenBusy(e)
    /\ loop' = None
    /\ UNCHANGED <<vars, exec, loads, hurried>>

\* Mutant: the deadline is looked at for registered workers only.
DrainTimesOutOnRecord(e) ==
    /\ Free /\ At(e, "draining") /\ exec[e].waited = "record" /\ busy[Worker(e)]
    /\ Goto(e, "except")
    /\ loop' = e
    /\ UNCHANGED <<vars, loads, hurried>>

\* The deadline of the execution passes while the worker is still busy.
DrainTimesOut(e) ==
    /\ Free /\ At(e, "draining") /\ SeenBusy(e)
    /\ Goto(e, "except")
    /\ loop' = e
    /\ UNCHANGED <<vars, loads, hurried>>

CanMarkDrained(w) == InProgress(active) /\ lifecycle[w] = "DRAINING" /\ ~busy[w]

\* The wait has ended: mark_drained, and the thread that reloads the engine starts.
Reload(e) ==
    /\ MayRun(e) /\ At(e, "draining") /\ ~SeenBusy(e)
    /\ Member(active, Worker(e))
    /\ MarkDrained(Worker(e))
    /\ loads' = [loads EXCEPT ![Worker(e)] = Append(@, [by |-> e, version |-> Own(e).to])]
    /\ Goto(e, "loading")
    /\ loop' = None
    /\ UNCHANGED hurried

\* mark_drained raises, for a worker that is no member after changing its record.
ReloadRaises(e) ==
    /\ MayRun(e) /\ At(e, "draining") /\ ~SeenBusy(e)
    /\ IF CanMarkDrained(Worker(e))
       THEN ~Member(active, Worker(e)) /\ MarkDrained(Worker(e))
       ELSE UNCHANGED vars
    /\ Goto(e, "except")
    /\ loop' = e
    /\ UNCHANGED <<loads, hurried>>

PendingOf(e) == \E w \in Workers : \E load \in ToSet(loads[w]) : load.by = e

\* Mutant: the request sent counts for the reload done.
AnswerOnSend(e) ==
    /\ At(e, "loading")
    /\ Goto(e, "answered")
    /\ UNCHANGED <<vars, loop, loads, hurried>>

\* The threads have brought the engine's answers: the reload succeeded, the model
\* info showed the version asked for, the probe was made.
Answer(e) ==
    /\ At(e, "loading")
    /\ ~PendingOf(e)
    /\ engine[Worker(e)] = Own(e).to
    /\ Goto(e, "answered")
    /\ UNCHANGED <<vars, loop, loads, hurried>>

\* A call times out, breaks, is rejected or shows another version.  The engine
\* does not learn of it.
AnswerFails(e) ==
    /\ At(e, "loading")
    /\ Goto(e, "refused")
    /\ UNCHANGED <<vars, loop, loads, hurried>>

\* verify_worker on whichever update is active; of its own, the execution passes
\* the very checksum that is expected.
Verify(e, matches) ==
    /\ Free /\ At(e, "answered")
    /\ ~Superseded(e) => matches
    /\ VerifyWorker(Worker(e), Own(e).to, matches)
    /\ LET pending == {w \in Workers : active'.state[w] = "PENDING"}
       IN  active.mode = "rolling" =>
               \A w \in pending : lifecycle'[w] # lifecycle[w] => w = FirstOf(Beginner, pending)
    /\ Goto(e, IF active'.state[Worker(e)] = "VERIFIED" THEN "next" ELSE "except")
    /\ loop' = e
    /\ UNCHANGED <<loads, hurried>>

VerifyRaises(e) ==
    /\ Free /\ At(e, "answered")
    /\ ~(UnderUpdate(Worker(e)) /\ lifecycle[Worker(e)] = "UPDATING")
    /\ Goto(e, "except")
    /\ loop' = e
    /\ UNCHANGED <<vars, loads, hurried>>

SeeRefusal(e) ==
    /\ Free /\ At(e, "refused")
    /\ Goto(e, "except")
    /\ loop' = e
    /\ UNCHANGED <<vars, loads, hurried>>

\* All members are done and their probes agree.
Finish(e) ==
    /\ Holds(e) /\ At(e, "next") /\ Ahead(e) = {}
    /\ Commit
    /\ Return(e)
    /\ loop' = None
    /\ UNCHANGED <<loads, hurried>>

CanCommit == InProgress(active) /\ \A w \in Workers : active.state[w] \in {"ABSENT", "VERIFIED"}
ProbesMayDiffer(e) == \E w, x \in Workers : w # x /\ Member(Own(e), w) /\ Member(Own(e), x)

\* The probes differ, or commit raises.
FinishRaises(e) ==
    /\ Holds(e) /\ At(e, "next") /\ Ahead(e) = {}
    /\ ProbesMayDiffer(e) \/ ~CanCommit
    /\ Goto(e, "except")
    /\ UNCHANGED <<vars, loop, loads, hurried>>

\* Mutant: the handler only fails the worker.
HandlerForgetsAbort(e) ==
    /\ Holds(e) /\ At(e, "except")
    /\ IF Own(e).state[Worker(e)] \in {"FAILED", "VERIFIED"} THEN UNCHANGED vars
       ELSE InProgress(active) /\ Member(active, Worker(e)) /\ FailWorker(Worker(e))
    /\ Return(e)
    /\ loop' = None
    /\ UNCHANGED <<loads, hurried>>

\* The handler fails the current worker unless that is decided.
HandleFailure(e) ==
    /\ Holds(e) /\ At(e, "except")
    /\ IF Own(e).state[Worker(e)] \in {"FAILED", "VERIFIED"} THEN UNCHANGED vars
       ELSE InProgress(active) /\ Member(active, Worker(e)) /\ FailWorker(Worker(e))
    /\ Goto(e, "abort")
    /\ UNCHANGED <<loop, loads, hurried>>

\* fail_worker raises inside the handler: there is no update, or one without the
\* worker, whose record is FAILED by then.
HandlerRaises(e) ==
    /\ Holds(e) /\ At(e, "except")
    /\ Own(e).state[Worker(e)] \notin {"FAILED", "VERIFIED"}
    /\ ~UnderUpdate(Worker(e))
    /\ lifecycle' = IF InProgress(active)
                    THEN [lifecycle EXCEPT ![Worker(e)] = "FAILED"] ELSE lifecycle
    /\ Return(e)
    /\ loop' = None
    /\ UNCHANGED <<loaded, busy, active, saved, engine, loads, hurried>>

\* The handler aborts unless its update says ABORTED.
EndFailure(e) ==
    /\ Holds(e) /\ At(e, "abort")
    /\ IF Own(e).status # "ABORTED" /\ InProgress(active) THEN Abort ELSE UNCHANGED vars
    /\ Return(e)
    /\ loop' = None
    /\ UNCHANGED <<loads, hurried>>

-------------------------------------------------------------------------------
\* The engine does the oldest reload it was sent, or rejects it and says so.
EngineReloads(w) ==
    /\ loads[w] # <<>>
    /\ engine' = [engine EXCEPT ![w] = Head(loads[w]).version]
    /\ loads' = [loads EXCEPT ![w] = Tail(@)]
    /\ UNCHANGED <<lifecycle, loaded, busy, active, saved, exec, loop, hurried>>

EngineRejects(w) ==
    /\ loads[w] # <<>>
    /\ loads' = [loads EXCEPT ![w] = Tail(@)]
    /\ LET e == Head(loads[w]).by
       IN  IF At(e, "loading") /\ Worker(e) = w THEN Goto(e, "refused") ELSE UNCHANGED exec
    /\ UNCHANGED <<vars, loop, hurried>>

\* POST /rl/abort-weight-update while an execution waits.
OperatorAborts == Free /\ Abort /\ UNCHANGED <<execVars, hurried>>

\* What a heartbeat may say: any load, a failure at any time, another lifecycle or
\* version as a controller outside an update may report it (ReportAllowed).
ReportedLifecycles(w) ==
    {lifecycle[w]} \union (IF "failure" \in ReportedFields THEN {"FAILED"} ELSE {})
                   \union (IF "lifecycle" \in ReportedFields THEN {"READY", "DRAINING"} ELSE {})
ReportedVersions(w) ==
    IF "version" \in ReportedFields THEN {loaded[w], engine[w]} ELSE {loaded[w]}

Report(w) ==
    /\ Free
    /\ \E state \in ReportedLifecycles(w), version \in ReportedVersions(w), load \in BOOLEAN :
          Heartbeat(w, state, version, load)
    /\ NoteHurried
    /\ UNCHANGED execVars

\* The operator probes a worker outside any update and registers it again,
\* whatever reloads its engine still has to do.  Executions that wait for the old record
\* keep it.
Readmit(w) ==
    /\ Free
    /\ RegisterWorker(w, "READY", engine[w])
    /\ NoteHurried
    /\ exec' = [e \in Executions |->
                   IF At(e, "draining") /\ Worker(e) = w /\ exec[e].waited = "record"
                   THEN [exec[e] EXCEPT !.waited = IF busy[w] THEN "busy" ELSE "free"]
                   ELSE exec[e]]
    /\ UNCHANGED <<loop, loads>>

\* The router process restarts; its coroutines are gone, the engines go on.
RouterRestarts(version) ==
    /\ Restart(version)
    /\ NoteHurried
    /\ exec' = [e \in Executions |-> IF Running(e) THEN Returned ELSE exec[e]]
    /\ loop' = None
    /\ UNCHANGED loads

-------------------------------------------------------------------------------
ExecuteSome(e) == \E mode \in Modes, from, to \in Versions, ids \in SUBSET Workers :
                     Execute(e, mode, from, to, ids)

\* What the coroutine does by itself once it has been started.
Progress(e) ==
    \/ Select(e) \/ Sleep(e) \/ DrainTimesOut(e) \/ Reload(e) \/ ReloadRaises(e)
    \/ \E matches \in BOOLEAN : Verify(e, matches)
    \/ VerifyRaises(e) \/ SeeRefusal(e)
    \/ Finish(e) \/ FinishRaises(e)
    \/ HandleFailure(e) \/ HandlerRaises(e) \/ EndFailure(e)

ExecNext ==
    \/ \E e \in Executions : ExecuteSome(e) \/ Progress(e) \/ Answer(e) \/ AnswerFails(e)
    \/ \E w \in Workers : EngineReloads(w) \/ EngineRejects(w)
    \/ \E w \in Workers : Report(w) \/ Readmit(w)
    \/ OperatorAborts
    \/ \E v \in Versions : RouterRestarts(v)

ExecSpec == ExecInit /\ [][ExecNext]_allVars

\* The event loop runs what is ready, a deadline passes, and a call of an engine
\* returns or times out.
FairExecSpec ==
    /\ ExecSpec
    /\ \A e \in Executions : /\ WF_allVars(Progress(e))
                             /\ WF_allVars(Answer(e) \/ AnswerFails(e))

-------------------------------------------------------------------------------
\* An execution that returns, with a result or an exception, leaves no update of
\* its own open, which would refuse every later one.
ReturnEndsUpdate ==
    [][\A e \in Executions : Running(e) /\ exec'[e].at = "done" =>
           ~InProgress(IF Superseded(e) THEN exec[e].kept ELSE active')]_allVars

\* Every execution returns: no wait for counters or for an engine is endless.
EveryExecutionReturns == \A e \in Executions : Running(e) ~> At(e, "done")

\* "Weight updates require drain, zero in-flight work" (docs/correctness.md): no
\* reload is on its way to an engine in service.  A worker that somebody brought
\* back over such a reload is excepted, as nothing in the code prevents that: the
\* damage stays with the worker it was done to.
NoReloadInService == \A w \in Workers \ hurried : loads[w] # <<>> => ~Serving(w)

\* Executions, answers that come late, reports and restarts refine the serving
\* pool, in which a worker that was ever hurried counts as withdrawn.
PatientPool == INSTANCE ServingPool WITH
    Out <- MaxVersion + 1,
    advertised <- [w \in Workers |-> IF Serving(w) /\ w \notin hurried THEN loaded[w]
                                    ELSE MaxVersion + 1]

ImplementsPatientPool == PatientPool!Spec
===============================================================================
