--------------------------- MODULE BoundedTraining ---------------------------
(***************************************************************************)
(* train() of integrations/slime_bounded_train.py: while a batch trains,   *)
(* the rollout manager generates the next one; the weights are updated     *)
(* when both are over, and a prefetch that failed or is not of the current *)
(* policy is generated again, synchronously.                               *)
(*                                                                         *)
(* Three parties interleave: the driver (one action per step between two   *)
(* blocking calls), the generation it started, and the rollout engines,    *)
(* which may die and be replaced by engines with other weights.            *)
(***************************************************************************)
EXTENDS RolloutBuffer, FiniteSets

CONSTANTS
    StartRollout,  \* args.start_rollout_id
    NumRollout,    \* args.num_rollout
    FirstVersion,  \* the version of the first weight push
    MaxFaults,     \* bound on engine and generation faults
    CallsRaise,    \* may the calls outside the prefetch raise?
    Mixed,         \* marks engines that report different versions
    NoBatch        \* marks a missing batch or generation

\* The configurations train() accepts (max_batches must be 1, max_lag 0 or 1).
ASSUME TrainingAssumption ==
    /\ MaxBatches = 1 /\ MaxPolicyLag \in {0, 1}
    /\ StartRollout \in Nat /\ NumRollout \in Nat
    /\ FirstVersion \in Nat \ {0}
    /\ CallsRaise \in BOOLEAN
    /\ MaxFaults \in Nat
    /\ Mixed \notin Int

VARIABLES
    pc,          \* the driver's next step
    rollout,     \* rollout_id
    version,     \* current_version
    buffer,      \* buffer
    batch,       \* the batch consumed last
    prefetched,  \* prefetched
    generation,  \* the call to generate() that is running or not yet collected
    engines,     \* the version every engine holds, or Mixed
    strict,      \* strict_fallback, from RL_ASYNC_STRICT_FALLBACK
    fallbacks,   \* stats.strict_fallbacks
    failures,    \* stats.prefetch_failures
    trained,     \* history: the batches trained, with the trainer's version
    outcome,     \* the status in the summary
    faults       \* faults so far

vars == <<pc, rollout, version, buffer, batch, prefetched, generation, engines,
          strict, fallbacks, failures, trained, outcome, faults>>

stats == <<strict, fallbacks, failures>>

Ids == StartRollout..(NumRollout - 1)
\* touched: did the engines change while the batch was being generated?
Batches == [id : Ids, version : Nat, touched : BOOLEAN]
Generations == [id : Ids, version : Nat, touched : BOOLEAN,
                state : {"running", "done", "failed"}, mode : {"sync", "prefetch"}]

ASSUME NoBatchAssumption == NoBatch \notin Batches /\ NoBatch \notin Generations

Steps == {"setup", "push", "first", "consume", "prefetch", "train", "collect",
          "update", "put", "fallback", "next", "finally", "disposed", "leaked"}

\* The steps of the try block.  Their blocking calls may raise; what collecting
\* the prefetch raises is caught.
InTry == Steps \ {"setup", "finally", "disposed", "leaked"}
Raising == IF CallsRaise THEN InTry \ {"collect"} ELSE {}

\* The rollout manager exists, the trainer's models do not.
Init ==
    /\ pc = "setup"
    /\ rollout = StartRollout
    /\ version = FirstVersion
    /\ buffer = EmptyBuffer
    /\ batch = NoBatch
    /\ prefetched = NoBatch
    /\ generation = NoBatch
    /\ engines = Mixed
    /\ strict \in BOOLEAN
    /\ fallbacks = 0 /\ failures = 0
    /\ trained = <<>>
    /\ outcome = "running"
    /\ faults = 0

-------------------------------------------------------------------------------
\* rollout_manager.generate.remote(id), for the policy version observed.
Start(id, mode) ==
    generation' = [id |-> id, version |-> version, touched |-> FALSE,
                   state |-> "running", mode |-> mode]

Result == [id |-> generation.id, version |-> generation.version,
           touched |-> generation.touched]

\* An exception of the try block: the failed summary is written.
Fail ==
    /\ pc' = "finally"
    /\ outcome' = "failed"
    /\ UNCHANGED <<rollout, version, buffer, batch, prefetched, generation, engines,
                   stats, trained, faults>>

Raise == pc \in Raising /\ Fail

\* create_training_models and the first row of the trace.
Setup ==
    /\ pc = "setup"
    /\ pc' = "push"
    /\ UNCHANGED <<rollout, version, buffer, batch, prefetched, generation, engines, stats,
                   trained, outcome, faults>>

\* Neither is inside the try: what they raise ends the driver with no summary
\* and the rollout manager not disposed of.
SetupRaises ==
    /\ pc = "setup"
    /\ CallsRaise
    /\ pc' = "leaked"
    /\ UNCHANGED <<rollout, version, buffer, batch, prefetched, generation, engines, stats,
                   trained, outcome, faults>>

\* The first actor_model.update_weights(), and the early returns.
Push ==
    /\ pc = "push"
    /\ engines' = version
    /\ pc' = IF StartRollout >= NumRollout THEN "finally" ELSE "first"
    /\ UNCHANGED <<rollout, version, buffer, batch, prefetched, generation, stats, trained,
                   outcome, faults>>

\* generate_sync up to ray.get: the version must be the expected one.
StartSync(id, step) ==
    /\ pc = step
    /\ generation = NoBatch
    /\ engines = version
    /\ Start(id, "sync")
    /\ UNCHANGED <<pc, rollout, version, buffer, batch, prefetched, engines, stats, trained,
                   outcome, faults>>

StartSyncFails(step) ==
    /\ pc = step
    /\ generation = NoBatch
    /\ engines # version
    /\ Fail

\* generate_sync from ray.get on, and the put of its batch.
EndSync(step, then) ==
    /\ pc = step
    /\ generation # NoBatch /\ generation.state = "done"
    /\ engines = generation.version
    /\ PutResult(buffer, Result, version) = "accepted"
    /\ buffer' = AfterPut(buffer, Result, version)
    /\ generation' = NoBatch
    /\ pc' = then
    /\ UNCHANGED <<rollout, version, batch, prefetched, engines, stats, trained, outcome, faults>>

EndSyncFails(step) ==
    /\ pc = step
    /\ generation # NoBatch /\ generation.state # "running"
    /\ \/ generation.state = "failed"
       \/ engines # generation.version
       \/ PutResult(buffer, Result, version) # "accepted"
    /\ Fail

\* Without a fresh batch ("bounded rollout buffer is empty") the run fails.
Consume ==
    /\ pc = "consume"
    /\ IF GetFinds(buffer, version)
       THEN /\ batch' = GetResult(buffer, version)
            /\ buffer' = AfterGet(buffer, version)
            /\ pc' = "prefetch"
            /\ UNCHANGED <<rollout, version, prefetched, generation, engines, stats, trained,
                           outcome, faults>>
       ELSE Fail

\* Mutant: the last rollout prefetches too.
PrefetchAlways == MaxPolicyLag = 1

MayPrefetch == rollout + 1 < NumRollout /\ MaxPolicyLag = 1

\* The next rollout is started if the engines are still at the trainer's
\* version; engines that disagree make _get_policy_version raise.
Prefetch ==
    /\ pc = "prefetch"
    /\ MayPrefetch => engines # Mixed
    /\ IF MayPrefetch /\ engines = version
       THEN Start(rollout + 1, "prefetch") ELSE UNCHANGED generation
    /\ prefetched' = NoBatch
    /\ pc' = "train"
    /\ UNCHANGED <<rollout, version, buffer, batch, engines, stats, trained, outcome, faults>>

PrefetchFails == pc = "prefetch" /\ MayPrefetch /\ engines = Mixed /\ Fail

\* Mutant: the update does not wait for the prefetch.
TrainOnly ==
    /\ pc = "train"
    /\ trained' = Append(trained, [batch |-> batch, at |-> version, rollout |-> rollout])
    /\ pc' = "update"
    /\ UNCHANGED <<rollout, version, buffer, batch, prefetched, generation, engines, stats,
                   outcome, faults>>

Train ==
    /\ pc = "train"
    /\ trained' = Append(trained, [batch |-> batch, at |-> version, rollout |-> rollout])
    /\ pc' = IF generation = NoBatch THEN "update" ELSE "collect"
    /\ UNCHANGED <<rollout, version, buffer, batch, prefetched, generation, engines, stats,
                   outcome, faults>>

\* Mutant: the versions are not read again after the generation.
UsableIfDone(rejected) == generation.state = "done" /\ ~rejected

\* ray.get(prefetch_handle) and the checks of its result; rejected is the
\* injected failure of a result that arrived.
Usable(rejected) ==
    generation.state = "done" /\ engines = generation.version /\ ~rejected

Collect(rejected) ==
    /\ pc = "collect"
    /\ generation.state # "running"
    /\ rejected => generation.state = "done" /\ faults < MaxFaults
    /\ faults' = IF rejected THEN faults + 1 ELSE faults
    /\ generation' = NoBatch
    /\ prefetched' = IF Usable(rejected) THEN Result ELSE NoBatch
    /\ failures' = IF Usable(rejected) THEN failures ELSE failures + 1
    /\ IF Usable(rejected) \/ strict
       THEN pc' = "update" /\ UNCHANGED outcome
       ELSE pc' = "finally" /\ outcome' = "failed"
    /\ UNCHANGED <<rollout, version, buffer, batch, engines, strict, fallbacks, trained>>

\* Mutant: the driver keeps the version it had.
UpdateUnread ==
    /\ pc = "update"
    /\ engines' = version
    /\ pc' = IF rollout + 1 < NumRollout THEN "put" ELSE "next"
    /\ UNCHANGED <<rollout, version, buffer, batch, prefetched, generation, stats, trained,
                   outcome, faults>>

\* actor_model.update_weights() brings every engine, replaced ones included, to
\* the next version, and the driver checks that it did.
Update ==
    /\ pc = "update"
    /\ engines' = version + 1
    /\ version' = version + 1
    /\ pc' = IF rollout + 1 < NumRollout THEN "put" ELSE "next"
    /\ UNCHANGED <<rollout, buffer, batch, prefetched, generation, stats, trained, outcome, faults>>

\* The update did not reach every engine: mixed, or not the version expected.
UpdateFails ==
    /\ pc = "update"
    /\ faults < MaxFaults
    /\ faults' = faults + 1
    /\ engines' \in {Mixed, version}
    /\ pc' = "finally" /\ outcome' = "failed"
    /\ UNCHANGED <<rollout, version, buffer, batch, prefetched, generation, stats, trained>>

\* The prefetched batch enters the buffer, or is dropped if the buffer refuses
\* it with a ValidationError; a full buffer raises BufferError.
PutPrefetched ==
    /\ pc = "put"
    /\ prefetched # NoBatch
    /\ LET result == PutResult(buffer, prefetched, version)
       IN  IF result = "full" \/ (result # "accepted" /\ ~strict)
           THEN Fail
           ELSE /\ buffer' = AfterPut(buffer, prefetched, version)
                /\ prefetched' = IF result = "accepted" THEN prefetched ELSE NoBatch
                /\ pc' = IF result = "accepted" THEN "next" ELSE "put"
                /\ UNCHANGED <<rollout, version, batch, generation, engines, stats, trained,
                               outcome, faults>>

\* Mutant: the fallback is not counted.
FallBackUncounted ==
    /\ pc = "put"
    /\ prefetched = NoBatch
    /\ pc' = "fallback"
    /\ UNCHANGED <<rollout, version, buffer, batch, prefetched, generation, engines, stats,
                   trained, outcome, faults>>

\* Without a usable prefetch the rollout is generated again.
FallBack ==
    /\ pc = "put"
    /\ prefetched = NoBatch
    /\ fallbacks' = fallbacks + 1
    /\ pc' = "fallback"
    /\ UNCHANGED <<rollout, version, buffer, batch, prefetched, generation, engines, strict, failures,
                   trained, outcome, faults>>

Loop ==
    /\ pc = "next"
    /\ IF rollout + 1 < NumRollout
       THEN rollout' = rollout + 1 /\ pc' = "consume" /\ UNCHANGED outcome
       ELSE pc' = "finally" /\ outcome' = "complete" /\ UNCHANGED rollout
    /\ UNCHANGED <<version, buffer, batch, prefetched, generation, engines, stats, trained, faults>>

\* Mutant: the rollout manager is disposed of by runs that succeed.
DisposeOnSuccess ==
    /\ pc = "finally" /\ outcome = "complete"
    /\ pc' = "disposed"
    /\ generation' = NoBatch
    /\ UNCHANGED <<rollout, version, buffer, batch, prefetched, engines, stats, trained, outcome,
                   faults>>

\* finally: the rollout manager is disposed of on every path from the try.
Dispose ==
    /\ pc = "finally"
    /\ pc' = "disposed"
    /\ generation' = NoBatch
    /\ UNCHANGED <<rollout, version, buffer, batch, prefetched, engines, stats, trained, outcome,
                   faults>>

-------------------------------------------------------------------------------
\* The rollout manager finishes the generation, or it fails.
Generated ==
    /\ generation # NoBatch /\ generation.state = "running"
    /\ generation' = [generation EXCEPT !.state = "done"]
    /\ UNCHANGED <<pc, rollout, version, buffer, batch, prefetched, engines, stats, trained,
                   outcome, faults>>

GenerationFails ==
    /\ generation # NoBatch /\ generation.state = "running"
    /\ faults < MaxFaults
    /\ faults' = faults + 1
    /\ generation' = [generation EXCEPT !.state = "failed"]
    /\ UNCHANGED <<pc, rollout, version, buffer, batch, prefetched, engines, stats, trained, outcome>>

\* An engine dies and is replaced (by hand, or by the actor-death experiment of
\* the driver).  Assumption: the replacement starts from older weights (recovery
\* loads the base checkpoint) and gets newer ones by the next update only, so the
\* engines disagree, or, with one engine only, all hold the older version.
EngineFault ==
    /\ pc \in InTry \ {"push"}
    /\ faults < MaxFaults
    /\ faults' = faults + 1
    /\ engines' \in {Mixed, 0}
    /\ generation' = IF generation = NoBatch \/ generation.state # "running" THEN generation
                     ELSE [generation EXCEPT !.touched = TRUE]
    /\ UNCHANGED <<pc, rollout, version, buffer, batch, prefetched, stats, trained, outcome>>

-------------------------------------------------------------------------------
First == StartSync(rollout, "first") \/ EndSync("first", "consume")
\* Mutant: the rollout just trained is generated again.
RegenerateCurrent == StartSync(rollout, "fallback") \/ EndSync("fallback", "next")
Regenerate == StartSync(rollout + 1, "fallback") \/ EndSync("fallback", "next")
SyncFails == \E step \in {"first", "fallback"} : StartSyncFails(step) \/ EndSyncFails(step)

Driver ==
    \/ Setup \/ Push \/ First \/ Consume \/ Prefetch \/ Train
    \/ \E rejected \in BOOLEAN : Collect(rejected)
    \/ Update \/ PutPrefetched \/ FallBack \/ Regenerate \/ Loop \/ Dispose

DriverFails == SetupRaises \/ Raise \/ SyncFails \/ PrefetchFails \/ UpdateFails

Next == Driver \/ DriverFails \/ Generated \/ GenerationFails \/ EngineFault

Spec == Init /\ [][Next]_vars

\* The driver runs on, and a generation started is finished or fails.
Fairness == WF_vars(Driver \/ DriverFails) /\ WF_vars(Generated)
FairSpec == Spec /\ Fairness

-------------------------------------------------------------------------------
\* The rows "batch_consumed" of a run's trace: the loop's rollout id with the
\* versions of the batch and of the trainer.
BatchRows == [k \in 1..Len(trained) |->
    [rollout |-> trained[k].rollout, generated |-> trained[k].batch.version,
     consumed |-> trained[k].at]]

PolicyLag(row) == row.consumed - row.generated

\* verify_trace of scripts/verify_bounded_async_trace.py: as many batches as
\* expected, none twice, in order, within the lag bound.
VerifyTrace(rows, expected) ==
    /\ Len(rows) = expected
    /\ \A j, k \in DOMAIN rows : j < k => rows[j].rollout < rows[k].rollout
    /\ \A k \in DOMAIN rows : PolicyLag(rows[k]) \in 0..MaxPolicyLag

-------------------------------------------------------------------------------
TypeOK ==
    /\ pc \in Steps
    /\ rollout \in Nat /\ version \in Nat
    /\ buffer \in [batches : Seq(Batches), ids : SUBSET Ids, stale : Nat]
    /\ batch \in Batches \union {NoBatch}
    /\ prefetched \in Batches \union {NoBatch}
    /\ generation \in Generations \union {NoBatch}
    /\ engines \in Nat \union {Mixed}
    /\ strict \in BOOLEAN
    /\ fallbacks \in Nat /\ failures \in Nat /\ faults \in 0..MaxFaults
    /\ trained \in Seq([batch : Batches, at : Nat, rollout : Nat])
    /\ outcome \in {"running", "complete", "failed"}

\* "Weight updates wait for both operations, so no request can straddle an
\* update": nothing is being generated when the policy version moves.
NoStraddle == [][version' # version => generation = NoBatch]_vars

\* Every rollout is trained on once and in order, under its own id: the driver
\* takes the id from its loop and the batch from the buffer.
EachRolloutOnce ==
    \A k \in 1..Len(trained) :
        /\ trained[k].rollout = StartRollout + k - 1
        /\ trained[k].batch.id = trained[k].rollout

\* A batch is trained under the version that generated all of it: the two reads
\* of the version, before and after it was generated, see every replaced engine
\* (which holds older weights until the next update, see EngineFault).
LabelsAreTrue == \A k \in 1..Len(trained) : ~trained[k].batch.touched

\* The trace of a complete run passes its verifier, and its summary accounts for
\* every batch: the first one, the ones prefetched (of lag 1) and the fallbacks,
\* with a fallback for every failed prefetch.
VerifierAccepts ==
    outcome = "complete" =>
        /\ VerifyTrace(BatchRows, NumRollout - StartRollout)
        /\ Len(trained) = 1 + fallbacks
                          + Cardinality({k \in DOMAIN BatchRows : PolicyLag(BatchRows[k]) = 1})
        /\ failures <= fallbacks

\* Training implements the bounded-lag contract.
Contract == INSTANCE LaggedTraining WITH
    MaxLag <- MaxPolicyLag,
    labels <- [k \in 1..Len(trained) |-> trained[k].batch.version]

\* Batches are trained within the lag bound, with one update between them.
ImplementsContract == Contract!Spec

\* A run that has entered the try block ends with the rollout manager disposed
\* of, whatever raised.  (A failure between creating the manager and the try
\* leaves it: SetupRaises.)
TryDisposes == pc \in InTry ~> pc = "disposed"

\* "A failed prefetch, mixed engine version or stale batch is discarded and
\* regenerated synchronously": the step that prefetches never ends the run.
PrefetchNeverEndsRun == [][pc = "prefetch" => outcome' # "failed"]_vars
===============================================================================
