# TLA+ project of the SGLang multi-GPU router for RL rollouts

This directory specifies the parts of the repository that decide *which policy
generated which training sample, and where*: the policy-version coordinator with the
worker registry, the executor of weight updates, the rollout-group tracker, the slime
adapter on top of it, the group routing policies, the bounded rollout buffer with the
asynchronous training driver, and the serving router. TLC checks each of them on small
instances; TLAPS proves the safety results of all of them for every instance. Line
numbers refer to files under `src/`.

To check a run: `tlc -config versions_probed.cfg MCPolicyVersions.tla`; to check
the proofs: `tlapm PolicyVersionsProofs.tla`.

## 1. Inventory

| Component | State it keeps | Operations | What is hard | What makes it correct |
|---|---|---|---|---|
| Policy version coordinator, `router/rl/versioning.py` | the active `WeightUpdate` (status, per-worker state), `version_state.json` | `begin_update`, `mark_drained`, `verify_worker`, `fail_worker`, `commit`, `abort`, `check_timeout`, restore | operations of two controllers interleave; a member fails while others progress; the router restarts in the middle | a serving worker holds the version it is believed to hold; old and new versions never serve together; failures are final; a commit is true |
| Worker registry, `router/rl/runtime.py`, `models.py` | one `RolloutWorkerState` per worker, shared with the coordinator | `register_worker`, `heartbeat` | a heartbeat rewrites lifecycle and version without the coordinator's checks; a registration replaces the object an update waits on | reports do not put a worker under update back into the pool |
| Group tracker, `router/rl/tracker.py` | groups in memory and in `groups.json` | `register`, `assign`, `record_response`, `record_failure`, `expire`, `restore` | responses repeated, late, reordered, of mixed versions; lost snapshot writes; restarts | one sample per index, READY exactly once and only when complete and homogeneous; a group whose samples were all answered is READY |
| Runtime `route`/`complete`, `router/rl/runtime.py` | trace rows, metrics | routing of a group, completion of a response | the trace and the metrics follow the tracker's change, not atomically | a group is counted once |
| RL HTTP API, `router/rl_api.py` | none of its own | one handler per operation | start-up state of the workers | a restart does not invent versions |
| Group routing policies, `router/rl/routing.py` | a round-robin counter | ten policies that place a group on the eligible workers | ties, virtual load, sorted order, a score that adds times, tokens and a ratio | only eligible workers; balance within one request; no pack on a worker another one beats; a split that pays |
| Output length predictor, `router/rl/predictor.py` | running averages | `predict`, `observe` | floating-point averages | the policies accept any estimate |
| Slime adapter, `integrations/slime_adapter.py` | one context per group, a count per worker | discovery, refresh, assignment, finish, fail, release | concurrent calls of one group; a lock held over an await; reloads, failures, cancellation and restart in between | one decision per group; no mixed versions; no count leaks while no release is cancelled; a group all of whose calls returned is READY |
| Bounded buffer, `router/rl/buffer.py` | FIFO of batches, id set, stale counters | `put`, `get` | lag bounds, capacity, ids of dropped batches, a trainer version that falls back | FIFO, fresh batches only, exact stale count |
| Bounded training driver, `integrations/slime_bounded_train.py`, `bounded_pipeline.py` | rollout id, version, prefetched batch, statistics | the training loop with prefetch, fallback, weight update, failure paths | three parties: driver, generation, engines that may die and be replaced | no generation straddles an update; each rollout trained once under its true version; lag bounded; its trace verifies; whatever fails inside the `try`, resources are released |
| Weight update executor, `integrations/weight_update_executor.py`, `sglang_adapter.py` | none beyond its call | drain, reload, probe, verify, commit over real workers | late RPC answers after an abort, orphaned worker objects, cancellation | an execution that returns leaves no update of its own open; no engine is reloaded in service unless its worker was brought back over a reload on its way; commits are true |
| Serving router, `router/app.py`, `router/policy.py` | worker health, loads and prefix trackers, the admission semaphore, the fallback state | choice, proxying, retries, streaming, health checks | streams outlive their slot; errors on every path; bounded trackers; a hot prefix | slots and loads balance; trackers are exact; the pull of a prefix is bounded; every completion is answered |
| Chaos experiments, `integrations/chaos.py` | one iptables rule and a timer | install, timed removal | timer against the `finally` of the driver | the rule is removed at most once |
| Traces and verifiers, `router/rl/trace.py`, `scripts/verify_*.py` | JSONL files | write, accept or reject a run | what the producer writes and the verifier demands differ | a complete run is accepted |
| Simulator, telemetry, GPU layout, rewards, operational scripts | none the system depends on | offline estimates, text parsing, process handling | - | see section 7 |

The controller talks HTTP to the RL API; the API calls the runtime, which owns the
tracker and the coordinator. Coordinator and runtime share the worker objects. Under
slime there is no router process on this path: the adapter builds a runtime of its own
inside the rollout process and feeds it with what it discovers. The training driver
runs in another process: it owns the buffer, talks to slime's rollout manager through
Ray, and reaches the engines only through the rollouts the manager generates. The
serving router and the RL API are one server and share no state. All RL handlers are
coroutines whose state changes have no `await` in between, and the coordinator holds
its lock, so one handler is one action; the adapter and the serving router do await in
the middle, so there an action is what runs between two awaits.

## 2. Modules

| Module | What it is |
|---|---|
| `ServingPool` | abstract: workers enter the pool only at the version their engine holds; engines are reloaded only out of the pool |
| `PolicyVersions` | the coordinator, registrations, heartbeats, engine loads and restarts |
| `WeightUpdateExecutor` | `execute_disk_update` on top of `PolicyVersions`: coroutines, engine calls, the operator |
| `SampleBarrier` | abstract: a slot of a group is filled once, the group released with its last slot |
| `GroupBarrier` | the tracker behind `route` and `complete`, with snapshot failures and restarts |
| `SlimeRouting` | the slime adapter on top of `GroupBarrier`: concurrent calls, discovery, engines |
| `GroupPlacement` | the ten placement policies as operators, and the reports they read |
| `RolloutBuffer` | the buffer's methods as operators on its value |
| `RolloutBufferUse` | any use of the buffer by producers and a trainer |
| `LaggedTraining` | abstract: train one batch of bounded lag, then advance the version by one |
| `BoundedTraining` | `train()`, built on `RolloutBuffer`, with the generation and the engines |
| `PrefixPolicies` | the serving router's policies and prefix trackers as operators |
| `ServingRouter` | its completions, slots, retries, streams, fallback and health checks |
| `PolicyVersionsProofs`, `WeightUpdateExecutorProofs`, `SlimeRoutingProofs`, `GroupPlacementProofs`, `RolloutBufferProofs`, `BoundedTrainingProofs`, `ServingRouterProofs` | theorems about the module of that name (the buffer's about `RolloutBufferUse`; `SlimeRoutingProofs` also about `GroupBarrier`, which `SlimeRouting` extends) |
| `FiniteOrders` | lemmas the proofs share: least elements, ranks and folds over finite sets |
| `MC*` | model values, definitions and symmetry for TLC |

### PolicyVersions

`lifecycle`, `loaded` and `busy` are the fields of the worker records that decisions
read; `active` is `coordinator.active`; `saved` is the update in `version_state.json`;
`engine` is the version an SGLang engine really holds, which the router cannot see.
One action per method. Three things are easy to overlook: `verify_worker` hands over
to the next PENDING worker in the same call (`AcceptWorker`), a failed verification
is `FailWorker` although the call raises, and `mark_drained` changes the lifecycle
before it finds that the worker is not a member. `Abort` is also `check_timeout` past
the deadline, which nothing calls today: time is left out, so it may come at any moment.

`Restart` is `install_rl_routes` followed by `_restore_after_restart`: all workers
READY at the configured version, the members of an interrupted update RECOVERING.

Two flags name what the code leaves to its environment. `ReportsDuringUpdate` says
whether controllers rewrite the lifecycle of a worker under update;
`docs/troubleshooting.md` asks them to probe and re-register after a failure, and the
code does not enforce it. `RestartMatchesEngines` says whether the operator restarts the
router with the version the engines hold. The main run assumes both disciplines
(`Disciplined` in the proofs); the violation run shows what happens without the second.
Without the first the pool is not true: a READY or DRAINING report of a member in the
middle of its update, which `worker_heartbeat` accepts, puts it back into service or
lets `mark_drained` accept it again, and with executions a commit can be false. That
half of the hazard is assumed away in the passing runs and in the theorems that assume
`Disciplined`; the other half, a failure, a load or a heartbeat outside an update at any
time, is not.

Left out: the checksum's content (a Boolean), the heartbeat's age, which only takes
workers out of the pool (it is in `GroupPlacement`), the fields routing reads, and the
audit log.

### WeightUpdateExecutor

Extends `PolicyVersions` and uses its actions, so every coordinator call of an execution
is the one modelled there. `exec` is the local state of the coroutines; `loop` names the
one that runs between two awaits, so a chain like verify, next worker, mark drained is
not interrupted by another handler, though the router may stop in the middle. `loads`
are the reloads each engine was sent. A call may time out at any moment and its reload
still happens: only the engine takes it from `loads`. Coordinator calls go to the active
update while decisions of the handler read the update the execution began; `kept` holds
the latter once another one is active. `waited` records that a registration replaced the
record the drain wait looks at. The calls name the workers in any order (`CallOrder`),
which is the order of the `for` loop and of the rolling hand-over. `ReportedFields` says
what heartbeats carry besides the load: a failure comes at any time, another lifecycle
or version only outside an update (`ReportAllowed`).

The operator follows `docs/troubleshooting.md`: workers are readmitted outside an update
at the version probed, *whatever reloads are still on the way to their engines*, and a
restart makes workers READY in the same way, as neither `register_worker` nor
`_restore_after_restart` knows of those reloads. Such a reload then happens in service
(section 4). `hurried` is a history of the workers ever brought back like that: what
holds of the others is `NoReloadInService`, and `ImplementsPatientPool` refines
`ServingPool` with the hurried ones counted as withdrawn, so the damage stays with the
worker it was done to. `CommitMeansLoaded` needs no such exception in its run. Probe
and registration are one step here: a reload done between the two, after which the
version registered is already wrong, is not in the model.

Assumed of SGLang: one engine does its reloads in the order they arrive. Left out:
manual `begin`, `drained`, `verified` and `commit` during an execution (they are
`PolicyVersions`), a failing write of the state file, and the content of probes.

### GroupBarrier

`groups` is `tracker.groups` and `saved` is `groups.json`. `Complete` is
`RLRouterRuntime.complete` for a new sample, `Replay` for one the same request has
already filled; rejections change nothing and are not actions. Their parameters `stored`
and `traced` say whether the snapshot and the trace row were written: a write that
raises, or a stop of the router just before it, leaves the memory ahead.
`SnapshotMayFail` and `LateReports` (a failure reported of a completed sample) switch
these on: `groups_barrier` is without them, as the refinement needs that; the runs of
the adapter (below) are with both. A late failure of a completed sample keeps the group
from READY for ever, since its repetition takes the early return; `AnsweredMeansReady`
says that this is the only thing that does. That the missing samples are answered at all
is nobody's promise: the router does not retry and never calls `expire`, so no liveness
is stated of groups. `Expire` comes at any time: the deadline is not modelled as a
clock. `counted` is capped at 2 (`CountCap`), enough to tell once from more than once.
The rows of the trace are left out.

### SlimeRouting

Extends `GroupBarrier` and uses its `Route`, `Complete`, `Replay`, `RecordFailure` and
`Restart`. `calls` is one `generate_with_rl_router` per sample; `contexts` is `_groups`;
`running` is `running_requests` of the worker records. `discovery` is
`_discover_workers` under way: it is the only await under the lock, so it also says who
holds the lock. Its engines are probed one after the other while other calls generate
and finish, so what it reports of them is old when `AssignFirst` uses it: that action is
the rest of `assignment_for` (refresh, build the group's requests, `route`, store the
decision, count), which has no await. A call then ends by `Finish`, by `Fail` (the
request raised, or another version answered), by `FinishRaises` (a write fails after the
response is in memory), or is `Cancelled`; `Release` is the `finally`. A call that
raised is generated again, as slime does. A call may also be cancelled while its release
waits for the lock (`LosesRelease`), and then its count is never taken back. `Probe`
reports what the engine says it runs, which includes the requests of others: earlier
processes, cancelled calls, other clients, up to `MaxOthers` above the calls of this
process. `surplus` is the history of both, what the last refresh counted of others at a
worker and the releases lost there since, and `CountsNeverLeak` bounds a count by the
calls in flight and that surplus. `loaded` and `listed` are the engines' weights and the
list of `/list_workers`; `Crash` is an end of the process.

Left out: URLs without a host or port (they raise after the count went up and before the
`try`, so the count stays), request ids and seeds, the length predictor, and the load
fields: the placement is any function to the workers found at the target version, and
which one is `GroupPlacement`'s question.

### GroupPlacement

`workers` holds what a heartbeat left of each worker: its eligibility, its counts,
queued tokens, rates and matched prefix. Each policy is an operator from a group to a
placement; four of them are one greedy fold (`Greedy`) that differs in the order, the
starting load, the workers each request may go to and the cost it adds.
`CandidatePlacements`, `FinishTime`, `Score` and `Adaptive` are the adaptive policy;
the score has a quotient in it, so scores are compared as fractions. Worker ids are
numbers in the order the policies break ties. The hash of `power-of-two` is any draw
of `Digests`. Times are whole numbers of 1/`Unit` seconds and the weights are
multiplied to whole numbers. What the constants must be is in four named assumptions:
counts are natural numbers and rates positive ones (`WorkerAssumption`), a group has a
request and two estimates of each (`GroupAssumption`), the makespan has a positive
weight and the risk is a share (`WeightAssumption`), the round-robin counter wraps
around unseen (`TurnAssumption`).

### RolloutBuffer, RolloutBufferUse

`PutResult` names the outcome in the order of `put`'s checks; `AfterPut` and
`AfterGet` give the buffer after the call. `RolloutBufferUse` adds histories of what
was accepted, refused and taken.

### BoundedTraining

`pc` names the point between two blocking calls of `train()`. `generation` is the Ray
call in flight: `running`, then `done` or `failed`. `engines` is the one version all
engines report, or `Mixed`. `touched` in a batch is a ghost that records whether an
engine was replaced while it was generated. `Raise` covers every blocking call that may
throw; the prefetch's result is collected inside the `try`. `Init` is the state in which
the rollout manager has been created; what comes between it and the `try` (creating the
training models, writing the first trace row) is `Setup`, and when it raises
(`SetupRaises`) nothing disposes of the manager: the run ends `leaked`, and
`TryDisposes` is stated of the runs that enter the `try`. The actor-death experiment of
the driver is `EngineFault`, which leaves the engines mixed or all at the base
checkpoint, as the recovery path loads it, and never at the current version again: a
replacement that reports the version of the engine it replaces between the two reads is
excluded by that assumption, not by the code. The injected prefetch failure is
`Collect(TRUE)`; checkpoint saving and evaluation only add points that may raise.
`BatchRows` are the `batch_consumed` rows of the trace, and `VerifyTrace` is what
`scripts/verify_bounded_async_trace.py` demands of them. The network-partition
experiment is left out.

### PrefixPolicies, ServingRouter

`PrefixPolicies` has the bounded tracker (`Remember`, `Evict`) and the workers each
policy takes its turns over (`Candidates`). In `ServingRouter`, `requests` is the
handler of each completion, `waiting` the waiters of the semaphore in their order,
`slots` its value, `hits` and `fallback` the window and state of the fallback. `Admit`
is everything from the semaphore to the first await: choice, load, window. `Opened`
returns a streamed answer and with it the slot, while the load is given back by
`StreamEnds` only; a client that is gone before its stream starts (`ClientGone`) leaves
the load counted for ever, as only the generator's `finally` gives it back. An exception
other than `httpx.HTTPError`, which is all the handler catches, ends a completion with
its slot returned and its load counted for ever (`Breaks`); `AccountsBalance` counts
both among the completions never finalised. Retries go to the same worker. Left out:
latencies, the body of errors, and the read-only endpoints. The server does not cancel a
handler whose client is gone, so the model has no cancellation while a completion waits.

## 3. Runs

| Run | Instance | Shows |
|---|---|---|
| `versions_probed` | 2 workers, versions 0..2, disciplined controllers and restarts | types, belief = engine, separation of versions, one worker at a time in a rolling update, safe aborts, refinement of `ServingPool` |
| `versions_restart_belief` | the same, restarts with the first version | violated: finding 1 |
| `executor_overlapping` | 2 executions that name 2 workers in opposite orders, versions 0..1, operator aborts, late reloads, failures reported and workers readmitted at any time, restarts | overlapping executions may spoil each other's update, but no engine is reloaded in service whose worker was not brought back over a reload, the pool without those workers is refined, and an execution that returns leaves no update of its own open |
| `executor_returns` | 2 executions of different targets, 1 worker, versions 0..2, all reports, fair | every execution returns; a commit means that the engine has the target, whatever answers came late |
| `groups_barrier` | one group of 3 samples, 2 versions, 2 request ids, 2 templates, durable snapshots | READY is sound and counted once between restarts; refinement of `SampleBarrier`, so samples and READY are final |
| `groups_terminal_failure` | one group of 2, terminal failures and expiry | violated: finding 2 |
| `slime_rollouts` | 2 groups of 2 samples on 2 engines, all calls concurrent, one fault of any kind (lost releases and requests of others included), snapshots may fail, failures are reported late | one decision per group, no count that releases lost and the requests of others do not explain, only a late failure keeps an answered group from READY, and a group whose calls have all returned is READY and forgotten |
| `buffer_any_use` | 3 ids, 2 slots, lag 1, versions 0..3, 3 puts | FIFO, exact stale count, freshness |
| `training_bounded` | rollouts 1..4, lag 1, at most 3 faults, fallback strict or not | order and labels of the batches, a trace its verifier accepts, no straddling, refinement of `LaggedTraining`, disposal of every run that enters the `try` |
| `training_mixed_engines` | 3 rollouts, only engine and generation faults | violated: finding 3 |
| `serving_completions` | one streamed and two other completions, 2 workers, 2 slots, 1 retry, exceptions of any class, trackers of one entry, window 2 | slots balance, loads are what is under way or was never finalised, trackers are exact, a hot prefix pulls only as far as its weight, every completion is answered |
| `placement_policies` | groups of 3 requests of two shapes, 3 workers in any of 6 states | every policy keeps to serving workers, the balancing ones balance what they mean to, round robin is fair over groups, packs and splits are not outdone |

Bounds. Two workers give every relation between a member and another member or an
outsider; version 2 allows an update after a committed one, so stale beliefs show. A
group of three has a first, a middle and a last sample; groups do not interact in the
tracker, so one is enough. In the adapter they do, through the lock and the counts: two
groups of two let one call discover while calls of its own and of the other group wait,
generate and release, and two engines make a refresh that reports one and loses the
other. One fault is enough for each of its kinds; an older failure met by a newer one is
covered by the theorems, which have no bound. Two buffer slots and three versions allow
a stale batch in front of a fresh one and a trainer that falls back. Four rollouts allow
two consecutive prefetches, a fallback between two prefetches and a last rollout without
one; three faults allow a fault during the recovery from a fault. Two executions let one
be overtaken by the other. Two workers and two versions show the order of the hand-over
and a late reload of one worker while the other serves; one worker and three versions
give the second execution another target than the first, and every report. Whether an
execution returns, and whether its worker is loaded when its update commits, depends on
the other one only through the update and the record of the worker it waits for, so
there one worker is enough; for more workers the truth of commits is a theorem
(`ExecutionsCommitTruly`). Three completions on two slots make one wait; a tracker of
one entry evicts at the second prompt; a window of two forgets a sample. The prompts of
a behaviour are one hot prompt and another, the same or none besides it (`Mixes`). The
counters of the policies wrap around at `TurnCap`, a multiple of every number of workers
they are taken modulo. The six worker states of the placement run are idle, busy, slow
with the prefix cached, decoding, silent and behind, so every set of eligible workers
and every order of the loads occurs; the two shapes are a long prompt with short answers
and a short prompt with long, uneven ones. One token of that model stands for 500, and
the weights are the default `ObjectiveWeights` times 2000.

Fairness. `FairExecSpec` of `WeightUpdateExecutor` assumes that the event loop runs
what is ready, that a deadline passes, and that engine calls return or time out
(`timeout_seconds` of the adapter); the engine itself need not do anything.
`FairSpec` of `BoundedTraining` assumes that the driver keeps
running and that a generation ends or fails; `ray.get` has no timeout, so nothing
would end if it did not. `FairSpec` of `ServingRouter` assumes, of each completion, that
the semaphore wakes its first waiter (`Admit`), that a request is answered or fails
(`Attempt`: the httpx client has a timeout) and that a backoff ends (`Retry`); a stream
may last for ever and a client need not read it. No fairness is assumed of faults or
failures. Deadlock is not checked for the training runs, as the driver stops after
disposal; the calls of the adapter end in `Over`.

## 4. Findings

1. Every start of the router makes all workers READY at the configured version
   (`router/rl_api.py:29-37`), and `_restore_after_restart` takes back only the members
   of an update that the file says is in progress (`versioning.py:106`). In the shortest
   trace a member is drained and its engine reloaded, the update is interrupted or
   aborted, and the next start but one (after an abort, the next) serves it at the
   initial version, which its engine no longer holds, without a probe; against
   `docs/correctness.md:14-15`. The same happens after a commit, in a trace one step
   longer.
2. A late response makes a FAILED or DROPPED group READY (`tracker.py:111`), against
   the conditions of the barrier in the implementation plan.
3. Engines that disagree when a prefetch is about to start end the run
   (`slime_bounded_train.py:209`); `docs/architecture.md:62` promises a fallback.

Met while modelling, without a run of their own:

- A reload whose call timed out may still be on its way when its update is aborted and
  the worker probed and registered again (`router/rl_api.py:46`). The engine then
  changes its weights in service, although `docs/correctness.md:16-17` says that updates
  require drain, and the worker is believed to hold the old version until somebody
  probes it. `NoReloadInService` without its exception for `hurried` workers is violated
  by just that.
- `record_response` changes the memory before it saves it (`tracker.py:107-113`). If the
  write raises, the retry takes the early return without saving, and a restart loses
  the sample of a READY group.
- A replayed response gets a second `response_completed` row (`runtime.py:105`), which
  `scripts/verify_live_rl_trace.py:46` rejects.
- A failure between the creation of the rollout manager and the `try`
  (`slime_bounded_train.py:109` to `163`) leaves it without `dispose`.
- An exception other than `httpx.HTTPError` after a completion was counted
  (`app.py:221` and `293` catch that class only) leaves its load counted for ever.
- A call of the adapter cancelled while its release waits for the lock
  (`slime_adapter.py:371`) leaves its count too high until the next discovery of the
  worker.
- An execution can send an engine weights older than it holds. Its drain wait looks at
  the records of its workers only, not at its update: if that update is aborted and
  another one begins and reloads the same worker while the wait sleeps, the wait may end
  on the other update's DRAINING and reload the worker with its own, older target
  (`weight_update_executor.py:86`). Three executions are enough for that; with four, a
  verification answered before the reload can then be counted for a later update with
  the first one's target, and an engine in service is reloaded. In the code a sleep of
  `poll_interval_seconds` would have to outlast the other update's reload; the model has
  no time. With two executions it cannot happen (`TwoNeverDowngrade`).
- A sample recorded before an end of the process and reported failed after it keeps its
  failure: its regeneration takes the early return (`tracker.py:96`), so the group never
  becomes READY although every call returned. `ReturnedMeansReady` therefore excludes
  faults of the process. In the tracker alone the same wedge follows from any late failure
  report of a completed sample (`tracker.py:90-96`, `120`).

## 5. Proofs

All theorems hold for any sets and bounds; the assumptions on constants are the
named ASSUMEs of the modules.

`PolicyVersionsProofs`:

- `TypeCorrect` needs nothing else.
- `ServingIsTrue` and `PoolRefinement` (assuming `Disciplined`) rest on `PoolInv`.
  `ServingMatchesEngine` alone is not inductive: a load changes an engine, and one
  must know that a member in state UPDATING is out of the pool (`LoadingIsOut`).
- `RollingIsGentle` and `FailureStays` (assuming only that reports leave members
  alone) rest on `MemberInv`: a failed member's lifecycle is FAILED (`FailedIsOut`),
  so neither `mark_drained` nor `verify_worker` accepts it, and the file equals the
  memory (`FileIsCurrent`), so a restart does not revive an older update.
- `CommitIsTrue` holds under any reports and restarts: a VERIFIED member was compared
  with its engine, which is not loaded again before the update ends.
- `PoolsStaySeparate` and `AbortIsSafe` (assuming `Disciplined`) combine both
  invariants.

`WeightUpdateExecutorProofs`:

- `ExecTypesCorrect` and `ReturnsEndUpdates` need nothing else. They rest on
  `ControlInv`: an execution that runs has a worker that is a member of its update, its
  update is the active one or the one `kept`, and an update that was replaced is over.
  So the handler that returns has committed, failed or aborted, or was overtaken.
- `ReloadsOutOfService`, `ExecutionsCommitTruly` and `ExecutionsRefinePool` (assuming
  `Disciplined`) say of any number of executions, and of every worker that was not
  brought back over a reload on its way (`hurried`), that its engine is not reloaded in
  service, that it holds the target when an update it is a member of commits
  (`PatientCommits`), and that `ServingPool` is refined with the hurried workers
  withdrawn, in every behaviour with `NeverDowngraded`: no execution sends the engine of
  such a worker an older version than it holds. They rest on `SafeInv`, which says of
  each such worker what its place in the active update means for its engine and for the
  reloads on their way (`MemberOk`), and of each answer an execution has got and not
  used yet what it is still worth (`AnswerOk`). The hypothesis is needed: without it the
  invariant fails in the way section 4 describes. Of hurried workers nothing like it can
  be proved, as section 4 shows.
- `TwoNeverDowngrade` shows the hypothesis for two executions and `TwoExecutionsAreSafe`
  concludes, with no hypothesis but `Disciplined` and for any pool, versions, aborts,
  restarts, readmissions and late reloads. `TwoInv` adds what is still to come
  (`ToCome`): as long as one of the two has not begun, only the other reloads; once it
  has, the overtaken one meets its workers under an update it cannot mistake for its
  own.

`SlimeRoutingProofs`, of the tracker alone (`GroupBarrier`):

- `TypeCorrect` and `BarrierIsSound`, for every combination of flags, rest on
  `Sound`, which must be stated of the snapshot as well as of the memory, as a
  restart makes the one the other.
- `AnsweredGroupsAreReady` (`AnsweredInv`) adds that a recorded group, all of whose
  samples were answered, is READY or has a failure left, and the latter only with
  `LateReports`.
- `CountIsOne` adds that an unknown group has no samples (`Blank`) and that a counted
  group has all of them.
- `BarrierRefinement`, `ReadyStays` and `SamplesStay` assume `Durable` (snapshots are
  written, failures are reported of missing samples), under which the file equals
  the memory; without it they fail, as the first note of section 4 says. `BarrierStep`
  is the step simulation; the last two follow from it and from what the abstract barrier
  keeps (`BarrierKeeps`).

`SlimeRoutingProofs`, of the adapter, assuming that there are finitely many groups:

- `SlimeTypesCorrect` and `SlimeGroupsAreSound` carry the tracker's results over
  (`AdapterSteps`): every step of the adapter is a step of the tracker, or a completion
  that raises after it was recorded and is reported failed at once (`HalfFinished`),
  which leaves both tracker variables sound.
- `AdapterRefinesBarrier`, `AdapterKeepsSamples` and `AdapterKeepsReady` assume that
  snapshots are written, and not, as for the tracker alone, that no failure is reported
  of a completed sample: the adapter reports such failures, but none that fails the
  group, so slots and READY groups are left alone.
- `OneDecision` rests on `DecisionInv`: a decision has the version its group is
  registered with; a discovery is under way only for a group without a decision, which
  is what the second look under the lock is for; and READY, which forgets the decision,
  is left only when the process ends, which forgets the calls as well.
- `NoCountLeaks` rests on `LoadInv`: what a discovery has found of a worker is covered
  by the calls in flight there and what others were reported to run or releases lost
  have left there (`surplus`), because `Release` waits for the lock, and the call that
  discovers is itself not counted yet. With a release that does not wait, a report older
  than the release would overwrite the count.
- `ReturnedGroupsAreReady` rests on `ReturnInv`: without a fault of the process and a
  release lost, a sample has a response exactly when its call has returned, a sample
  with a response is not failed, and the call that discovers has not generated yet. So
  the last call to return records the last response with no failure left, which is what
  READY needs, and nobody is left to make the decision again.

`RolloutBufferProofs`:

- `BufferIsFifo`, `StaleCountIsExact` and `TakenOnceInOrder` rest on `BufferInv`: `get`
  removes the stale batches in front of the first fresh one and that one, so what is
  left is a tail of what was accepted, and the ids of the removed ones are told apart by
  the histories. `FirstFreshExists` (`get` finds a first fresh batch when there is a
  fresh one) uses the least element of `FiniteOrders`.

`BoundedTrainingProofs`:

- All of its theorems rest on `LoopInv`. `Progress` ties the version and the number of
  batches trained to the place in the loop. `GenerationInv` says which rollout is being
  generated where, and that *once an engine has changed under it the engines differ from
  the version it was started with*: that is why two reads of the version around a
  generation are enough for `TrueLabels`. `BufferInv` and `BatchInv` follow the batch of
  the next rollout from its generation through `prefetched` and the buffer to training:
  the buffer is empty when it is put there, so it refuses nothing.
- `UpdatesWait` is `GenerationInv` at the update; `ImplementsTheContract` maps `Train`
  and `Update` to the actions of `LaggedTraining` and everything else to a stutter.
- `TracesVerify` needs `AccountInv`, the summary's account at every place of the loop:
  batches trained = fallbacks + prefetched batches + what is on its way (`Ahead`), and
  failures are at most the fallbacks and one that is still owed (`Owed`).

`ServingRouterProofs`, for any workers, prompts, completions, policies and bounds:

- `RouterTypesCorrect`, `EveryAccountBalances` and `TrackersTellTheTruth` rest on
  `RouterInv`. None of them is inductive alone: that a load does not go below zero needs
  that it is a count of completions; that a completion is counted at a worker needs that
  every handler past the queue has one (`HandlerOk`), also one that broke, and that the
  queue holds waiting handlers only, each once. Every step writes one handler
  (`Writes`), so each count changes by what that handler does to it (`CountsChange`).
  `RememberKeeps` follows a prompt through the bounded queue: the entry evicted is
  counted at least once.
- `PrefixPullIsBounded` needs that a policy always has a worker to offer (`CandidatesIn`,
  from the least argument of `FiniteOrders`) and that the turn falls on one of
  them whatever the counter is (`TurnIn`, from `RankExists`); then it is the inequality of
  the two scores.

`GroupPlacementProofs`, for any workers and reports, groups of any size, weights and
digests:

- `PlacementInvariant` says of every decision, from the moment it is made until a worker
  reports again, that it is `Sound`: it places every request on an eligible worker and
  has the properties of its policy. `DecisionsServe`, `DecisionsBalance`,
  `PacksNotOutdone` and `SplitsPay` read their property off it; the work is in the lemmas
  on the operators.
- *The loops.* `Greedy` is a fold over the requests and `SumOf` a fold over a set.
  `FoldExists` gives such a function and `GreedyFoldsAgree` and `SumsAgree` say that two
  that unfold alike are alike, so one request can be added at a time. `GreedyKeeps`
  carries an invariant through the loop; for `DecisionsBalance` it is that the load is
  what the requests placed so far add up to and that each worker used got one request
  without which it is no busier than any other (`GreedyGood`). It does not depend on
  the order, so the sorts only have to be permutations (`LongestFirstIs`), which they
  are because ranks are taken once.
- *The adaptive choice.* Costs are fractions, compared crosswise: that is a total order
  and transitive (`Fractions`), so a least candidate exists and is no worse than any
  pack (`AdaptiveIs`). `PacksNotOutdone` follows because a worker that beats another in
  its queue has a lower cost when packed: the skew of a pack is one, or zero where
  there is nothing to compute, and then the better worker's is zero as well.
  `SplitsPay` compares a split with a pack it uses: its duplicated prefill, its skew and
  its longest queue are at least the pack's, so its makespan must not be longer; this is
  where the makespan needs a positive weight.
- `TurnsFair` is not inductive: a tally within the bound can leave it with the next group.
  `TurnsInv` says which tallies occur: those that t groups leave that began one after the
  other, for a t below the number n of READY workers. What a worker d places ahead of the
  next beginning has of them is a sum of two overlaps of intervals (`Extra`), t = n is the
  same as none, and the rest is arithmetic. That a group takes the next turns whatever
  the counter is rests on counting the residues of a run of numbers (`Residues`).

`FiniteOrders` has no induction of the library: that every rank below the size of a finite
set is taken is a count (the ranks are distinct, so they are all), the least element is
the one of rank zero, and what fails nowhere first fails nowhere (`NatLeast`,
`MinimalSubset`); `FoldExists` takes a smallest size without a fold.

Only model-checked: `EveryExecutionReturns`, `TryDisposes` and `EveryRequestAnswered`,
as liveness and ENABLED are out of the prover's reach, and `CommitMeansLoaded` under
executions for workers brought back over a reload (proved for all others as
`ExecutionsCommitTruly`, and of updates driven step by step as `CommitIsTrue`). Every
other invariant and action property of a passing run is a theorem.

## 6. Plan

1. Routing composed with draining: assigned requests against reported counters, and
   the poisoned heartbeat.
2. The network partition of the training driver with `chaos.py`.

## 7. Not modelled

- Output length predictor: running averages in floating point; the policies take their
  estimates as numbers and `GroupPlacement` takes any.
- Simulator: an offline discrete-event estimate that nothing depends on.
- Chaos experiments: the rules are state of the operating system. Their effect on
  engines is `EngineFault`; the timer of the partition is in the plan.
- Telemetry, GPU layout and rewards: text and numbers no decision of the system reads.
- The live trace verifier and the chaos checks of the bounded one: they read rows the
  models leave out.
- Operational scripts: process and file handling outside the program.
- The validation of field values, token counts, audit logs, latencies and message texts
  are abstracted everywhere.
