# Verification of the agent system

TLA+ models of the stateful parts of this repository, the TLC runs that check
them on small instances, and TLAPS proofs of the properties that matter most.
`PROJECT.json` gives, for every definition, the source lines it models, and lists
runs, mutants, findings, hazards and theorems.

## 1. Inventory

| Part | State | Operations | What makes it hard |
| --- | --- | --- | --- |
| Plan executor (`agent-system/src/agent/executor.py`) | current plan, completed steps, replan count, batch of workers | `execute`, one worker thread per runnable step | workers, cancel requests and the session timeout interleave; retries inside replans |
| Session store (`state/store.py`, `state/recovery.py`) | session status, cancel flag, step records with idempotency keys | `init_session`, `upsert_plan_steps`, `mark_*`, `should_skip_step`, `find_recovery_point` | shared by all executions of a session; check and use are separate |
| Replanner (`agent/replanner.py`) | none | local replace, rollback and retry | renames steps and the dependencies on them |
| Planner (`agent/planner.py`) | none | build and validate a plan | graph algorithms |
| Task queues (`src/scheduler`) | queue, items, dead letters | enqueue, dequeue, ack, nack | workers die; ids repeat; Redis commands interleave |
| Distributed lock (`src/scheduler`) | entry with holder and TTL | acquire, release, is_locked | TTL against a slow or dead holder; GET and DEL |
| Instance registry, cross-instance recovery (`src/persistence`) | heartbeats, session records | register, heartbeat, detect_expired, recover | sweeps crash, overlap, and race with owners |
| Circuit breaker (`src/gateway`) | circuit per instance, record in a backend | allow_request, record_*, reset | late reports, restarts, several instances |
| Tool gateway (`src/gateway`): registry, validator, quota, authorizer, rate limiter, audit | version lifecycle, counters, token bucket, logs | register, transition, validate, authorize, acquire, record | checks and counts are separate steps of overlapping calls; the registry changes under a call |
| Config center (`src/config_center`) | versioned entries, watchers | put, delete, watch, notify | read-modify-write versions, callbacks that change the list |
| Shared memory (`src/multi_agent`) | versioned entries with TTL | read, write with expected version, cleanup | check-then-act on a shared backend |
| Dispatcher, callbacks (`src/multi_agent`) | assignments, callback records | dispatch, record, complete, recycle | late completions against recycling |
| Message bus (`src/messaging`) | handlers, subscriptions, listener threads | subscribe, publish, request, reply, close | late replies, two listeners, a handler that raises |
| Connection pool (`src/persistence`) | idle queue, counter | get, release, close_all | counter and queue are changed in separate steps |
| Evaluation runner (`eval`) | thread pool, results | run, collect, aggregate, compare | timeouts and exceptions against running workers |
| Regression pipeline, error budget, alerts, chaos (`src/automation`, `src/evaluation`, `src/observability`, `src/chaos`) | run state, budget, active faults | the steps of a run, inject, remove, score | any step raises; the budget outlives a run |
| A/B router | experiment, overrides | route, reconfigure, guardrails | stability of routing under ramp-ups |
| RAG cache and retrieval (`src/rag`) | LRU caches; rankings | get, put, invalidate; merge, filter, rerank, pack | invalidation against a slow put; cuts and filters in the right order |
| Exporters, reports, contracts, codecs, scripts' argument parsing | none | I/O and formatting | not stateful |

The executor, its store and its replanner interact most: they are one module.
The queue contract is an abstract module that both queues implement. Recovery
composes the registry with the session backend; the circuit breaker, the shared
memory and the config center are composed with their backends; the tool gateway
composes tool registry, quotas, authorizer, breaker, bucket and audit log; the
planner is composed with the batches the executor forms of its plans.

## 2. Modules

### `PlanExecutor`

One session, and one member of `Executions` for every call of `execute` on it (a
first submission, a resubmission, another request). `stepState` is
`SessionState.steps`; `plan`, `completed`, `replanCount` and `batch` are the
locals of `execute`; `thread` holds, for each position of the plan, the control
point of `_execute_single_step`, its attempt and its result. A step id is the
planner's number followed by the plan versions that renamed it, so that equal
strings are equal ids and nothing else is.

`Start` is `init_session`, the recovery point and the RUNNING status. The `Loop*`
actions are the branches of one round of the loop in the order of the code
(cancelled, timed out, finished, blocked, dispatch). The `Step*` actions are the
worker. `BatchSucceeded`, `BatchReplan` and `BatchFailed` process results in plan
order up to the first failure. `RequestCancel`, `MarkCancelRequested` and
`SessionTimeout` are the environment. A tool call ends with success, a retryable
error (a step timeout included) or one of two errors that are not retryable, which
the replanner treats differently. `Submission[e].fault` says which step a policy,
a schema or the registry refuses.

Left out: payloads, trace ids, audit lines, snapshots, `step_sequence` and the
session's own `plan_version`, which no decision reads. The abandoned thread of a
call that timed out is not followed: its result is discarded.

`Tallies` writes the sum of a function into the naturals as the number of its units,
`f[x]` of them for each `x`. The attempts of a step here, and the sums of evaluation,
drills and experiments, are such sums: facts about finite sets then compare them in a
proof, without an induction over the terms.

### `TaskDelivery`, `TaskItems`, `InMemoryTaskQueue`, `RedisTaskQueue`

`TaskDelivery` is what `TaskQueue` promises: FIFO delivery, a task in one hand at
a time, back to the end after a rejection, dead-lettered after the last attempt.
`InMemoryTaskQueue` has one action per method (each runs under the lock);
`RedisTaskQueue` has one action per Redis command. `TaskItems` holds what they
share: the ids, of which those in `Repeated` are enqueued twice, the workers and
`max_retries`. An item is enqueued with an `attempt_count` of 0: `enqueue` keeps the
count of the item it is given, and every caller gives it a new `TaskItem`. Workers are
the environment: they dequeue, answer, or die. `close` (which clears everything) and the
read-only `peek_dead_letter` and `queue_length` are left out.

The refinement mapping takes the ids that are enqueued once: their part of the
queue is `waiting`, their items in processing are `held`. On Redis a task is held
from its LPOP on, and `attempts` counts an increment that is not yet written.

### `DistributedLock`

One lock name; `backend` is the class in use. Time is the event that the TTL of a
grant is over (`Expire`), at any moment after the grant. In memory an expired
entry stays until somebody looks, on Redis it is gone. `overran` records the
clients whose TTL ran out when their release would not compare the holder any
more: between the GET and the DEL of a Redis release, or with no holder id.

### `SessionRecovery`

The `instances` table, the session backend and sweeps. A sweep is the code's four
steps: the SELECT and the UPDATE of `detect_expired`, the listing of orphans, and
one write per orphan. `Late`, `Returning` and `DiesSweeping` admit late
heartbeats, registrations under an old id and sweepers that die within a sweep;
`suspect` and `adopted` record to which instances and sessions that happened. The
owners of sessions are external code, modelled from the states `recover`
distinguishes.

### `CircuitBreaker`

The circuit of one tool in several instances on one backend. A call is admitted by
`allow_request` and reports later, in whatever state the circuit is by then.
`Elapse` is `recovery_timeout` passing since a change of state. Totals and
`success_count`, which no decision reads, are left out. An instance is used by
one thread.

### `SharedMemory`

`SharedMemoryStore` over one backend. Every backend call is a step of its own: an
operation lists the entries, removes the expired ones of that list one by one,
loads its key, and a write then stores. `op` holds where a role is in its
operation, `known` the version it saw last of each key. `moved` and `crowded` are
history: keys changed since a role saw them, and operations another one overlapped.
Values and the local version history are left out.

### `TaskDispatcher`

`TaskDispatcher` and `CallbackHandler`, with the agents of the demo flow: an agent
is given an assignment, records a callback, completes, and may vanish anywhere in
between. `recycle_timed_out` does not know whether an agent is still at work, so
an assignment can be in several hands. `orphaned` marks the assignments whose agent
vanished between its record and its complete.

### `MessageBus`

Both buses, chosen in the initial state. In memory a publishing thread runs the
handlers itself (`agenda`), and an exception of a handler ends the publish. Over
Redis `subscribe` decides under the lock and talks to Redis outside it,
`_ensure_listener` checks and starts a thread in two steps, and a listener takes a
message of the one pubsub object (external, modelled from its use) and runs its
handlers. Nobody subscribes once `close` has begun: that is an assumption on the
callers, the code does not refuse it. `BusAssumption` says that reply topics are not
the service topic and that there is a listener thread for every caller to start. A
listener may leave its loop at any time, since `get_message` may raise.

### `ConfigCenter`

One key with its record, history and watchers. A put or delete is the read, the
change and one step per callback, on the live list, as the code iterates it; a
callback may unwatch itself or raise, and may be registered more than once.
An event has a type and a version; that of a delete is the version it removed.
`mirror` is history: the last event a callback had since its last registration.

### `ConnectionPool`

The steps of `get_connection` (try the queue, count under the lock, wait) and of
`close_all` (drain, reset). `stray` counts the connections a reset lost track of.

### `ToolRegistry`, `ToolGateway`

`ToolRegistry` has the versions of one tool name and the active one. `ToolGateway`
extends it with the chain a call goes through in `_run_gateway_sample`: validation
and quota, lookup, authorization, circuit, token, execution, audit. That function
builds a gateway per call; the model shares one among its calls, as
`tests/integration/test_tool_resilience.py` does. Each component's method is a step,
so two calls and a change of the registry interleave between any two of them. From the
start on these steps are: the slot is counted (`StartCall`), the start is logged or that
raises, outside the `try` (`LogStart`, `StartRaises`); the tool returns and the breaker
counts a success (`Succeed`), the success is logged (`LogSuccess`); at each of these the
handler may be entered, where the breaker counts a failure and then the failure is
logged (`Fail`, `LogFailure`); the `finally` frees the slot (`EndCall`). `audit` is the
sequence of entries of each call. `register` takes a version in any status.
`forgotten` and `raced` record the calls the properties make exceptions for: those whose
slot a reset forgot, and those validated while another was between validation and start.

### `Evaluation`

`EvaluationRunner.run`: the futures of the pool, the main thread that collects them
in order with a timeout each, the summary, the files, and the comparison with a
baseline. A sample's result is any the scoring code can give: retrieval samples
with a score, tool samples by the step of the gateway they reach (each has a gateway
of its own there). Rates are counts over the samples, scores are in tenths; the
percentile is the least latency that its rank of samples does not exceed, which is
the value the code takes from the sorted list.

### `RegressionPipeline`, `ChaosDrill`

A run of the pipeline is its steps in order (replay and routing marker if enabled,
evaluation, chaos, alerts and score, error budget, gate, result, event), and `RaiseInRun` ends
it at any of them. The budget tracker lives on between runs. `ChaosDrill` is the
injector, the call wrapped in a scenario, and the resilience score in thirds.

### `Experiments`, `RagCache`, `Retrieval`, `Planner`

`Experiments`: routing by bucket (the hash is a constant), overrides, guardrails,
and configurations that change. `RagCache`: LRU order, TTL, invalidation and the
fallback, for readers whose gets and puts (query, embedding, result) are steps of their
own, with the computation in between; each cached item has, as history, the version of
the corpus when it was put. `Retrieval`:
merge, filter, cut, rerank, deduplicate and pack, on every pair of rankings of the
instance. `Planner`: the keyword strategy, the limit, tool, dependency, cycle, depth
and parallelism checks of `validate_plan` in their order, with the code's recursive
searches, and the executor's batches for the plans it accepts, cut to the lower of
`max_parallel` and the request's `max_concurrency`.

### Modules for TLC

`MCPlanExecutor` gives the plans and submissions of the executor's runs.
`MCScheduler`, `MCResilience`, `MCCoordination` and `MCQuality` put components that
share no state side by side: `focus`, chosen in the initial state, says which one
moves, so that one run checks them all and their state spaces add up. The fairness
of each component's own specification is restated there for its `focus`, and one
type invariant joins those of the components.

## 3. Runs

| Run | Instance | What it shows |
| --- | --- | --- |
| `PlanExecutor_single` | one execution of the planner's three-step analysis plan, two parallel workers, one retry, one replan, cancellation and session timeout at any moment | `CancelStopsCalls`: after a cancel request at most one more call per worker in flight: retries and later batches see it. `NeverBlocked`: replans keep a ready step. `AttemptBudget`: attempts of a step over retries and replans. `NoRepeatWithinExecution`: a recorded success is not called again. `EveryExecutionReturns` |
| `PlanExecutor_resume` | two submissions of the request, one after the other; a schema error at the last step of the second | `SettledWhenQuiet`: when nothing runs, no step of a registered tool is RUNNING |
| `PlanExecutor_overlap` | two overlapping submissions, a two-step plan whose list order is not a dependency order, two replans, a tool that is gone for the second | `DependenciesRespected`, `SuccessIsEarned` while each execution changes the records the other one reads |
| `Scheduler` | two ids enqueued once and one enqueued twice, two workers, two attempts; three lock clients, one without a holder id | both queues implement `TaskDelivery` for the ids enqueued once; `RedisPendingIsQueued` for all ids; `EveryTaskEnds` for the in-memory queue while nobody dies; `GrantHonoured` and `FreedAfterCrash` for both lock classes |
| `Resilience` | three instances, two of them sweepers, two mortal, one late and returning, two sessions; two breakers, two calls, four failures, one restart | `OnlyOrphansTaken` and `CompletedStays` with their exact exceptions, `OrphansAdopted`; `Recovers` |
| `Coordination` | shared memory: two roles, one key, three writes; dispatcher: two assignments, three agents, one retry; bus: one requester, two servers, three listener threads, both classes; pool: three borrowers, two connections, two `close_all` | memory: `UncontendedIsAtomic`, an operation nobody overlaps is as good as atomic. Dispatcher: `EveryAssignmentSettles`, though agents go away or are late. Bus: `RegisteredIsSubscribed`, though the topic is registered and subscribed in separate steps; `EveryRequestReturns`, though listeners die. Pool: `PoolBound` with its exact excess after `close_all` |
| `Quality` | gateway: two versions, two calls, limits of one or two, one token and one refill; evaluation: two samples, two workers; pipeline: two runs of four samples, SLO 75 %; drill: three scenarios, two of them equal; router: three variants, four buckets, two subjects; cache: one reader, three keys, size two, two updates; retrieval: four chunks, all pairs of rankings of up to three; planner: keyword plans and all dependency relations on three steps, a concurrency of one or two; config center: two editors, three edits, two callbacks, one of which unwatches itself, up to two registrations | gateway: `AuditComplete`, `SlotsAreCalls`, `LimitHeldUnlessRaced`. Evaluation: `SummaryAddsUp`. Pipeline: `PassMeansHealthy`. Drill: `WeaknessShows`. Router: `RampUpKeepsSubjects`. Cache: `CachedIsFresh`. Retrieval: `RetrievalIsFull`, `NothingLeftOut`. Planner: `CyclesAreRefused` against a graph-theoretic reference, `BatchesAreLevels` against what the executor runs. Config: `MirrorInStep` |
| `PlanExecutor_own_request` | two requests of one session | violation, section 5 |
| `PlanExecutor_unregistered` | a tool that is not registered | violation, section 5 |
| `DistributedLock_release` | three clients with holder ids | violation, section 5 |
| `SessionRecovery_crash` | a sweeper that dies within a sweep | violation, section 5 |
| `SharedMemory_cas` | two roles, one key, three writes | violation, section 5 |

**Bounds.** Three plan steps are the planner's largest plan, with a join and two
parallel roots, the shape both replan strategies treat differently. Two executions
are enough for one to change what the other has read; the overlapping run leaves
out cancellation, whose check is local to an execution and is explored by
`PlanExecutor_single`. `MaxReplan` 2 lets a renamed step be renamed again. Two
attempts give a first delivery, a retry and a burial; an id enqueued twice is the
shortest way to two hands on one item. Three lock clients allow a late release, a
new holder and a third one waiting. `Late` and `Returning` happen once to an
instance, which is enough to be taken for dead; two dead instances make a sweep
list more than one. Four failures open both circuits, or one of them twice.
Two roles and three writes let a store overtake another between its check and its
store; a third agent holds an assignment that has been recycled. Three listener
threads are one for each caller that may come to start one. Two edits overlap and a
third one repairs; two registrations (`MaxWatches`) are two callbacks or one twice, in
one list, where one is passed over when the other unwatches itself, or in both. Two calls
are enough to race between check and count, with limits a second call exceeds. Three keys overflow a cache of two. Three steps give chains,
joins, parallel steps and cycles of every length up to three; the limits 0, 2 and 3
refuse and accept; three parallel steps under a concurrency of one or two are cut. The
cache has one reader: the update is the other actor, and a second update shows what
becomes of an item that was put late.

**Fairness.** Executor: a thread that can move does (`WF` of every worker and loop
step), as the operating system schedules Python threads; no fairness for cancel
requests or timeouts. Queue: a worker that lives polls and answers
(`WF` of `WorkerStep`); no fairness for enqueuing, and none for the Redis queue, of
which only safety is checked. Lock: time passes (`WF` of
`Expire`). Recovery: the heartbeat of a dead instance runs out, sweepers start and
sweep again; registration of others, sessions and deaths are free. Circuit: time
passes, calls end, and callers of every instance keep calling, also when another
instance's callers take turns in the model's call slots (`SF` of some `AllowRequest` of
each instance).
Dispatcher: agents ask for work and report or go away, timeouts pass, the coordinator
recycles. Bus: a requester that has begun runs on, its wait times out, and handlers
end; listeners and servers are not fair, so a reply may never come. The other
components have no fairness: their properties are safety.

**Mutants.** Every property of a passing run has a mutant of a mapped definition,
next to it in the module and marked `Mutant:`, that TLC finds violating it.

## 4. Proofs

For every value of the constants, from the named assumptions of the modules. A property
that is both proved and checked by a run is named in `PROJECT.json` with its theorem;
the others below (the component types, `StepsRegistered`, `OneHolderPerTask`,
`PendingIsQueued`, `OpensInTime`, `MutationsPersisted`, `ConflictMeansChange`,
`ActiveServes` and, of the dispatcher, `RetryBudget`, `AnnouncedIsStatus`,
`AggregateAgrees` and `SettledStays`) rest on their proofs, and the runs leave them out.

| Module | Theorems |
| --- | --- |
| `PlanExecutorProofs` | `TypeCorrect`, `StepsAlwaysRegistered`, `AlwaysSettled`, `NeverRepeated` |
| `PlanOutcomeProofs` | `DependenciesAlwaysRespected`, `SuccessAlwaysEarned`, `OrderedNeverBlocked`, `CancelAlwaysStops`, `BudgetAlwaysKept` |
| `SchedulerProofs` | `GrantsAlwaysHonoured`, `LockTyped`, `OneHolderAlways`, `PendingAlwaysQueued`; the copies of an id in either queue; the in-memory steps of the refinement |
| `RedisTaskQueueProofs` | `RedisPendingAlwaysQueued`; the Redis steps of the refinement |
| `DeliveryProofs` | `QueueDelivers`, `RedisQueueDelivers`, `SchedulerTyped` |
| `ResilienceProofs` | circuits and recovery: `AlwaysOpensInTime`, `CircuitTyped`, `MutationsAlwaysPersisted`, `OnlyOrphansEverTaken`, `CompletedAlwaysStays`, `RecoveryTyped`, `ResilienceTyped`; registry and gateway: `ActiveAlwaysServes`, `AuditAlwaysComplete`, `SlotsAlwaysCalls`, `LimitAlwaysHeldUnlessRaced`, `GatewayTyped` |
| `CoordinationProofs` | `ConflictsAreReal`, `AloneIsAtomic`, `RetriesBounded`, `AnnouncementsAgree`, `AggregatesAgree`, `SettledForGood`, `RegisteredAlwaysSubscribed`, `MirrorsAlwaysInStep`, `PoolStaysBounded`, `CoordinationTyped` |
| `QualityProofs` | `EvaluationSafe`, `PipelineSafe`, `DrillSafe`, `ExperimentSafe`, `CacheSafe` |

**Executor.** Beside the types, `completed` holds only steps with a recorded success,
every step of a plan in use is registered, every step of a batch has its dependencies
completed, and renaming keeps the step number of a position: no property is inductive
without them, because a replan installs a plan whose ids are new while `completed` and
the records still hold the old ones. `OrderedNeverBlocked` is for templates in
dependency order (`OrderedTemplate`), `NeverRepeated` and `BudgetAlwaysKept` for templates
whose step numbers differ (`DistinctNumbers`); the planner's plans are both.

* `AlwaysSettled`: a record that says RUNNING or WAITING_TOOL has a worker, of any
  execution, or its tool is not registered (`OpenHasWorker`). The worker can be another
  execution's: the record is shared by its id.
* `NeverRepeated`: a key with a recorded success is of an older plan version, which no
  call can match, or its step is completed or among the answered ones of the batch
  (`SuccessesAccounted`), and a batch holds no completed step.
* `CancelAlwaysStops`: the calls made after the request plus the workers that are past
  their last check are bounded by the size of the batch. The count is a cardinality,
  so the argument rests on lemmas about the finite set of running positions.
* `BudgetAlwaysKept`, for finitely many executions: `AttemptBudget` does not say who may
  still attempt. `BudgetInv` compares what is recorded for a position with what the
  executions have `Spent` on it: all attempts of every round of replanning that is over,
  and in the present round those `Used`. A step adds at most one unit to the sum, and
  then the execution that took it has spent one more; a replan moves to a new round
  and gives nothing back.

**Queues.** Both refinements are proved for any ids: of an id that is enqueued twice the
invariants say only its type and that a pending item of it is queued or on its way; of
the others, that one place at a time holds them.

* In memory (`QueueInv`): such an id is in the queue exactly while its item is pending,
  and in at most one hand while it is processing.
* On Redis (`RedisInv`): it is once in the list or in one call, and what that call has
  read is still what the key holds (`CallFits`), though no command is guarded. Hence
  the attempts the service sees are determined by the one call or the item
  (`AlwaysCounted`), and every command is a step of `TaskDelivery` or a stutter.
* `DeliveryProofs`: the mapping takes the distinct ids of a list, in order
  (`OfDistinct`). That this part follows the list through an append and a removal of
  its head is induction over the list's positions, done with the least counterexample
  of a well-founded order; the steps in `SchedulerProofs` and `RedisTaskQueueProofs` cite
  only the result (`FollowsList`).
* `SchedulerTyped`: the types are not inductive, because two copies of an id share one
  item and each may count attempts on it. `CopiesInv` counts copies: the places of an id in
  the queue and the hands that hold it are at most its enqueues; an item with `max_retries`
  attempts has fewer copies in the queue than enqueues, and one with more has none left
  and two enqueues behind it. On Redis (`RedisCopiesInv`) the same holds of the list, of
  an enqueue between its SET and its RPUSH, and of the calls that may still give the id
  back; a dequeue that has read `max_retries` and not yet written is the only such call
  (`ReadFits`), so that the interleaved read-modify-writes cannot count twice more. What the steps
  take from counting is stated once (`CountingFacts`) and proved in `DeliveryProofs`, from
  the library's theorems on finite sets.

**Lock.** A client whose release no longer compares the holder has a valid grant, and a
Redis key is a valid grant (`LockInv`).

**Recovery.** Who is in a sweep's `expired` has died, was late or came back; whose
session is in its `orphans` likewise, or the session was adopted before, and a completed
one is there only by such an exception (`SweepInv`). For these to last between the
steps of a sweep: a running instance has a row and, unless it was late, a heartbeat
(`RowsInv`); a process works only on sessions it owns or that were taken from it
(`WorkInv`).

**Circuit.** The same is said of every copy of the circuit, in instances and in the
backend, because each is loaded from the other. `ResilienceTyped` is about the composed
specification of the run.

**Shared memory.** The version a role knows is the stored one unless the key has moved,
and an operation not marked `crowded` is the only one in progress.

**Dispatcher.** An announced assignment is settled, an outcome about to be completed is
among the callbacks, and a callback without a completion has its agent in between or
lost.

**Bus.** `RegisteredIsSubscribed` lasts because the last handler of a topic goes together
with the subscription, under the lock, while whoever found the topic new still is in
`subscribing`. The rest of `BusInv` keeps the types: a reply topic has the handler of
its requester only and the service topic those of servers (`OwnHandlers`), a thread
runs handlers of one topic at a time (`AgendaSorted`), and there are no more listeners
than callers past `_ensure_listener`, so that a thread is free for the next one.

**Registry and gateway.** The registry's fallback is the greatest element of a finite set of
versions, which the lemmas show to exist. The stage of a call determines what its log may
be, and a circuit that is not closed has a call past `record_failure` (`AuditInv`). Of the
calls between validation and start one at most was validated with no other there, and a
slot is left for it by the calls that were not raced (`LimitInv`); counters are
cardinalities of sets of calls.

**Config center.** An undisturbed edit is the only one, its event says what is stored
(nothing, if it is a delete's), and the callbacks it has called, on the lists as they are now, are in step
(`EditInStep`); when the wildcard list is at its end that is every callback.

**Pool.** Nothing is drained outside `close_all`; otherwise `PoolBound` is inductive.
`CoordinationTyped` is about the composed specification of the run, from the invariants
of the five components.

**Quality tools.** Sums are cardinalities of sets of units (`Tallies`).

* `EvaluationSafe`: a result in place is one the scoring code can build for its sample
  (`EvaluationInv`), whichever worker built it, and a run that returned has collected
  all. Each result is coherent by itself, so the buckets, counts and rates of the
  summary are cardinalities of sets that partition the samples. That the diff gate
  compares in the right direction is arithmetic on them.
* `PipelineSafe`: `PassMeansHealthy` is inductive with the types of a run's record; only
  the gate sets `passed`. The totals divide 100 (`PipelineAssumption`), so that
  the truncated rate compares as the exact one does.
* `DrillSafe`: a drill that failed has at most one point (`ScoresFit`), and a sum of ratings
  is full only if each is. With a label used twice the later rating replaces the
  earlier one, hence the exception.
* `ExperimentSafe`: a ramp-up takes shares from the variants before the last one, so no
  boundary below it rises, and a bucket that was above them stays above them.
* `CacheSafe`: `CachedIsFresh` is not inductive, since it does not say when a fresh item was
  put. `CacheInv` says that between updates every item was put since the last one: an
  update suspends it and the invalidation restores it, and eviction and expiry change no
  item. What was put since the last update is fresh, or that update overtook it.

Only model-checked:

* all liveness properties: fairness and `ENABLED` are beyond the prover;
* `CyclesAreRefused` and `BatchesAreLevels`: the planner's searches are recursive operators,
  and that they agree with reachability and longest paths is induction over plans;
* `RetrievalIsFull` and `NothingLeftOut`: about folds, sorts and selections of sequences, that
  is, induction over the rankings;
* `QualityTypeOK`, as a whole: the types of the gateway, the evaluation, the pipeline, the drill,
  the router and the cache are proved (`GatewayTyped` and parts of the invariants above);
  those of the planner and the retrieval are not, for the reasons just given.

## 5. Where the code and its documents disagree

Checked as violation runs, with the quoted lines in `PROJECT.json`:

1. `PlanExecutor_own_request`: the recovery point takes every SUCCESS step of the
   session, whatever its idempotency key, so a second request of a session can be
   answered with success without running anything.
2. `PlanExecutor_unregistered`: a step whose tool is not registered stays RUNNING
   after its session has failed.
3. `DistributedLock_release`: a Redis release whose TTL runs out between its GET
   and its DEL deletes another client's lock.
4. `SessionRecovery_crash`: `detect_expired` commits before sessions are
   re-assigned and selects only rows that are alive, so a sweeper that dies in
   between leaves them orphaned for ever.
5. `SharedMemory_cas`: a write with `expected_version` loads, compares and stores in
   separate steps, so it stores although another role wrote the key after the check, and
   that role's update is lost.

Met while modelling, and visible in the models' behaviours:

* Overlapping submissions of one request can both call a tool under one
  idempotency key: `should_skip_step` reserves nothing
  (`docs/workflow/idempotency.md:23` says such a step is not executed again).
* A resubmission that replans from the same version derives ids that are already
  registered (`docs/architecture/state-machine.md:47`), and `_rollback_retry`
  rebuilds every later step of the list, not only the downstream ones
  (`replanner.py:198`).
* `processing_timeout` is read by nothing, so the task of a dead worker stays in
  processing (`docs/ops/distributed-drill.md:30`); a repeated id is dequeued while
  it is in processing, or raises `KeyError` (`scheduler/interfaces.py:37`).
* A release without a holder id, the default, removes any entry
  (`scheduler/interfaces.py:75`).
* A sweep takes a session from a live instance that was late, came back under its
  id, or adopted the session in an overlapping sweep (the exceptions of
  `OnlyOrphansTaken` and `CompletedStays`).
* A half-open circuit admits every caller (`circuit_breaker.py:6` says one probe),
  and `reset` of an instance that has not used the tool leaves the stored circuit
  open (`circuit_breaker.py:133`).
* A key that has expired starts again at version 1
  (`docs/multi-agent/memory-consistency.md:7` says versions only grow), and a cleanup
  removes a key by its name, whatever was written since it listed the entries.
* A rejected call's error code is a number and `expect_error` a string
  (`eval/runner.py:256`), so the first sample of `eval/datasets/adversarial.jsonl` can
  never succeed; the model's `ErrorOf` keeps the two apart.
* A first version in DRAFT is active, and `list_tools()` and `export_catalog` return it
  (`docs/tooling/tool-lifecycle.md:14`: not returned unless explicitly requested).
* A first version registered as DEPRECATED is active too, and no transition leads out of
  that status; `get(name)` serves it until another version is published.
* A result that cannot be serialized, or anything else that raises after the success
  entry, is logged as a failure of the same call as well and counted against the tool
  (`eval/runner.py:436`, inside the `try`). A raise in `log_call_start`, before the `try`,
  leaves the slot taken (`runner.py:403`).
* An empty allow list denies every tool (`authorizer.py:62`: "empty means allow all").
* The concurrency limit is checked at validation and counted at the start: overlapping
  calls can exceed it (the exception of `LimitHeldUnlessRaced`).
* `close_all` resets the counter under lent connections, so more than
  `max_connections` can be open afterwards (the `stray` of `PoolBound`).
* Two puts of a key that overlap store the same version, and its history has it twice.
* A callback that unwatches itself makes `notify` pass over the next one, and one that
  raises makes a put raise after its record was stored (the exceptions of
  `MirrorInStep`).
* A handler that raises ends the Redis listener with `_running` set, and no later
  `subscribe` starts another: requests then end by their timeouts.
* The gate does not read the resilience report (`docs/ops/chaos-drill.md:82` says it
  enters the gate's decision); `inject` compares scenarios by value and `remove` by
  identity, so a scenario equal to an active one cannot be removed through its own object.
* `regression_pipeline.py:126` truncates a float: 15 successes of 22 count as eight
  failures. With `slo_target` 1.0 the budget is exhausted by the first batch, also a
  faultless one.
* A result or an embedding put in the RAG cache after the invalidation that overtook it
  stays until its TTL or the next invalidation, and results computed from such an
  embedding are as old (the exception of `CachedIsFresh`).
* Both searches cut to `top_k` before the access filter (`retriever.py:86`,
  `keyword_retriever.py:106`), so visible chunks can be lost to invisible ones there; the
  model's rankings are the cut ones, and `RetrievalIsFull` is about what follows.

## 6. Not modelled

Some code makes no decision that another part, or a later step, depends on, or is a
library call; a model of it would restate it.

* Snapshots of the session store: an append-only log that nothing reads back.
* The context manager and the policy data of the agent: their verdicts are the faults of
  a submission. The application's mock tools: a free choice of outcomes.
* JSON-schema contracts, audit files, schema DDL, serialization and compression: library
  calls and output. The gateway's own schema check is modelled.
* Arbitration and the protocol's message checks: stateless functions of one message, with
  no reference to check them against.
* Replay: one enqueue, and a loop over recorded samples in a single thread.
* Tracer, exporters, dashboards, reports and statistics: output. The alert rules the
  pipeline uses are modelled.
* Configuration and evaluation command lines and `eval_rag.py`: argument parsing and I/O.
* Parts of modelled components: the floating-point scores of the two searches (the
  rankings are inputs), the weighted merge, custom access checkers, the context budget's
  bookkeeping; burn rates; the planner's checks of single fields; `close` of the queues,
  `deregister`, and the failures of the pool's connection factory.
