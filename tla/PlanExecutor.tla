---------------------------- MODULE PlanExecutor ----------------------------
(***************************************************************************)
(* The plan executor of agent-system: Executor.execute with its per-step   *)
(* worker threads, the InMemoryStateStore record of one session, and the   *)
(* Replanner.  One member of Executions is one call of execute on that     *)
(* session: a first submission, a resubmission, or a later request.        *)
(*                                                                         *)
(* A step id is the sequence of the planner's step number and the plan     *)
(* versions that renamed it: "step-1-replan-v2" is <<1, 2>>.               *)
(***************************************************************************)
EXTENDS Integers, Sequences, FiniteSets, Tallies

CONSTANTS
    Executions,     \* calls of execute on the session
    Submission,     \* [Executions -> [request, version, fault]]
    Template,       \* the step list the planner builds
    MaxParallel,    \* min(control.max_concurrency, graph_limits.max_parallel)
    MaxRetry,       \* Executor._max_retry_attempts
    MaxReplan,      \* Executor._max_replan_attempts
    MaxActive,      \* bound: calls of execute running at the same time
    MayCancel,      \* bound: whether somebody cancels
    MayExpire       \* bound: whether the session timeout can pass

Positions == DOMAIN Template

StepId == Seq(Nat)

Step == [id : StepId, deps : SUBSET StepId]

Refusals == {"permission_denied", "schema_validation_error"}

\* What stops an attempt before the tool is reached; an unregistered tool
\* raises out of the worker ("executor_internal_error").
Faults == {"none", "executor_internal_error"} \cup Refusals

\* Error codes of a tool result that is not retryable.
ToolErrors == {"invalid_business_input", "tool_runtime_exception"}

ResultCodes == {"none", "success", "retry_exhausted", "step_cancelled"}
                 \cup Faults \cup ToolErrors

Responses == ResultCodes \cup
    {"session_cancelled", "session_timeout", "dependency_blocked"}

ExecutionStatus == {"PENDING", "RUNNING", "WAITING_TOOL", "SUCCESS", "FAILED", "CANCELED"}

Requests == {Submission[e].request : e \in Executions}

Key == [request : Requests, step : StepId, version : Nat]

ASSUME SubmissionAssumption ==
    \A e \in Executions :
        /\ DOMAIN Submission[e] = {"request", "version", "fault"}
        /\ Submission[e].version \in Nat \ {0}
        /\ Submission[e].fault \in [Positions -> Faults]

\* A step id begins with the planner's step number.
ASSUME TemplateAssumption ==
    /\ Template \in Seq(Step)
    /\ \A i \in Positions : Template[i].id # <<>>

ASSUME BoundsAssumption ==
    /\ MaxParallel \in Nat \ {0}
    /\ MaxRetry \in Nat
    /\ MaxReplan \in Nat
    /\ MaxActive \in Nat
    /\ {MayCancel, MayExpire} \subseteq BOOLEAN

VARIABLES
    sessionStatus,  \* SessionState.status
    cancelStored,   \* SessionState.cancel_requested
    stepState,      \* SessionState.steps: registered id -> status, key, attempts
    phase,          \* per execution: "new", "loop", "batch", "returned"
    plan,           \* per execution: current_plan
    completed,      \* per execution: completed_steps
    replanCount,    \* per execution: replan_count
    batch,          \* per execution: positions of runnable_steps
    thread,         \* per execution and position: the worker of the step
    cancelled,      \* per execution: control.cancel_requested
    expired,        \* per execution: control.is_session_timed_out()
    response,       \* per execution: "none", "success" or the error code
    succeeded,      \* history: <<execution, key>> of every recorded success
    lateCalls       \* history: tool calls issued after a cancel request

store == <<sessionStatus, cancelStored, stepState>>

control == <<cancelled, expired>>

vars == <<store, phase, plan, completed, replanCount, batch, thread,
          control, response, succeeded, lateCalls>>

-----------------------------------------------------------------------------
(* The store and the replanner.                                            *)

IdsOf(p) == {p.steps[i].id : i \in Positions}

NewStep == [status |-> "PENDING", key |-> {}, attempts |-> 0]

\* Register the unknown ids of a plan; the known ones are left as they are.
UpsertPlanSteps(p) ==
    [id \in DOMAIN stepState \cup IdsOf(p) |->
        IF id \in DOMAIN stepState THEN stepState[id] ELSE NewStep]

RecoveryPoint(ss) == {id \in DOMAIN ss : ss[id].status = "SUCCESS"}

IdempotencyKey(e, i) ==
    [request |-> Submission[e].request,
     step    |-> plan[e].steps[i].id,
     version |-> plan[e].version]

ShouldSkipStep(e, i) ==
    LET s == stepState[plan[e].steps[i].id]
    IN  s.status = "SUCCESS" /\ s.key = {IdempotencyKey(e, i)}

Rename(id, v) == Append(id, v)

\* Mutant: the dependents of the replaced step are not remapped.
LocalReplaceNoRemap(p, i) ==
    [version |-> p.version + 1,
     steps   |-> [p.steps EXCEPT ![i].id = Rename(@, p.version + 1)]]

\* Replace the failed step at position i and remap what depends on it.
LocalReplace(p, i) ==
    LET v   == p.version + 1
        old == p.steps[i].id
    IN  [version |-> v,
         steps   |-> [j \in Positions |->
            IF j = i
              THEN [id |-> Rename(old, v), deps |-> p.steps[i].deps]
              ELSE [id   |-> p.steps[j].id,
                    deps |-> {IF d = old THEN Rename(d, v) ELSE d : d \in p.steps[j].deps}]]]

\* Rebuild the step at position i and every step after it in the list.
RollbackRetry(p, i) ==
    LET v      == p.version + 1
        suffix == {p.steps[j].id : j \in {k \in Positions : k >= i}}
    IN  [version |-> v,
         steps   |-> [j \in Positions |->
            IF j < i
              THEN p.steps[j]
              ELSE [id   |-> Rename(p.steps[j].id, v),
                    deps |-> {IF d \in suffix THEN Rename(d, v) ELSE d : d \in p.steps[j].deps}]]]

Strategy(code) ==
    IF code \in Refusals \cup {"invalid_business_input"} THEN "human_handoff"
    ELSE IF code = "retry_exhausted" THEN "local_replace"
    ELSE "rollback_retry"

Replan(p, i, code) ==
    IF Strategy(code) = "local_replace" THEN LocalReplace(p, i) ELSE RollbackRetry(p, i)

-----------------------------------------------------------------------------
(* The main loop of execute.                                               *)

Active == {e \in Executions : phase[e] \in {"loop", "batch"}}

Cancelled(e) == cancelled[e] \/ cancelStored

PendingSteps(e) == {i \in Positions : plan[e].steps[i].id \notin completed[e]}

ReadySteps(e) == {i \in PendingSteps(e) : plan[e].steps[i].deps \subseteq completed[e]}

First(S, n) == {i \in S : Cardinality({j \in S : j < i}) < n}

IdleThread == [pc |-> "idle", attempt |-> 0, result |-> "none"]

Init ==
    /\ sessionStatus = "PENDING"
    /\ cancelStored = FALSE
    /\ stepState = [id \in {} |-> NewStep]
    /\ phase = [e \in Executions |-> "new"]
    /\ plan = [e \in Executions |-> [version |-> Submission[e].version, steps |-> Template]]
    /\ completed = [e \in Executions |-> {}]
    /\ replanCount = [e \in Executions |-> 0]
    /\ batch = [e \in Executions |-> {}]
    /\ thread = [e \in Executions |-> [i \in Positions |-> IdleThread]]
    /\ cancelled = [e \in Executions |-> FALSE]
    /\ expired = [e \in Executions |-> FALSE]
    /\ response = [e \in Executions |-> "none"]
    /\ succeeded = {}
    /\ lateCalls = [e \in Executions |-> 0]

\* handle_request / execute up to the loop: init_session, find_recovery_point.
Start(e) ==
    /\ phase[e] = "new"
    /\ Cardinality(Active) < MaxActive
    /\ stepState' = UpsertPlanSteps(plan[e])
    /\ completed' = [completed EXCEPT ![e] = RecoveryPoint(stepState')]
    /\ sessionStatus' = "RUNNING"
    /\ phase' = [phase EXCEPT ![e] = "loop"]
    /\ UNCHANGED <<cancelStored, plan, replanCount, batch, thread, control,
                   response, succeeded, lateCalls>>

Return(e, status, code) ==
    /\ sessionStatus' = status
    /\ response' = [response EXCEPT ![e] = code]
    /\ phase' = [phase EXCEPT ![e] = "returned"]

\* Install a new plan: current_plan, replan_count and upsert_plan_steps.
Install(e, p) ==
    /\ plan' = [plan EXCEPT ![e] = p]
    /\ replanCount' = [replanCount EXCEPT ![e] = @ + 1]
    /\ stepState' = UpsertPlanSteps(p)
    /\ phase' = [phase EXCEPT ![e] = "loop"]

LoopCancelled(e) ==
    /\ phase[e] = "loop"
    /\ Cancelled(e)
    /\ Return(e, "CANCELED", "session_cancelled")
    /\ UNCHANGED <<cancelStored, stepState, plan, completed, replanCount, batch,
                   thread, control, succeeded, lateCalls>>

LoopTimedOut(e) ==
    /\ phase[e] = "loop"
    /\ ~Cancelled(e)
    /\ expired[e]
    /\ Return(e, "FAILED", "session_timeout")
    /\ UNCHANGED <<cancelStored, stepState, plan, completed, replanCount, batch,
                   thread, control, succeeded, lateCalls>>

LoopGoesOn(e) ==
    /\ phase[e] = "loop"
    /\ ~Cancelled(e)
    /\ ~expired[e]

\* Mutant: the execution is finished when no step is ready.
LoopFinishedNoneReady(e) ==
    /\ LoopGoesOn(e)
    /\ ReadySteps(e) = {}
    /\ Return(e, "SUCCESS", "success")
    /\ UNCHANGED <<cancelStored, stepState, plan, completed, replanCount, batch,
                   thread, control, succeeded, lateCalls>>

LoopFinished(e) ==
    /\ LoopGoesOn(e)
    /\ PendingSteps(e) = {}
    /\ Return(e, "SUCCESS", "success")
    /\ UNCHANGED <<cancelStored, stepState, plan, completed, replanCount, batch,
                   thread, control, succeeded, lateCalls>>

Blocked(e) == PendingSteps(e) # {} /\ ReadySteps(e) = {}

\* replan_for_missing_dependency: roll back from the first pending step.
LoopBlockedReplan(e) ==
    /\ LoopGoesOn(e)
    /\ Blocked(e)
    /\ replanCount[e] < MaxReplan
    /\ \E i \in First(PendingSteps(e), 1) : Install(e, RollbackRetry(plan[e], i))
    /\ UNCHANGED <<sessionStatus, cancelStored, completed, batch, thread,
                   control, response, succeeded, lateCalls>>

LoopBlockedFail(e) ==
    /\ LoopGoesOn(e)
    /\ Blocked(e)
    /\ replanCount[e] >= MaxReplan
    /\ Return(e, "FAILED", "dependency_blocked")
    /\ UNCHANGED <<cancelStored, stepState, plan, completed, replanCount, batch,
                   thread, control, succeeded, lateCalls>>

\* _execute_ready_steps submits one worker per runnable step.
LoopDispatch(e) ==
    /\ LoopGoesOn(e)
    /\ ReadySteps(e) # {}
    /\ batch' = [batch EXCEPT ![e] = First(ReadySteps(e), MaxParallel)]
    /\ thread' = [thread EXCEPT ![e] =
                    [i \in Positions |-> IF i \in batch'[e]
                                           THEN [IdleThread EXCEPT !.pc = "start"]
                                           ELSE IdleThread]]
    /\ phase' = [phase EXCEPT ![e] = "batch"]
    /\ UNCHANGED <<store, plan, completed, replanCount, control, response,
                   succeeded, lateCalls>>

-----------------------------------------------------------------------------
(* _execute_single_step: the worker of position i.                         *)

SetStep(e, i, fields) ==
    stepState' = [stepState EXCEPT ![plan[e].steps[i].id] = fields]

SetStatus(e, i, status) ==
    SetStep(e, i, [stepState[plan[e].steps[i].id] EXCEPT !.status = status])

SetThread(e, i, fields) == thread' = [thread EXCEPT ![e][i] = fields]

ThreadDone(e, i, code) ==
    SetThread(e, i, [thread[e][i] EXCEPT !.pc = "done", !.result = code])

Worker(e, i, pc) ==
    /\ phase[e] = "batch"
    /\ i \in batch[e]
    /\ thread[e][i].pc = pc

workerFrame == <<sessionStatus, cancelStored, phase, plan, completed, replanCount,
                 batch, control, response>>

StepSkip(e, i) ==
    /\ Worker(e, i, "start")
    /\ ShouldSkipStep(e, i)
    /\ ThreadDone(e, i, "success")
    /\ UNCHANGED <<workerFrame, stepState, succeeded, lateCalls>>

StepEnter(e, i) ==
    /\ Worker(e, i, "start")
    /\ ~ShouldSkipStep(e, i)
    /\ SetThread(e, i, [thread[e][i] EXCEPT !.pc = "ready"])
    /\ UNCHANGED <<workerFrame, stepState, succeeded, lateCalls>>

StepCancelled(e, i) ==
    /\ Worker(e, i, "ready")
    /\ Cancelled(e)
    /\ SetStatus(e, i, "CANCELED")
    /\ ThreadDone(e, i, "step_cancelled")
    /\ UNCHANGED <<workerFrame, succeeded, lateCalls>>

\* Mutant: the cancel request is not looked at before an attempt.
StepAttemptAnyway(e, i) ==
    /\ Worker(e, i, "ready")
    /\ SetStep(e, i, [stepState[plan[e].steps[i].id]
                        EXCEPT !.status = "RUNNING", !.attempts = @ + 1])
    /\ SetThread(e, i, [thread[e][i] EXCEPT !.pc = "running", !.attempt = @ + 1])
    /\ UNCHANGED <<workerFrame, succeeded, lateCalls>>

StepAttempt(e, i) ==
    /\ Worker(e, i, "ready")
    /\ ~Cancelled(e)
    /\ SetStep(e, i, [stepState[plan[e].steps[i].id]
                        EXCEPT !.status = "RUNNING", !.attempts = @ + 1])
    /\ SetThread(e, i, [thread[e][i] EXCEPT !.pc = "running", !.attempt = @ + 1])
    /\ UNCHANGED <<workerFrame, succeeded, lateCalls>>

\* _check_policy or _check_schema returns a failure envelope.
StepRefused(e, i) ==
    /\ Worker(e, i, "running")
    /\ Submission[e].fault[i] \in Refusals
    /\ SetStatus(e, i, "FAILED")
    /\ ThreadDone(e, i, Submission[e].fault[i])
    /\ UNCHANGED <<workerFrame, succeeded, lateCalls>>

\* get_schema_path raises for an unregistered tool; the exception reaches
\* as_completed and the step's record is not touched again.
StepRaises(e, i) ==
    /\ Worker(e, i, "running")
    /\ Submission[e].fault[i] = "executor_internal_error"
    /\ ThreadDone(e, i, "executor_internal_error")
    /\ UNCHANGED <<workerFrame, stepState, succeeded, lateCalls>>

StepInvoke(e, i) ==
    /\ Worker(e, i, "running")
    /\ Submission[e].fault[i] = "none"
    /\ SetStatus(e, i, "WAITING_TOOL")
    /\ SetThread(e, i, [thread[e][i] EXCEPT !.pc = "waiting"])
    /\ lateCalls' = [lateCalls EXCEPT ![e] = @ + (IF Cancelled(e) THEN 1 ELSE 0)]
    /\ UNCHANGED <<workerFrame, succeeded>>

\* Mutant: after a success the retry loop goes on while attempts are left.
StepSucceedsLoopsOn(e, i) ==
    /\ Worker(e, i, "waiting")
    /\ SetStep(e, i, [stepState[plan[e].steps[i].id]
                        EXCEPT !.status = "SUCCESS", !.key = {IdempotencyKey(e, i)}])
    /\ IF thread[e][i].attempt <= MaxRetry
         THEN SetThread(e, i, [thread[e][i] EXCEPT !.pc = "ready"])
         ELSE ThreadDone(e, i, "success")
    /\ succeeded' = succeeded \cup {<<e, IdempotencyKey(e, i)>>}
    /\ UNCHANGED <<workerFrame, lateCalls>>

StepSucceeds(e, i) ==
    /\ Worker(e, i, "waiting")
    /\ SetStep(e, i, [stepState[plan[e].steps[i].id]
                        EXCEPT !.status = "SUCCESS", !.key = {IdempotencyKey(e, i)}])
    /\ ThreadDone(e, i, "success")
    /\ succeeded' = succeeded \cup {<<e, IdempotencyKey(e, i)>>}
    /\ UNCHANGED <<workerFrame, lateCalls>>

\* Mutant: a failure that is not retryable is returned but not recorded.
StepFailsUnrecorded(e, i) ==
    /\ Worker(e, i, "waiting")
    /\ \E code \in ToolErrors : ThreadDone(e, i, code)
    /\ UNCHANGED <<workerFrame, stepState, succeeded, lateCalls>>

StepFails(e, i) ==
    /\ Worker(e, i, "waiting")
    /\ SetStatus(e, i, "FAILED")
    /\ \E code \in ToolErrors : ThreadDone(e, i, code)
    /\ UNCHANGED <<workerFrame, succeeded, lateCalls>>

\* Mutant: one attempt too many.
StepRetryableOnceMore(e, i) ==
    /\ Worker(e, i, "waiting")
    /\ SetStatus(e, i, "FAILED")
    /\ \/ /\ thread[e][i].attempt <= MaxRetry + 1
          /\ SetThread(e, i, [thread[e][i] EXCEPT !.pc = "ready"])
       \/ /\ thread[e][i].attempt > MaxRetry + 1
          /\ ThreadDone(e, i, "retry_exhausted")
    /\ UNCHANGED <<workerFrame, succeeded, lateCalls>>

\* A retryable error or the step timeout: next attempt, or retry_exhausted.
StepRetryable(e, i) ==
    /\ Worker(e, i, "waiting")
    /\ SetStatus(e, i, "FAILED")
    /\ \/ /\ thread[e][i].attempt <= MaxRetry
          /\ SetThread(e, i, [thread[e][i] EXCEPT !.pc = "ready"])
       \/ /\ thread[e][i].attempt > MaxRetry
          /\ ThreadDone(e, i, "retry_exhausted")
    /\ UNCHANGED <<workerFrame, succeeded, lateCalls>>

WorkerStep(e, i) ==
    \/ StepSkip(e, i)
    \/ StepEnter(e, i)
    \/ StepCancelled(e, i)
    \/ StepAttempt(e, i)
    \/ StepRefused(e, i)
    \/ StepRaises(e, i)
    \/ StepInvoke(e, i)
    \/ StepSucceeds(e, i)
    \/ StepFails(e, i)
    \/ StepRetryable(e, i)

-----------------------------------------------------------------------------
(* The batch results, processed in plan order up to the first failure.     *)

FailedSteps(e) == {i \in batch[e] : thread[e][i].result # "success"}

\* Mutant: the whole batch is merged, whatever its results.
MergeWholeBatch(e, n) ==
    completed' = [completed EXCEPT ![e] = @ \cup {plan[e].steps[i].id : i \in batch[e]}]

\* Results before position n are merged; the ones after it are dropped.
MergeBefore(e, n) ==
    completed' = [completed EXCEPT ![e] =
        @ \cup {plan[e].steps[i].id : i \in {j \in batch[e] : j < n}}]

BatchJoined(e) ==
    /\ phase[e] = "batch"
    /\ \A i \in batch[e] : thread[e][i].pc = "done"

\* Mutant: completed_steps is not updated.
BatchSucceededNoMerge(e) ==
    /\ BatchJoined(e)
    /\ FailedSteps(e) = {}
    /\ phase' = [phase EXCEPT ![e] = "loop"]
    /\ UNCHANGED <<store, plan, completed, replanCount, batch, thread, control, response,
                   succeeded, lateCalls>>

BatchSucceeded(e) ==
    /\ BatchJoined(e)
    /\ FailedSteps(e) = {}
    /\ MergeBefore(e, Len(Template) + 1)
    /\ phase' = [phase EXCEPT ![e] = "loop"]
    /\ UNCHANGED <<store, plan, replanCount, batch, thread, control, response,
                   succeeded, lateCalls>>

MayReplan(e, code) == replanCount[e] < MaxReplan /\ Strategy(code) # "human_handoff"

BatchReplan(e) ==
    /\ BatchJoined(e)
    /\ \E i \in First(FailedSteps(e), 1) :
          /\ MayReplan(e, thread[e][i].result)
          /\ MergeBefore(e, i)
          /\ Install(e, Replan(plan[e], i, thread[e][i].result))
    /\ UNCHANGED <<sessionStatus, cancelStored, batch, thread, control, response,
                   succeeded, lateCalls>>

BatchFailed(e) ==
    /\ BatchJoined(e)
    /\ \E i \in First(FailedSteps(e), 1) :
          /\ ~MayReplan(e, thread[e][i].result)
          /\ MergeBefore(e, i)
          /\ Return(e, "FAILED", thread[e][i].result)
    /\ UNCHANGED <<cancelStored, stepState, plan, replanCount, batch, thread,
                   control, succeeded, lateCalls>>

-----------------------------------------------------------------------------
(* The environment: cancellation and the clock.                            *)

envFrame == <<sessionStatus, stepState, phase, plan, completed, replanCount, batch,
              thread, response, succeeded, lateCalls>>

\* control.request_cancel()
RequestCancel(e) ==
    /\ MayCancel
    /\ e \in Active
    /\ ~cancelled[e]
    /\ cancelled' = [cancelled EXCEPT ![e] = TRUE]
    /\ UNCHANGED <<envFrame, cancelStored, expired>>

\* store.mark_cancel_requested(); the session must exist.
MarkCancelRequested ==
    /\ MayCancel
    /\ ~cancelStored
    /\ \E e \in Executions : phase[e] # "new"
    /\ cancelStored' = TRUE
    /\ UNCHANGED <<envFrame, cancelled, expired>>

SessionTimeout(e) ==
    /\ MayExpire
    /\ e \in Active
    /\ ~expired[e]
    /\ expired' = [expired EXCEPT ![e] = TRUE]
    /\ UNCHANGED <<envFrame, cancelStored, cancelled>>

ExecuteStep(e) ==
    \/ LoopCancelled(e)
    \/ LoopTimedOut(e)
    \/ LoopFinished(e)
    \/ LoopBlockedReplan(e)
    \/ LoopBlockedFail(e)
    \/ LoopDispatch(e)
    \/ BatchSucceeded(e)
    \/ BatchReplan(e)
    \/ BatchFailed(e)

\* Every submission has been answered.
AllReturned ==
    /\ \A e \in Executions : phase[e] = "returned"
    /\ UNCHANGED vars

Next ==
    \/ MarkCancelRequested
    \/ AllReturned
    \/ \E e \in Executions :
          \/ Start(e)
          \/ ExecuteStep(e)
          \/ \E i \in Positions : WorkerStep(e, i)
          \/ RequestCancel(e)
          \/ SessionTimeout(e)

\* Threads of the pool are scheduled and a tool call ends or times out; a
\* caller need not submit, nobody need cancel.
Fairness ==
    \A e \in Executions :
        /\ WF_vars(ExecuteStep(e))
        /\ \A i \in Positions : WF_vars(WorkerStep(e, i))

Spec == Init /\ [][Next]_vars /\ Fairness

-----------------------------------------------------------------------------
(* Properties.                                                             *)

ThreadState == [pc : {"idle", "start", "ready", "running", "waiting", "done"},
                attempt : 0 .. MaxRetry + 1,
                result : ResultCodes]

Plan == [version : Nat, steps : [Positions -> Step]]

StepRecord == [status : ExecutionStatus, key : SUBSET Key, attempts : Nat]

\* Every variable holds the kind of value its counterpart in the executor and
\* the session store holds.
TypeOK ==
    /\ sessionStatus \in ExecutionStatus
    /\ cancelStored \in BOOLEAN
    /\ DOMAIN stepState \subseteq StepId
    /\ \A id \in DOMAIN stepState : stepState[id] \in StepRecord
    /\ phase \in [Executions -> {"new", "loop", "batch", "returned"}]
    /\ plan \in [Executions -> Plan]
    /\ completed \in [Executions -> SUBSET StepId]
    /\ replanCount \in [Executions -> 0 .. MaxReplan]
    /\ batch \in [Executions -> SUBSET Positions]
    /\ thread \in [Executions -> [Positions -> ThreadState]]
    /\ cancelled \in [Executions -> BOOLEAN]
    /\ expired \in [Executions -> BOOLEAN]
    /\ response \in [Executions -> Responses]
    /\ succeeded \subseteq Executions \X Key
    /\ lateCalls \in [Executions -> Nat]

\* The store has a record of every step of the plan of every execution under
\* way, so InMemoryStateStore._get_step never raises "step not found" while a
\* plan is renamed under the workers of another execution.
StepsRegistered ==
    \A e \in Executions : phase[e] # "new" => IdsOf(plan[e]) \subseteq DOMAIN stepState

EverSucceeded == {s[2].step : s \in succeeded}

\* A tool is called for a step only after a success of every dependency of the
\* step has been recorded, whatever was renamed by replans on the way and
\* whatever other executions of the session do.
DependenciesRespected ==
    \A e \in Executions, i \in Positions :
        Worker(e, i, "waiting") => plan[e].steps[i].deps \subseteq EverSucceeded

\* execute answers success only when a success of every step of the final plan
\* was recorded.
SuccessIsEarned ==
    \A e \in Executions :
        response[e] = "success" => IdsOf(plan[e]) \subseteq EverSucceeded

\* One execution never calls a tool again under an idempotency key it has
\* already recorded a success for, even when that success was dropped by the
\* break that follows a replan.
NoRepeatWithinExecution ==
    \A e \in Executions, i \in Positions :
        Worker(e, i, "waiting") => <<e, IdempotencyKey(e, i)>> \notin succeeded

\* The attempts recorded for the step at position b, under every id replans gave it.
AttemptsOf(b) ==
    [id \in {k \in DOMAIN stepState : Head(k) = Head(Template[b].id)} |-> stepState[id].attempts]

\* All attempts recorded for a step of the planner's list stay within the retry
\* and replan budgets of the executions, whatever the step was renamed to.
AttemptBudget ==
    \A b \in Positions :
        SumOf(AttemptsOf(b)) <= Cardinality(Executions) * (MaxRetry + 1) * (MaxReplan + 1)

\* After a cancel request an execution issues at most one more tool call per
\* worker of the batch in flight: retries and later batches see the request.
CancelStopsCalls ==
    \A e \in Executions : lateCalls[e] <= MaxParallel

\* When no execution is running, no registered step is left RUNNING or
\* WAITING_TOOL, except a step whose tool is not registered.
SettledWhenQuiet ==
    Active = {} =>
        \A id \in DOMAIN stepState :
            \/ stepState[id].status \notin {"RUNNING", "WAITING_TOOL"}
            \/ \E e \in Executions, i \in Positions :
                  /\ Head(id) = Head(Template[i].id)
                  /\ Submission[e].fault[i] = "executor_internal_error"

\* In a plan whose list order respects its dependencies (all the plans
\* KeywordPlanningStrategy builds) no replan ever leaves the loop without an
\* executable step: dependency_blocked is not reachable.
NeverBlocked ==
    \A e \in Executions : phase[e] = "loop" => ~Blocked(e)

\* Every execution that starts returns a response.
EveryExecutionReturns ==
    \A e \in Executions : phase[e] = "loop" ~> phase[e] = "returned"

\* What docs/workflow/idempotency.md says of a key that does not match: the
\* step goes through the normal execution.  A request that is answered with
\* success has a success recorded under its own request id for every step.
SuccessUnderOwnRequest ==
    \A e \in Executions :
        response[e] = "success" =>
            \A i \in Positions : \E s \in succeeded :
                /\ s[2].request = Submission[e].request
                /\ s[2].step = plan[e].steps[i].id

\* What docs/architecture/state-machine.md says of failures: a step whose error
\* is not retryable ends FAILED, so no step stays RUNNING once nothing runs.
FailedStepsEndFailed ==
    Active = {} =>
        \A id \in DOMAIN stepState :
            stepState[id].status \notin {"RUNNING", "WAITING_TOOL"}
=============================================================================
