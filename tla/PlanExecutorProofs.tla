------------------------- MODULE PlanExecutorProofs -------------------------
(***************************************************************************)
(* PlanExecutor for every plan template, every set of submissions and      *)
(* every retry, replan and concurrency bound: types, registered steps,     *)
(* records with a worker, and no tool called again after a success.        *)
(***************************************************************************)
EXTENDS PlanExecutor, TLAPS

-----------------------------------------------------------------------------
(* The operators of the replanner.                                         *)

\* The positions of the planner's list.
LEMMA PositionsAre == Positions = 1 .. Len(Template) /\ Len(Template) \in Nat
BY TemplateAssumption DEF Positions

LEMMA RenameType ==
    ASSUME NEW id \in StepId, NEW v \in Nat
    PROVE  Rename(id, v) \in StepId
BY DEF StepId, Rename

\* Both replan strategies turn a plan into a plan of the next version.
LEMMA ReplanType ==
    ASSUME NEW p \in Plan, NEW i \in Positions
    PROVE  LocalReplace(p, i) \in Plan /\ RollbackRetry(p, i) \in Plan
<1>1. p.version + 1 \in Nat
  BY DEF Plan
<1>2. \A j \in Positions : p.steps[j].id \in StepId /\ p.steps[j].deps \subseteq StepId
  BY Zenon DEF Plan, Step
<1>3. ASSUME NEW j \in Positions PROVE LocalReplace(p, i).steps[j] \in Step
  BY <1>1, <1>2, RenameType DEF LocalReplace, Step
<1>4. ASSUME NEW j \in Positions PROVE RollbackRetry(p, i).steps[j] \in Step
  <2>1. CASE j < i
    BY <2>1, Zenon DEF RollbackRetry, Plan
  <2>2. CASE ~(j < i)
    BY <2>2, <1>1, <1>2, RenameType DEF RollbackRetry, Step
  <2> QED BY <2>1, <2>2, Zenon
<1>5. LocalReplace(p, i) \in Plan
  <2>1. LocalReplace(p, i).steps \in [Positions -> Step]
    BY <1>3, Zenon DEF LocalReplace
  <2> QED BY <1>1, <2>1, Zenon DEF LocalReplace, Plan
<1>6. RollbackRetry(p, i) \in Plan
  <2>1. RollbackRetry(p, i).steps \in [Positions -> Step]
    BY <1>4, Zenon DEF RollbackRetry
  <2> QED BY <1>1, <2>1, Zenon DEF RollbackRetry, Plan
<1> QED
  BY <1>5, <1>6, Zenon

-----------------------------------------------------------------------------
(* Type correctness.                                                       *)

\* A worker about to start an attempt has a retry left: what keeps the attempt
\* counter within max_retry_attempts + 1.
AttemptLeft ==
    \A e \in Executions, i \in Positions :
        thread[e][i].pc \in {"start", "ready"} => thread[e][i].attempt <= MaxRetry

TypeInv == TypeOK /\ AttemptLeft

LEMMA UpsertType ==
    ASSUME TypeOK, NEW p \in Plan
    PROVE  /\ DOMAIN UpsertPlanSteps(p) = DOMAIN stepState \cup IdsOf(p)
           /\ DOMAIN UpsertPlanSteps(p) \subseteq StepId
           /\ \A id \in DOMAIN UpsertPlanSteps(p) : UpsertPlanSteps(p)[id] \in StepRecord
<1>1. IdsOf(p) \subseteq StepId
  BY Zenon DEF IdsOf, Plan, Step
<1>2. NewStep \in StepRecord
  BY Zenon DEF NewStep, StepRecord, ExecutionStatus
<1> QED
  BY <1>1, <1>2, Zenon DEF UpsertPlanSteps, TypeOK

LEMMA KeyType ==
    ASSUME TypeOK, NEW e \in Executions, NEW i \in Positions
    PROVE  IdempotencyKey(e, i) \in Key
BY DEF TypeOK, IdempotencyKey, Key, Requests, Plan, Step

LEMMA InitType == Init => TypeInv
<1> SUFFICES ASSUME Init PROVE TypeInv
  BY Zenon
<1>1. Template \in [Positions -> Step]
  BY TemplateAssumption DEF Positions
<1>2. plan \in [Executions -> Plan]
  BY <1>1, SubmissionAssumption, Zenon DEF Init, Plan
<1>3. IdleThread \in ThreadState
  BY BoundsAssumption DEF IdleThread, ThreadState, ResultCodes
<1>4. TypeOK
  <2>1. DOMAIN stepState = {}
    BY Zenon DEF Init
  <2>2. thread \in [Executions -> [Positions -> ThreadState]]
    BY <1>3, Zenon DEF Init
  <2>3. replanCount \in [Executions -> 0 .. MaxReplan]
    BY BoundsAssumption DEF Init
  <2>4. response \in [Executions -> Responses]
    BY Zenon DEF Init, Responses, ResultCodes
  <2>5. cancelled \in [Executions -> BOOLEAN] /\ expired \in [Executions -> BOOLEAN]
        /\ cancelStored \in BOOLEAN
    BY Zenon DEF Init
  <2> QED
    BY <1>2, <2>1, <2>2, <2>3, <2>4, <2>5, Zenon DEF Init, TypeOK, ExecutionStatus
<1>5. AttemptLeft
  BY Zenon DEF Init, AttemptLeft, IdleThread
<1> QED
  BY <1>4, <1>5, Zenon DEF TypeInv

\* The executor's own steps, between two batches.
LEMMA ExecuteType ==
    ASSUME TypeInv, NEW e \in Executions, Start(e) \/ ExecuteStep(e)
    PROVE  TypeInv'
<1> USE DEF TypeInv
<1>a. plan[e] \in Plan
  BY Zenon DEF TypeOK
<1>b. ASSUME NEW S \in SUBSET Positions, NEW n PROVE First(S, n) \subseteq S
  BY Zenon DEF First
<1>c. PendingSteps(e) \subseteq Positions /\ ReadySteps(e) \subseteq Positions
      /\ FailedSteps(e) \subseteq Positions
  BY Zenon DEF PendingSteps, ReadySteps, FailedSteps, TypeOK
<1>d. ASSUME NEW p \in Plan, Install(e, p), replanCount[e] < MaxReplan
      PROVE  /\ plan' \in [Executions -> Plan]
             /\ replanCount' \in [Executions -> 0 .. MaxReplan]
             /\ phase' \in [Executions -> {"new", "loop", "batch", "returned"}]
             /\ DOMAIN stepState' \subseteq StepId
             /\ \A id \in DOMAIN stepState' : stepState'[id] \in StepRecord
  <2>1. DOMAIN stepState' \subseteq StepId
        /\ \A id \in DOMAIN stepState' : stepState'[id] \in StepRecord
    BY <1>d, UpsertType, Zenon DEF Install
  <2>2. replanCount' \in [Executions -> 0 .. MaxReplan]
    BY <1>d, BoundsAssumption DEF Install, TypeOK
  <2> QED BY <2>1, <2>2, <1>d, Zenon DEF Install, TypeOK
<1>e. ASSUME NEW n, MergeBefore(e, n) PROVE completed' \in [Executions -> SUBSET StepId]
  <2>1. {plan[e].steps[i].id : i \in {j \in batch[e] : j < n}} \subseteq StepId
    BY <1>a DEF TypeOK, Plan, Step
  <2> QED BY <2>1, <1>e, Zenon DEF MergeBefore, TypeOK
<1>f. ASSUME NEW status \in ExecutionStatus, NEW code \in Responses, Return(e, status, code)
      PROVE  /\ sessionStatus' \in ExecutionStatus
             /\ response' \in [Executions -> Responses]
             /\ phase' \in [Executions -> {"new", "loop", "batch", "returned"}]
  BY <1>f, Zenon DEF Return, TypeOK
<1>1. CASE Start(e)
  <2>1. DOMAIN stepState' \subseteq StepId
        /\ \A id \in DOMAIN stepState' : stepState'[id] \in StepRecord
    BY <1>1, <1>a, UpsertType, Zenon DEF Start
  <2>2. completed' \in [Executions -> SUBSET StepId]
    BY <1>1, <2>1, Zenon DEF Start, RecoveryPoint, TypeOK
  <2>3. sessionStatus' \in ExecutionStatus
        /\ phase' \in [Executions -> {"new", "loop", "batch", "returned"}]
    BY <1>1, Zenon DEF Start, TypeOK, ExecutionStatus
  <2> QED BY <1>1, <2>1, <2>2, <2>3, Zenon DEF Start, TypeOK, AttemptLeft, control
<1>2. CASE LoopCancelled(e)
  BY <1>2, <1>f, Zenon DEF LoopCancelled, TypeOK, AttemptLeft, control, ExecutionStatus, Responses
<1>3. CASE LoopTimedOut(e)
  BY <1>3, <1>f, Zenon DEF LoopTimedOut, TypeOK, AttemptLeft, control, ExecutionStatus, Responses
<1>4. CASE LoopFinished(e)
  BY <1>4, <1>f DEF LoopFinished, TypeOK, AttemptLeft, control, ExecutionStatus, Responses,
                    ResultCodes
<1>5. CASE LoopBlockedReplan(e)
  <2>1. PICK i \in First(PendingSteps(e), 1) : Install(e, RollbackRetry(plan[e], i))
    BY <1>5, Zenon DEF LoopBlockedReplan
  <2>2. RollbackRetry(plan[e], i) \in Plan
    BY <1>a, <1>b, <1>c, ReplanType, Zenon
  <2> QED BY <1>5, <2>1, <2>2, <1>d, Zenon DEF LoopBlockedReplan, TypeOK, AttemptLeft, control
<1>6. CASE LoopBlockedFail(e)
  BY <1>6, <1>f, Zenon DEF LoopBlockedFail, TypeOK, AttemptLeft, control, ExecutionStatus, Responses
<1>7. CASE LoopDispatch(e)
  <2>1. batch' \in [Executions -> SUBSET Positions]
    BY <1>7, <1>b, <1>c, Zenon DEF LoopDispatch, TypeOK
  <2>2. IdleThread \in ThreadState /\ [IdleThread EXCEPT !.pc = "start"] \in ThreadState
    BY BoundsAssumption DEF IdleThread, ThreadState, ResultCodes
  <2>3. thread' \in [Executions -> [Positions -> ThreadState]]
    BY <1>7, <2>2, Zenon DEF LoopDispatch, TypeOK
  <2>4. phase' \in [Executions -> {"new", "loop", "batch", "returned"}]
    BY <1>7, Zenon DEF LoopDispatch, TypeOK
  <2>5. AttemptLeft'
    <3>1. \A i \in Positions : thread'[e][i].attempt = 0
      BY <1>7, Zenon DEF LoopDispatch, TypeOK, IdleThread
    <3>2. \A f \in Executions \ {e} : thread'[f] = thread[f]
      BY <1>7, Zenon DEF LoopDispatch, TypeOK
    <3> QED BY <3>1, <3>2, BoundsAssumption DEF AttemptLeft
  <2> QED BY <1>7, <2>1, <2>3, <2>4, <2>5, Zenon DEF LoopDispatch, TypeOK, control, store
<1>8. CASE BatchSucceeded(e)
  <2>1. completed' \in [Executions -> SUBSET StepId]
    BY <1>8, <1>e, Zenon DEF BatchSucceeded
  <2> QED BY <1>8, <2>1, Zenon DEF BatchSucceeded, TypeOK, AttemptLeft, control, store
<1>9. CASE BatchReplan(e)
  <2>1. PICK i \in First(FailedSteps(e), 1) :
          /\ MayReplan(e, thread[e][i].result)
          /\ MergeBefore(e, i)
          /\ Install(e, Replan(plan[e], i, thread[e][i].result))
    BY <1>9, Zenon DEF BatchReplan
  <2>2. Replan(plan[e], i, thread[e][i].result) \in Plan
    BY <1>a, <1>b, <1>c, ReplanType, Zenon DEF Replan
  <2>3. completed' \in [Executions -> SUBSET StepId]
    BY <2>1, <1>e, Zenon
  <2> QED BY <1>9, <2>1, <2>2, <2>3, <1>d, Zenon DEF BatchReplan, MayReplan, TypeOK, AttemptLeft, control
<1>10. CASE BatchFailed(e)
  <2>1. PICK i \in First(FailedSteps(e), 1) :
          MergeBefore(e, i) /\ Return(e, "FAILED", thread[e][i].result)
    BY <1>10, Zenon DEF BatchFailed
  <2>2. thread[e][i].result \in Responses
    BY <1>b, <1>c DEF TypeOK, ThreadState, Responses
  <2>3. completed' \in [Executions -> SUBSET StepId]
    BY <2>1, <1>e, Zenon
  <2> QED BY <1>10, <2>1, <2>2, <2>3, <1>f
          DEF BatchFailed, TypeOK, AttemptLeft, control, ExecutionStatus
<1> QED
  BY <1>1, <1>2, <1>3, <1>4, <1>5, <1>6, <1>7, <1>8, <1>9, <1>10, Zenon DEF ExecuteStep

\* The steps of one worker.
LEMMA WorkerType ==
    ASSUME TypeInv, NEW e \in Executions, NEW i \in Positions, WorkerStep(e, i)
    PROVE  TypeInv'
<1> DEFINE id == plan[e].steps[i].id
           t  == thread[e][i]
<1> USE DEF TypeInv
<1>a. t \in ThreadState /\ id \in StepId
  BY DEF TypeOK, Plan, Step
<1>b. ASSUME NEW r \in StepRecord, SetStep(e, i, r)
      PROVE  /\ DOMAIN stepState' \subseteq StepId
             /\ \A x \in DOMAIN stepState' : stepState'[x] \in StepRecord
  BY <1>b, Zenon DEF SetStep, TypeOK
<1>c. ASSUME NEW u \in ThreadState, SetThread(e, i, u),
             u.pc \in {"start", "ready"} => u.attempt <= MaxRetry
      PROVE  thread' \in [Executions -> [Positions -> ThreadState]] /\ AttemptLeft'
  <2>1. thread' \in [Executions -> [Positions -> ThreadState]]
    BY <1>c, Zenon DEF SetThread, TypeOK
  <2>2. \A f \in Executions, j \in Positions :
           thread'[f][j] = IF f = e /\ j = i THEN u ELSE thread[f][j]
    BY <1>c, Zenon DEF SetThread, TypeOK
  <2> QED BY <2>1, <2>2, <1>c DEF AttemptLeft
<1>d. ASSUME NEW code \in ResultCodes, ThreadDone(e, i, code)
      PROVE  thread' \in [Executions -> [Positions -> ThreadState]] /\ AttemptLeft'
  <2>1. [t EXCEPT !.pc = "done", !.result = code] \in ThreadState
    BY <1>a, <1>d, Zenon DEF ThreadState
  <2> QED BY <1>a, <2>1, <1>c, <1>d, Zenon DEF ThreadDone, ThreadState
<1>e. ASSUME NEW status \in ExecutionStatus, SetStatus(e, i, status)
      PROVE  /\ DOMAIN stepState' \subseteq StepId
             /\ \A x \in DOMAIN stepState' : stepState'[x] \in StepRecord
  <2>1. CASE id \in DOMAIN stepState
    <3>1. [stepState[id] EXCEPT !.status = status] \in StepRecord
      BY <1>e, <2>1, Zenon DEF TypeOK, StepRecord
    <3> QED BY <3>1, <1>b, <1>e, Zenon DEF SetStatus
  <2>2. CASE id \notin DOMAIN stepState
    BY <2>2, <1>e, Zenon DEF SetStatus, SetStep, TypeOK
  <2> QED BY <2>1, <2>2, Zenon
<1>1. CASE StepSkip(e, i)
  BY <1>1, <1>d, Zenon DEF StepSkip, workerFrame, TypeOK, control, ResultCodes
<1>2. CASE StepEnter(e, i)
  <2>1. [t EXCEPT !.pc = "ready"] \in ThreadState /\ t.attempt <= MaxRetry
    BY <1>2, <1>a, Zenon DEF StepEnter, Worker, ThreadState, AttemptLeft
  <2>2. thread' \in [Executions -> [Positions -> ThreadState]] /\ AttemptLeft'
    BY <1>2, <1>a, <2>1, <1>c, Zenon DEF StepEnter, ThreadState
  <2> QED BY <1>2, <2>2, Zenon DEF StepEnter, workerFrame, TypeOK, control
<1>3. CASE StepCancelled(e, i)
  BY <1>3, <1>d, <1>e, Zenon DEF StepCancelled, workerFrame, TypeOK, control, ResultCodes, ExecutionStatus
<1>4. CASE StepAttempt(e, i)
  <2>1. [t EXCEPT !.pc = "running", !.attempt = @ + 1] \in ThreadState
    <3>1. t.attempt <= MaxRetry
      BY <1>4, Zenon DEF StepAttempt, Worker, AttemptLeft
    <3>2. t.attempt + 1 \in 0 .. MaxRetry + 1
      BY <3>1, <1>a, BoundsAssumption DEF ThreadState
    <3> QED BY <3>2, <1>a, Zenon DEF ThreadState
  <2>2. thread' \in [Executions -> [Positions -> ThreadState]] /\ AttemptLeft'
    <3> DEFINE u == [t EXCEPT !.pc = "running", !.attempt = @ + 1]
    <3>1. u.pc = "running"
      BY <1>a, Zenon DEF ThreadState
    <3>2. SetThread(e, i, u)
      BY <1>4, Zenon DEF StepAttempt
    <3> HIDE DEF u
    <3>3. u \in ThreadState
      BY <2>1, Zenon DEF u
    <3> QED BY <3>1, <3>2, <3>3, <1>c, Zenon
  <2>3. /\ DOMAIN stepState' \subseteq StepId
        /\ \A x \in DOMAIN stepState' : stepState'[x] \in StepRecord
    <3>1. CASE id \in DOMAIN stepState
      <4>1. [stepState[id] EXCEPT !.status = "RUNNING", !.attempts = @ + 1] \in StepRecord
        <5>1. stepState[id] \in StepRecord
          BY <3>1, Zenon DEF TypeOK
        <5>2. stepState[id].attempts \in Nat
          BY <5>1, Zenon DEF StepRecord
        <5>3. stepState[id].attempts + 1 \in Nat
          <6> DEFINE n == stepState[id].attempts
          <6> HIDE DEF n
          <6>1. n \in Nat
            BY <5>2, Zenon DEF n
          <6>2. n + 1 \in Nat
            BY <6>1
          <6> QED BY <6>2, Zenon DEF n
        <5>4. "RUNNING" \in ExecutionStatus
          BY Zenon DEF ExecutionStatus
        <5> QED BY <5>1, <5>3, <5>4, Zenon DEF StepRecord
      <4> QED BY <4>1, <1>b, <1>4, Zenon DEF StepAttempt
    <3>2. CASE id \notin DOMAIN stepState
      BY <3>2, <1>4, Zenon DEF StepAttempt, SetStep, TypeOK
    <3> QED BY <3>1, <3>2, Zenon
  <2> QED BY <1>4, <2>2, <2>3, Zenon DEF StepAttempt, workerFrame, TypeOK, control
<1>5. CASE StepRefused(e, i)
  <2>1. Submission[e].fault[i] \in ResultCodes
    BY <1>5, Zenon DEF StepRefused, ResultCodes, Faults
  <2> QED BY <1>5, <2>1, <1>d, <1>e, Zenon DEF StepRefused, workerFrame, TypeOK, control, ExecutionStatus
<1>6. CASE StepRaises(e, i)
  BY <1>6, <1>d, Zenon DEF StepRaises, workerFrame, TypeOK, control, ResultCodes, Faults
<1>7. CASE StepInvoke(e, i)
  <2>1. [t EXCEPT !.pc = "waiting"] \in ThreadState
    BY <1>a, Zenon DEF ThreadState
  <2>2. thread' \in [Executions -> [Positions -> ThreadState]] /\ AttemptLeft'
    BY <1>7, <1>a, <2>1, <1>c, Zenon DEF StepInvoke, ThreadState
  <2>3. lateCalls' \in [Executions -> Nat]
    BY <1>7 DEF StepInvoke, TypeOK
  <2> QED BY <1>7, <2>2, <2>3, <1>e, Zenon DEF StepInvoke, workerFrame, TypeOK, control, ExecutionStatus
<1>8. CASE StepSucceeds(e, i)
  <2>1. /\ DOMAIN stepState' \subseteq StepId
        /\ \A x \in DOMAIN stepState' : stepState'[x] \in StepRecord
    <3>1. CASE id \in DOMAIN stepState
      <4>1. [stepState[id] EXCEPT !.status = "SUCCESS", !.key = {IdempotencyKey(e, i)}]
              \in StepRecord
        <5>1. stepState[id] \in StepRecord
          BY <3>1, Zenon DEF TypeOK
        <5>2. {IdempotencyKey(e, i)} \in SUBSET Key /\ "SUCCESS" \in ExecutionStatus
          BY KeyType, Zenon DEF ExecutionStatus
        <5> QED BY <5>1, <5>2, Zenon DEF StepRecord
      <4> QED BY <4>1, <1>b, <1>8, Zenon DEF StepSucceeds
    <3>2. CASE id \notin DOMAIN stepState
      BY <3>2, <1>8, Zenon DEF StepSucceeds, SetStep, TypeOK
    <3> QED BY <3>1, <3>2, Zenon
  <2>2. succeeded' \subseteq Executions \X Key
    BY <1>8, KeyType DEF StepSucceeds, TypeOK
  <2>3. thread' \in [Executions -> [Positions -> ThreadState]] /\ AttemptLeft'
    BY <1>8, <1>d, Zenon DEF StepSucceeds, ResultCodes
  <2> QED BY <1>8, <2>1, <2>2, <2>3, Zenon DEF StepSucceeds, workerFrame, TypeOK, control
<1>9. CASE StepFails(e, i)
  <2>1. PICK code \in ToolErrors : ThreadDone(e, i, code)
    BY <1>9, Zenon DEF StepFails
  <2>2. thread' \in [Executions -> [Positions -> ThreadState]] /\ AttemptLeft'
    BY <2>1, <1>d, Zenon DEF ResultCodes
  <2> QED BY <1>9, <2>2, <1>e, Zenon DEF StepFails, workerFrame, TypeOK, control, ExecutionStatus
<1>10. CASE StepRetryable(e, i)
  <2>1. CASE t.attempt <= MaxRetry /\ SetThread(e, i, [t EXCEPT !.pc = "ready"])
    <3>1. [t EXCEPT !.pc = "ready"] \in ThreadState
      BY <1>a, Zenon DEF ThreadState
    <3>2. thread' \in [Executions -> [Positions -> ThreadState]] /\ AttemptLeft'
      BY <2>1, <3>1, <1>a, <1>c, Zenon DEF ThreadState
    <3> QED BY <1>10, <3>2, <1>e, Zenon DEF StepRetryable, workerFrame, TypeOK, control, ExecutionStatus
  <2>2. CASE ThreadDone(e, i, "retry_exhausted")
    <3>1. thread' \in [Executions -> [Positions -> ThreadState]] /\ AttemptLeft'
      BY <2>2, <1>d, Zenon DEF ResultCodes
    <3> QED BY <1>10, <3>1, <1>e, Zenon DEF StepRetryable, workerFrame, TypeOK, control, ExecutionStatus
  <2> QED BY <1>10, <2>1, <2>2, Zenon DEF StepRetryable
<1> QED
  BY <1>1, <1>2, <1>3, <1>4, <1>5, <1>6, <1>7, <1>8, <1>9, <1>10, Zenon DEF WorkerStep

LEMMA NextType == TypeInv /\ [Next]_vars => TypeInv'
<1> SUFFICES ASSUME TypeInv, [Next]_vars PROVE TypeInv'
  BY Zenon
<1>1. CASE MarkCancelRequested
  BY <1>1, Zenon DEF MarkCancelRequested, envFrame, TypeInv, TypeOK, AttemptLeft
<1>2. ASSUME NEW e \in Executions, RequestCancel(e) \/ SessionTimeout(e) PROVE TypeInv'
  BY <1>2, Zenon DEF RequestCancel, SessionTimeout, envFrame, TypeInv, TypeOK, AttemptLeft
<1>3. CASE UNCHANGED vars
  BY <1>3, Zenon DEF vars, store, control, TypeInv, TypeOK, AttemptLeft
<1> QED
  BY <1>1, <1>2, <1>3, ExecuteType, WorkerType, Zenon DEF Next, AllReturned

\* Every behaviour of the executor keeps its state well typed: in particular no
\* worker exceeds its attempts and no execution its replans, for every bound.
THEOREM TypeCorrect == Spec => []TypeOK
<1>1. Spec => []TypeInv
  BY InitType, NextType, PTL DEF Spec
<1>2. TypeInv => TypeOK
  BY Zenon DEF TypeInv
<1> QED
  BY <1>1, <1>2, PTL

-----------------------------------------------------------------------------
(* Every step an execution works on has a record in the store.             *)

LEMMA NextRegistered == TypeInv /\ StepsRegistered /\ [Next]_vars => StepsRegistered'
<1> SUFFICES ASSUME TypeInv, StepsRegistered, [Next]_vars PROVE StepsRegistered'
  BY Zenon
<1> USE DEF StepsRegistered, IdsOf
<1>y. /\ phase \in [Executions -> {"new", "loop", "batch", "returned"}]
      /\ plan \in [Executions -> Plan]
  BY Zenon DEF TypeInv, TypeOK
<1>1. ASSUME NEW e \in Executions, Start(e) PROVE StepsRegistered'
  <2>1. DOMAIN stepState' = DOMAIN stepState \cup IdsOf(plan[e])
    BY <1>1, Zenon DEF Start, UpsertPlanSteps
  <2> QED BY <1>1, <1>y, <2>1, Zenon DEF Start
<1>2. ASSUME NEW e \in Executions, NEW p, Install(e, p) PROVE StepsRegistered'
  <2>1. DOMAIN stepState' = DOMAIN stepState \cup IdsOf(p)
    BY <1>2, Zenon DEF Install, UpsertPlanSteps
  <2>2. plan'[e] = p /\ \A f \in Executions \ {e} : plan'[f] = plan[f] /\ phase'[f] = phase[f]
    BY <1>2, <1>y, Zenon DEF Install
  <2> QED BY <2>1, <2>2, Zenon
<1>3. ASSUME NEW e \in Executions, phase[e] # "new", UNCHANGED <<stepState, plan>>,
             \A f \in Executions \ {e} : phase'[f] = phase[f]
      PROVE  StepsRegistered'
  BY <1>3, Zenon
<1>4. ASSUME NEW e \in Executions, ExecuteStep(e) PROVE StepsRegistered'
  <2>1. CASE LoopCancelled(e) \/ LoopTimedOut(e) \/ LoopFinished(e) \/ LoopBlockedFail(e)
             \/ LoopDispatch(e) \/ BatchSucceeded(e) \/ BatchFailed(e)
    BY <2>1, <1>3, <1>y DEF LoopCancelled, LoopTimedOut, LoopFinished, LoopBlockedFail,
       LoopDispatch, LoopGoesOn, BatchSucceeded, BatchFailed, BatchJoined, Return, store
  <2>2. CASE LoopBlockedReplan(e) \/ BatchReplan(e)
    BY <2>2, <1>2, Zenon DEF LoopBlockedReplan, BatchReplan
  <2> QED BY <1>4, <2>1, <2>2, Zenon DEF ExecuteStep
<1>5. ASSUME NEW e \in Executions, NEW i \in Positions, WorkerStep(e, i) PROVE StepsRegistered'
  <2>1. UNCHANGED workerFrame /\ DOMAIN stepState' = DOMAIN stepState
    BY <1>5, Zenon DEF WorkerStep, StepSkip, StepEnter, StepCancelled, StepAttempt, StepRefused,
       StepRaises, StepInvoke, StepSucceeds, StepFails, StepRetryable, SetStatus, SetStep
  <2> QED BY <2>1, Zenon DEF workerFrame
<1>6. CASE UNCHANGED <<phase, plan, stepState>>
  BY <1>6, Zenon
<1> QED
  BY <1>1, <1>4, <1>5, <1>6 DEF Next, AllReturned, vars, store, MarkCancelRequested,
     RequestCancel, SessionTimeout, envFrame

\* Every step of every plan under way is in the store.
THEOREM StepsAlwaysRegistered == Spec => []StepsRegistered
<1>1. Init => StepsRegistered
  BY Zenon DEF Init, StepsRegistered
<1> QED
  BY <1>1, InitType, NextType, NextRegistered, PTL DEF Spec

-----------------------------------------------------------------------------
(* Replans keep the planner's step numbers.                                *)

\* The step number of an id is the one the planner gave the position, however
\* often it was renamed.
NumbersKept(p) ==
    \A i \in Positions : p.steps[i].id # <<>> /\ Head(p.steps[i].id) = Head(Template[i].id)

PlansNumbered == \A e \in Executions : NumbersKept(plan[e])

LEMMA RenameHead ==
    ASSUME NEW id \in StepId, id # <<>>, NEW v \in Nat
    PROVE  Rename(id, v) # <<>> /\ Head(Rename(id, v)) = Head(id)
BY DEF StepId, Rename

\* A plan whose ids are the old ones or renamings of them keeps the numbers.
LEMMA RenamedNumbers ==
    ASSUME NEW p \in Plan, NumbersKept(p), NEW q,
           \A j \in Positions : q.steps[j].id \in {p.steps[j].id, Rename(p.steps[j].id, p.version + 1)}
    PROVE  NumbersKept(q)
<1>1. SUFFICES ASSUME NEW j \in Positions
               PROVE  q.steps[j].id # <<>> /\ Head(q.steps[j].id) = Head(Template[j].id)
  BY Zenon DEF NumbersKept
<1>2. p.steps[j].id # <<>> /\ Head(p.steps[j].id) = Head(Template[j].id)
  BY Zenon DEF NumbersKept
<1>3. p.version + 1 \in Nat /\ p.steps[j].id \in StepId
  BY DEF Plan, Step
<1>4. /\ Rename(p.steps[j].id, p.version + 1) # <<>>
      /\ Head(Rename(p.steps[j].id, p.version + 1)) = Head(p.steps[j].id)
  BY <1>2, <1>3, RenameHead, Zenon
<1> QED BY <1>2, <1>4, Zenon

LEMMA ReplanNumbers ==
    ASSUME NEW p \in Plan, NumbersKept(p), NEW i \in Positions
    PROVE  NumbersKept(LocalReplace(p, i)) /\ NumbersKept(RollbackRetry(p, i))
<1>1. \A j \in Positions : LocalReplace(p, i).steps[j].id \in
                              {p.steps[j].id, Rename(p.steps[j].id, p.version + 1)}
  BY Zenon DEF LocalReplace
<1>2. \A j \in Positions : RollbackRetry(p, i).steps[j].id \in
                              {p.steps[j].id, Rename(p.steps[j].id, p.version + 1)}
  BY Zenon DEF RollbackRetry
<1> QED BY <1>1, <1>2, RenamedNumbers, Zenon

\* The plan of an execution changes only where a replanned one is installed.
LEMMA PlanChanges ==
    ASSUME TypeInv, [Next]_vars
    PROVE  \/ UNCHANGED plan
           \/ \E e \in Executions, i \in Positions :
                 plan' = [plan EXCEPT ![e] = LocalReplace(plan[e], i)]
           \/ \E e \in Executions, i \in Positions :
                 plan' = [plan EXCEPT ![e] = RollbackRetry(plan[e], i)]
<1>1. ASSUME NEW e \in Executions, LoopBlockedReplan(e)
      PROVE  \E i \in Positions : plan' = [plan EXCEPT ![e] = RollbackRetry(plan[e], i)]
  BY <1>1, Zenon DEF LoopBlockedReplan, Install, First, PendingSteps
<1>2. ASSUME NEW e \in Executions, BatchReplan(e)
      PROVE  \E i \in Positions : \/ plan' = [plan EXCEPT ![e] = LocalReplace(plan[e], i)]
                                  \/ plan' = [plan EXCEPT ![e] = RollbackRetry(plan[e], i)]
  <2>1. PICK i \in First(FailedSteps(e), 1) : Install(e, Replan(plan[e], i, thread[e][i].result))
    BY <1>2, Zenon DEF BatchReplan
  <2>2. i \in Positions
    BY Zenon DEF First, FailedSteps, TypeInv, TypeOK
  <2> QED BY <2>1, <2>2, Zenon DEF Install, Replan
<1>3. ASSUME NEW e \in Executions, NEW i \in Positions, WorkerStep(e, i) PROVE UNCHANGED plan
  BY <1>3 DEF WorkerStep, StepSkip, StepEnter, StepCancelled, StepAttempt, StepRefused, StepRaises,
     StepInvoke, StepSucceeds, StepFails, StepRetryable, workerFrame
<1>4. ASSUME NEW e \in Executions, ExecuteStep(e), ~LoopBlockedReplan(e), ~BatchReplan(e)
      PROVE  UNCHANGED plan
  BY <1>4 DEF ExecuteStep, LoopCancelled, LoopTimedOut, LoopFinished, LoopBlockedFail,
     LoopDispatch, BatchSucceeded, BatchFailed
<1>5. ASSUME NEW e \in Executions, Start(e) \/ RequestCancel(e) \/ SessionTimeout(e)
      PROVE  UNCHANGED plan
  BY <1>5, Zenon DEF Start, RequestCancel, SessionTimeout, envFrame
<1>6. CASE MarkCancelRequested \/ UNCHANGED vars
  BY <1>6, Zenon DEF MarkCancelRequested, envFrame, vars
<1> QED
  BY <1>1, <1>2, <1>3, <1>4, <1>5, <1>6, Zenon DEF Next, AllReturned

LEMMA InitNumbered == Init => PlansNumbered
<1> SUFFICES ASSUME Init, NEW e \in Executions PROVE NumbersKept(plan[e])
  BY Zenon DEF PlansNumbered
<1>1. plan[e].steps = Template
  BY Zenon DEF Init
<1> QED BY <1>1, TemplateAssumption, Zenon DEF NumbersKept

LEMMA NextNumbered == TypeInv /\ PlansNumbered /\ [Next]_vars => PlansNumbered'
<1> SUFFICES ASSUME TypeInv, PlansNumbered, [Next]_vars PROVE PlansNumbered'
  BY Zenon
<1>y. plan \in [Executions -> Plan]
  BY Zenon DEF TypeInv, TypeOK
<1>1. ASSUME NEW e \in Executions, NEW p, plan' = [plan EXCEPT ![e] = p], NumbersKept(p)
      PROVE  PlansNumbered'
  BY <1>1, <1>y, Zenon DEF PlansNumbered, NumbersKept
<1>2. \A e \in Executions, i \in Positions :
         NumbersKept(LocalReplace(plan[e], i)) /\ NumbersKept(RollbackRetry(plan[e], i))
  BY <1>y, ReplanNumbers, Zenon DEF PlansNumbered
<1>3. CASE UNCHANGED plan
  BY <1>3, Zenon DEF PlansNumbered, NumbersKept
<1> QED BY <1>1, <1>2, <1>3, PlanChanges, Zenon

-----------------------------------------------------------------------------
(* A step recorded as RUNNING or WAITING_TOOL has a worker.                *)

Working(e, i) ==
    /\ phase[e] = "batch"
    /\ i \in batch[e]
    /\ thread[e][i].pc \in {"running", "waiting"}

\* The exception of an unregistered tool leaves the record as it is.
ToolGone(id) ==
    \E e \in Executions, i \in Positions :
        /\ Head(id) = Head(Template[i].id)
        /\ Submission[e].fault[i] = "executor_internal_error"

HasWorker(id) ==
    \E e \in Executions, i \in Positions : Working(e, i) /\ plan[e].steps[i].id = id

OpenHasWorker ==
    \A id \in DOMAIN stepState :
        stepState[id].status \in {"RUNNING", "WAITING_TOOL"} => HasWorker(id) \/ ToolGone(id)

\* Registering a plan adds PENDING records only.
LEMMA UpsertOpen ==
    ASSUME NEW p, NEW id \in DOMAIN UpsertPlanSteps(p),
           UpsertPlanSteps(p)[id].status \in {"RUNNING", "WAITING_TOOL"}
    PROVE  id \in DOMAIN stepState /\ stepState[id].status \in {"RUNNING", "WAITING_TOOL"}
BY Zenon DEF UpsertPlanSteps, NewStep

\* A step of the main loop finds every worker of its execution done, and leaves the
\* workers of the others alone.
LEMMA ExecuteKeepsWorkers ==
    ASSUME TypeInv, NEW x \in Executions, Start(x) \/ ExecuteStep(x),
           NEW id, HasWorker(id)
    PROVE  HasWorker(id)'
<1>y. /\ phase \in [Executions -> {"new", "loop", "batch", "returned"}]
      /\ plan \in [Executions -> Plan]
      /\ batch \in [Executions -> SUBSET Positions]
      /\ thread \in [Executions -> [Positions -> ThreadState]]
  BY Zenon DEF TypeInv, TypeOK
<1>1. PICK e \in Executions, i \in Positions : Working(e, i) /\ plan[e].steps[i].id = id
  BY Zenon DEF HasWorker
<1>2. phase[x] # "batch" \/ BatchJoined(x)
  BY DEF Start, ExecuteStep, LoopCancelled, LoopTimedOut, LoopFinished, LoopBlockedReplan,
         LoopBlockedFail, LoopDispatch, BatchSucceeded, BatchReplan, BatchFailed, LoopGoesOn
<1>3. e # x
  BY <1>1, <1>2, Zenon DEF Working, BatchJoined
<1>4. /\ phase'[e] = phase[e]
      /\ plan'[e] = plan[e]
      /\ batch'[e] = batch[e]
      /\ thread'[e] = thread[e]
  BY <1>3, <1>y DEF Start, ExecuteStep, LoopCancelled, LoopTimedOut, LoopFinished, LoopBlockedReplan,
         LoopBlockedFail, LoopDispatch, BatchSucceeded, BatchReplan, BatchFailed, Return, Install
<1>5. Working(e, i)' /\ plan'[e].steps[i].id = id
  BY <1>1, <1>4, Zenon DEF Working
<1> QED BY <1>5, Zenon DEF HasWorker

LEMMA ExecuteOpen ==
    ASSUME TypeInv, OpenHasWorker, NEW x \in Executions, Start(x) \/ ExecuteStep(x)
    PROVE  OpenHasWorker'
<1>1. stepState' = stepState \/ \E p : stepState' = UpsertPlanSteps(p)
  BY DEF Start, ExecuteStep, LoopCancelled, LoopTimedOut, LoopFinished, LoopBlockedReplan,
         LoopBlockedFail, LoopDispatch, BatchSucceeded, BatchReplan, BatchFailed, Install, store
<1>2. SUFFICES ASSUME NEW id \in DOMAIN stepState',
                      stepState'[id].status \in {"RUNNING", "WAITING_TOOL"}
               PROVE  HasWorker(id)' \/ ToolGone(id)
  BY Zenon DEF OpenHasWorker, ToolGone
<1>3. id \in DOMAIN stepState /\ stepState[id].status \in {"RUNNING", "WAITING_TOOL"}
  BY <1>1, <1>2, UpsertOpen, Zenon
<1> QED BY <1>3, ExecuteKeepsWorkers, Zenon DEF OpenHasWorker

\* A worker that stops leaves its record in a final status, or its tool is gone.
LEMMA WorkerOpen ==
    ASSUME TypeInv, PlansNumbered, OpenHasWorker,
           NEW x \in Executions, NEW k \in Positions, WorkerStep(x, k)
    PROVE  OpenHasWorker'
<1> DEFINE own  == plan[x].steps[k].id
           Open == {"RUNNING", "WAITING_TOOL"}
<1>y. /\ thread \in [Executions -> [Positions -> ThreadState]]
      /\ \A id \in DOMAIN stepState : stepState[id] \in StepRecord
  BY Zenon DEF TypeInv, TypeOK
<1>w. /\ UNCHANGED <<phase, plan, batch>>
      /\ phase[x] = "batch" /\ k \in batch[x]
  BY DEF WorkerStep, StepSkip, StepEnter, StepCancelled, StepAttempt, StepRefused, StepRaises,
         StepInvoke, StepSucceeds, StepFails, StepRetryable, Worker, workerFrame
<1>1. \A e \in Executions, i \in Positions : (e # x \/ i # k) => thread'[e][i] = thread[e][i]
  <2>1. PICK u : SetThread(x, k, u)
    BY Zenon DEF WorkerStep, StepSkip, StepEnter, StepCancelled, StepAttempt, StepRefused, StepRaises,
                 StepInvoke, StepSucceeds, StepFails, StepRetryable, ThreadDone
  <2>2. \A e \in Executions : e # x => thread'[e] = thread[e]
    BY <2>1, <1>y, Zenon DEF SetThread
  <2>3. thread'[x] = [thread[x] EXCEPT ![k] = u] /\ thread[x] \in [Positions -> ThreadState]
    BY <2>1, <1>y, Zenon DEF SetThread
  <2> QED BY <2>2, <2>3, Zenon
<1>2. \A e \in Executions, i \in Positions :
         (e # x \/ i # k) /\ Working(e, i) =>
             Working(e, i)' /\ plan'[e].steps[i] = plan[e].steps[i]
  BY <1>1, <1>w, Zenon DEF Working
<1>3. ASSUME NEW id, HasWorker(id), id # own PROVE HasWorker(id)'
  BY <1>2, <1>3, Zenon DEF HasWorker
\* The worker's own record.
<1>4. ASSUME NEW r, SetStep(x, k, r), r.status \in Open => thread'[x][k].pc \in {"running", "waiting"}
      PROVE  OpenHasWorker'
  <2>1. SUFFICES ASSUME NEW id \in DOMAIN stepState', stepState'[id].status \in Open
                 PROVE  HasWorker(id)' \/ ToolGone(id)
    BY Zenon DEF OpenHasWorker, ToolGone
  <2>2. id \in DOMAIN stepState /\ (id # own => stepState'[id] = stepState[id])
        /\ (id = own => stepState'[id] = r)
    BY <1>4, <2>1, Zenon DEF SetStep
  <2>3. CASE id = own
    <3>1. Working(x, k)'
      BY <1>4, <1>w, <2>1, <2>2, <2>3, Zenon DEF Working
    <3> QED BY <3>1, <2>3, <1>w, Zenon DEF HasWorker
  <2>4. CASE id # own
    BY <2>1, <2>2, <2>4, <1>3, Zenon DEF OpenHasWorker
  <2> QED BY <2>3, <2>4, Zenon
\* The record is not touched.
<1>5. ASSUME UNCHANGED stepState, ~Working(x, k) \/ ToolGone(own) PROVE OpenHasWorker'
  <2>1. SUFFICES ASSUME NEW id \in DOMAIN stepState, stepState[id].status \in Open, ~ToolGone(id)
                 PROVE  HasWorker(id)'
    BY <1>5, Zenon DEF OpenHasWorker, ToolGone
  <2>2. PICK e \in Executions, i \in Positions : Working(e, i) /\ plan[e].steps[i].id = id
    BY <2>1, Zenon DEF OpenHasWorker, HasWorker
  <2>3. e # x \/ i # k
    BY <1>5, <2>1, <2>2, Zenon
  <2> QED BY <1>2, <2>2, <2>3, Zenon DEF HasWorker
<1>6. CASE StepSkip(x, k) \/ StepEnter(x, k)
  BY <1>5, <1>6, Zenon DEF StepSkip, StepEnter, Worker, Working
<1>7. CASE StepRaises(x, k)
  <2>1. ToolGone(own)
    BY <1>7, Zenon DEF StepRaises, ToolGone, PlansNumbered, NumbersKept
  <2> QED BY <1>5, <1>7, <2>1, Zenon DEF StepRaises
<1>8. CASE StepAttempt(x, k) \/ StepInvoke(x, k)
  <2>1. thread'[x][k].pc \in {"running", "waiting"}
    <3>1. PICK u : SetThread(x, k, u) /\ \/ u = [thread[x][k] EXCEPT !.pc = "running", !.attempt = @ + 1]
                                         \/ u = [thread[x][k] EXCEPT !.pc = "waiting"]
      BY <1>8, Zenon DEF StepAttempt, StepInvoke
    <3>2. thread'[x][k] = u
      BY <3>1, <1>y, Zenon DEF SetThread
    <3>3. u.pc \in {"running", "waiting"}
      <4>1. thread[x][k] \in ThreadState
        BY <1>y, Zenon
      <4> QED BY <3>1, <4>1, Zenon DEF ThreadState
    <3> QED BY <3>2, <3>3, Zenon
  <2> QED BY <1>8, <2>1, <1>4, Zenon DEF StepAttempt, StepInvoke, SetStatus
<1>9. CASE StepCancelled(x, k) \/ StepRefused(x, k) \/ StepSucceeds(x, k)
            \/ StepFails(x, k) \/ StepRetryable(x, k)
  <2> DEFINE s == stepState[own]
  <2>1. PICK r : SetStep(x, k, r) /\ \/ r = [s EXCEPT !.status = "CANCELED"]
                                     \/ r = [s EXCEPT !.status = "FAILED"]
                                     \/ r = [s EXCEPT !.status = "SUCCESS", !.key = {IdempotencyKey(x, k)}]
    BY <1>9, Zenon DEF StepCancelled, StepRefused, StepSucceeds, StepFails, StepRetryable, SetStatus
  <2>2. own \in DOMAIN stepState => r.status \notin Open
    BY <2>1, <1>y, Zenon DEF StepRecord
  <2>3. CASE own \in DOMAIN stepState
    BY <2>1, <2>2, <2>3, <1>4, Zenon
  <2>4. CASE own \notin DOMAIN stepState
    <3>1. SUFFICES ASSUME NEW id \in DOMAIN stepState', stepState'[id].status \in Open
                   PROVE  HasWorker(id)' \/ ToolGone(id)
      BY Zenon DEF OpenHasWorker, ToolGone
    <3>2. id \in DOMAIN stepState /\ id # own /\ stepState'[id] = stepState[id]
      BY <2>1, <2>4, <3>1, Zenon DEF SetStep
    <3> QED BY <3>1, <3>2, <1>3, Zenon DEF OpenHasWorker
  <2> QED BY <2>3, <2>4, Zenon
<1> QED
  BY <1>6, <1>7, <1>8, <1>9, Zenon DEF WorkerStep

LEMMA NextOpen == TypeInv /\ PlansNumbered /\ OpenHasWorker /\ [Next]_vars => OpenHasWorker'
<1> SUFFICES ASSUME TypeInv, PlansNumbered, OpenHasWorker, [Next]_vars PROVE OpenHasWorker'
  BY Zenon
<1>1. CASE \/ MarkCancelRequested
           \/ \E e \in Executions : RequestCancel(e) \/ SessionTimeout(e)
           \/ UNCHANGED vars
  <2>1. UNCHANGED <<stepState, phase, plan, batch, thread>>
    BY <1>1, Zenon DEF MarkCancelRequested, RequestCancel, SessionTimeout, vars, store, envFrame
  <2> QED
    BY <2>1, Zenon DEF OpenHasWorker, HasWorker, ToolGone, Working
<1> QED
  BY <1>1, ExecuteOpen, WorkerOpen, Zenon DEF Next, AllReturned

\* Once every execution of the session has returned, no step record says RUNNING or
\* WAITING_TOOL, except for tools that were not registered: no worker, cancel, retry
\* or replan of any execution leaves a step unsettled.
THEOREM AlwaysSettled == Spec => []SettledWhenQuiet
<1>1. Init => OpenHasWorker
  BY Zenon DEF Init, OpenHasWorker
<1>2. OpenHasWorker => SettledWhenQuiet
  BY Zenon DEF OpenHasWorker, HasWorker, Working, ToolGone, SettledWhenQuiet, Active
<1> QED
  BY <1>1, <1>2, InitType, NextType, InitNumbered, NextNumbered, NextOpen, PTL DEF Spec

-----------------------------------------------------------------------------
(* Plans in dependency order stay in dependency order.                     *)

\* Each dependency is the id of an earlier step.
DependsBackward(p) ==
    \A i \in Positions : \A d \in p.steps[i].deps :
        \E k \in Positions : k < i /\ d = p.steps[k].id

Ordered(p) == DependsBackward(p) /\ NumbersKept(p)

\* What KeywordPlanningStrategy.build_steps and Planner.validate_plan give:
\* distinct step numbers, and a list order that respects depends_on.
DistinctNumbers ==
    \A i, j \in Positions : Head(Template[i].id) = Head(Template[j].id) => i = j

OrderedTemplate == DistinctNumbers /\ DependsBackward([version |-> 1, steps |-> Template])

PlansOrdered == \A e \in Executions : Ordered(plan[e])

\* Different positions of a plan have different ids.
LEMMA UniqueIds ==
    ASSUME DistinctNumbers, NEW p \in Plan, NumbersKept(p), NEW i \in Positions, NEW j \in Positions,
           p.steps[i].id = p.steps[j].id
    PROVE  i = j
<1>1. /\ Head(p.steps[i].id) = Head(Template[i].id)
      /\ Head(p.steps[j].id) = Head(Template[j].id)
  BY Zenon DEF NumbersKept
<1>2. Head(Template[i].id) = Head(Template[j].id)
  BY <1>1, Zenon
<1> QED BY <1>2, Zenon DEF DistinctNumbers

LEMMA LocalReplaceOrdered ==
    ASSUME OrderedTemplate, NEW p \in Plan, Ordered(p), NEW i \in Positions
    PROVE  Ordered(LocalReplace(p, i))
<1> DEFINE q   == LocalReplace(p, i)
           v   == p.version + 1
           old == p.steps[i].id
<1>1. v \in Nat /\ \A j \in Positions : p.steps[j].id \in StepId
  BY DEF Plan, Step
<1>2. \A j \in Positions : q.steps[j].id = IF j = i THEN Rename(old, v) ELSE p.steps[j].id
  BY Zenon DEF LocalReplace
<1>3. NumbersKept(q)
  BY ReplanNumbers, Zenon DEF Ordered
<1>4. ASSUME NEW j \in Positions, NEW d \in q.steps[j].deps
      PROVE  \E k \in Positions : k < j /\ d = q.steps[k].id
  <2>1. CASE j = i
    <3>1. d \in p.steps[i].deps
      BY <2>1, Zenon DEF LocalReplace
    <3>2. PICK k \in Positions : k < i /\ d = p.steps[k].id
      BY <3>1, Zenon DEF Ordered, DependsBackward
    <3> QED BY <2>1, <3>2, <1>2, PositionsAre
  <2>2. CASE j # i
    <3>1. PICK c \in p.steps[j].deps : d = IF c = old THEN Rename(c, v) ELSE c
      BY <2>2, Zenon DEF LocalReplace
    <3>2. PICK k \in Positions : k < j /\ c = p.steps[k].id
      BY Zenon DEF Ordered, DependsBackward
    <3>3. c = old <=> k = i
      BY <3>2, UniqueIds, Zenon DEF Ordered, OrderedTemplate
    <3> QED BY <3>1, <3>2, <3>3, <1>2, Zenon
  <2> QED BY <2>1, <2>2, Zenon
<1>5. DependsBackward(q)
  <2> HIDE DEF q
  <2> QED BY <1>4, Zenon DEF DependsBackward
<1> QED
  BY <1>3, <1>5, Zenon DEF Ordered

LEMMA RollbackRetryOrdered ==
    ASSUME OrderedTemplate, NEW p \in Plan, Ordered(p), NEW i \in Positions
    PROVE  Ordered(RollbackRetry(p, i))
<1> DEFINE q      == RollbackRetry(p, i)
           v      == p.version + 1
           suffix == {p.steps[j].id : j \in {k \in Positions : k >= i}}
<1>1. v \in Nat /\ \A j \in Positions : p.steps[j].id \in StepId
  BY DEF Plan, Step
<1>2. \A j \in Positions : q.steps[j].id = IF j < i THEN p.steps[j].id ELSE Rename(p.steps[j].id, v)
  BY Zenon DEF RollbackRetry
<1>3. NumbersKept(q)
  BY ReplanNumbers, Zenon DEF Ordered
<1>4. ASSUME NEW j \in Positions, NEW d \in q.steps[j].deps
      PROVE  \E k \in Positions : k < j /\ d = q.steps[k].id
  <2>1. CASE j < i
    <3>1. d \in p.steps[j].deps
      BY <2>1, Zenon DEF RollbackRetry
    <3>2. PICK k \in Positions : k < j /\ d = p.steps[k].id
      BY <3>1, Zenon DEF Ordered, DependsBackward
    <3> QED BY <2>1, <3>2, <1>2, PositionsAre
  <2>2. CASE ~(j < i)
    <3>1. PICK c \in p.steps[j].deps : d = IF c \in suffix THEN Rename(c, v) ELSE c
      BY <2>2, Zenon DEF RollbackRetry
    <3>2. PICK k \in Positions : k < j /\ c = p.steps[k].id
      BY Zenon DEF Ordered, DependsBackward
    <3>3. c \in suffix <=> k >= i
      BY <3>2, UniqueIds, Zenon DEF Ordered, OrderedTemplate
    <3>4. k \in Int /\ i \in Int
      BY PositionsAre
    <3>5. q.steps[k].id = IF k < i THEN p.steps[k].id ELSE Rename(p.steps[k].id, v)
      BY <1>2, Zenon
    <3>6. k < i <=> ~(k >= i)
      <4> HIDE DEF q, v, suffix
      <4> QED BY <3>4
    <3>7. d = q.steps[k].id
      <4> HIDE DEF q, v, suffix
      <4>1. CASE k < i
        BY <3>1, <3>2, <3>3, <3>5, <3>6, <4>1, Zenon
      <4>2. CASE k >= i
        BY <3>1, <3>2, <3>3, <3>5, <3>6, <4>2, Zenon
      <4> QED BY <3>6, <4>1, <4>2, Zenon
    <3> QED BY <3>2, <3>7, Zenon
  <2> QED BY <2>1, <2>2, Zenon
<1>5. DependsBackward(q)
  <2> HIDE DEF q
  <2> QED BY <1>4, Zenon DEF DependsBackward
<1> QED
  BY <1>3, <1>5, Zenon DEF Ordered

LEMMA NextOrdered ==
    ASSUME OrderedTemplate
    PROVE  TypeInv /\ PlansOrdered /\ [Next]_vars => PlansOrdered'
<1> SUFFICES ASSUME TypeInv, PlansOrdered, [Next]_vars PROVE PlansOrdered'
  BY Zenon
<1>y. plan \in [Executions -> Plan]
  BY Zenon DEF TypeInv, TypeOK
<1>1. ASSUME NEW e \in Executions, NEW p, plan' = [plan EXCEPT ![e] = p], Ordered(p)
      PROVE  PlansOrdered'
  BY <1>1, <1>y, Zenon DEF PlansOrdered
<1>2. \A e \in Executions, i \in Positions :
         Ordered(LocalReplace(plan[e], i)) /\ Ordered(RollbackRetry(plan[e], i))
  BY <1>y, LocalReplaceOrdered, RollbackRetryOrdered, Zenon DEF PlansOrdered
<1>3. CASE UNCHANGED plan
  BY <1>3, Zenon DEF PlansOrdered
<1> QED BY <1>1, <1>2, <1>3, PlanChanges, Zenon

-----------------------------------------------------------------------------
(* A success of the current plan version is in completed_steps or is the   *)
(* result of a worker of the batch: nothing calls its tool again.          *)

\* Position i of the batch of e was answered with success.
Answered(e, i) ==
    i \in batch[e] /\ thread[e][i].pc = "done" /\ thread[e][i].result = "success"

Accounted(e, k) ==
    \/ k.step \in completed[e]
    \/ phase[e] = "batch" /\ \E i \in Positions : Answered(e, i) /\ plan[e].steps[i].id = k.step

\* Keys of older versions cannot match; those of the current one are accounted for
\* until the execution returns.
SuccessesAccounted ==
    \A e \in Executions, k \in Key :
        <<e, k>> \in succeeded =>
            /\ phase[e] # "new"
            /\ k.version <= plan[e].version
            /\ k.version = plan[e].version /\ phase[e] # "returned" => Accounted(e, k)

\* Only steps that are not completed are dispatched.
BatchIsPending ==
    \A e \in Executions : phase[e] = "batch" =>
        \A i \in batch[e] : plan[e].steps[i].id \notin completed[e]

RepeatInv == SuccessesAccounted /\ BatchIsPending

LEMMA ReplanVersion ==
    ASSUME NEW p, NEW i, NEW code
    PROVE  /\ RollbackRetry(p, i).version = p.version + 1
           /\ Replan(p, i, code).version = p.version + 1
BY Zenon DEF RollbackRetry, LocalReplace, Replan

LEMMA ExecuteRepeat ==
    ASSUME TypeInv, RepeatInv, NEW x \in Executions, Start(x) \/ ExecuteStep(x)
    PROVE  RepeatInv'
<1> USE DEF RepeatInv
<1>y. /\ phase \in [Executions -> {"new", "loop", "batch", "returned"}]
      /\ plan \in [Executions -> Plan]
      /\ completed \in [Executions -> SUBSET StepId]
      /\ batch \in [Executions -> SUBSET Positions]
      /\ thread \in [Executions -> [Positions -> ThreadState]]
      /\ plan[x].version \in Nat
      /\ \A k \in Key : k.version \in Nat
  BY Zenon DEF TypeInv, TypeOK, Plan, Key
<1>s. UNCHANGED succeeded
  BY DEF Start, ExecuteStep, LoopCancelled, LoopTimedOut, LoopFinished, LoopBlockedReplan,
         LoopBlockedFail, LoopDispatch, BatchSucceeded, BatchReplan, BatchFailed
<1>o. \A e \in Executions : e # x =>
         /\ phase'[e] = phase[e]
         /\ plan'[e] = plan[e]
         /\ completed'[e] = completed[e]
         /\ batch'[e] = batch[e]
         /\ thread'[e] = thread[e]
  <2>1. CASE Start(x)
    BY <2>1, <1>y, Zenon DEF Start
  <2>2. CASE LoopCancelled(x) \/ LoopTimedOut(x) \/ LoopFinished(x) \/ LoopBlockedFail(x)
    BY <2>2, <1>y, Zenon DEF LoopCancelled, LoopTimedOut, LoopFinished, LoopBlockedFail, Return
  <2>3. CASE LoopBlockedReplan(x)
    BY <2>3, <1>y, Zenon DEF LoopBlockedReplan, Install
  <2>4. CASE LoopDispatch(x)
    BY <2>4, <1>y, Zenon DEF LoopDispatch
  <2>5. CASE BatchSucceeded(x) \/ BatchReplan(x) \/ BatchFailed(x)
    BY <2>5, <1>y, Zenon DEF BatchSucceeded, BatchReplan, BatchFailed, MergeBefore, Install, Return
  <2> QED BY <2>1, <2>2, <2>3, <2>4, <2>5, Zenon DEF ExecuteStep
\* It is enough to look at the execution that takes the step.
<1>p. ASSUME phase'[x] # "new",
             \A k \in Key : <<x, k>> \in succeeded =>
                 /\ k.version <= plan'[x].version
                 /\ k.version = plan'[x].version /\ phase'[x] # "returned" => Accounted(x, k)',
             phase'[x] = "batch" => \A i \in batch'[x] : plan'[x].steps[i].id \notin completed'[x]
      PROVE  RepeatInv'
  <2>1. ASSUME NEW e \in Executions, NEW k \in Key, <<e, k>> \in succeeded
        PROVE  /\ phase'[e] # "new"
               /\ k.version <= plan'[e].version
               /\ k.version = plan'[e].version /\ phase'[e] # "returned" => Accounted(e, k)'
    <3>1. CASE e = x
      BY <1>p, <2>1, <3>1, Zenon
    <3>2. CASE e # x
      BY <1>o, <2>1, <3>2 DEF SuccessesAccounted, Accounted, Answered
    <3> QED BY <3>1, <3>2, Zenon
  <2>2. SuccessesAccounted'
    BY <2>1, <1>s, Zenon DEF SuccessesAccounted
  <2>3. BatchIsPending'
    BY <1>p, <1>o, Zenon DEF BatchIsPending
  <2> QED BY <2>2, <2>3, Zenon
<1>b. \A k \in Key : <<x, k>> \in succeeded => k.version <= plan[x].version
  BY Zenon DEF SuccessesAccounted
<1>1. CASE Start(x)
  <2>1. phase'[x] = "loop" /\ \A k \in Key : <<x, k>> \notin succeeded
    BY <1>1, <1>y, Zenon DEF Start, SuccessesAccounted
  <2> QED BY <2>1, <1>p, Zenon
<1>2. CASE phase'[x] = "returned" /\ UNCHANGED plan
  BY <1>2, <1>b, <1>p, Zenon
<1>3. ASSUME NEW p, Install(x, p), p.version = plan[x].version + 1 PROVE RepeatInv'
  <2>1. phase'[x] = "loop" /\ plan'[x] = p
    BY <1>3, <1>y, Zenon DEF Install
  <2>2. \A k \in Key : <<x, k>> \in succeeded =>
            k.version <= plan'[x].version /\ k.version # plan'[x].version
    BY <2>1, <1>3, <1>b, <1>y
  <2> QED BY <2>1, <2>2, <1>p, Zenon
<1>4. CASE LoopBlockedReplan(x) \/ BatchReplan(x)
  BY <1>3, <1>4, ReplanVersion, Zenon DEF LoopBlockedReplan, BatchReplan
<1>5. CASE LoopDispatch(x)
  <2>1. /\ phase[x] = "loop" /\ phase'[x] = "batch"
        /\ UNCHANGED <<plan, completed>>
        /\ batch'[x] = First(ReadySteps(x), MaxParallel)
    BY <1>5, <1>y, Zenon DEF LoopDispatch, LoopGoesOn
  <2>2. \A i \in batch'[x] : plan'[x].steps[i].id \notin completed'[x]
    BY <2>1, Zenon DEF First, ReadySteps, PendingSteps
  <2>3. \A k \in Key : <<x, k>> \in succeeded /\ k.version = plan[x].version => Accounted(x, k)'
    BY <2>1, Zenon DEF SuccessesAccounted, Accounted
  <2> QED BY <2>1, <2>2, <2>3, <1>b, <1>p, Zenon
<1>6. CASE BatchSucceeded(x)
  <2>1. /\ phase[x] = "batch" /\ phase'[x] = "loop"
        /\ UNCHANGED plan
        /\ completed'[x] = completed[x] \cup
              {plan[x].steps[i].id : i \in {j \in batch[x] : j < Len(Template) + 1}}
    BY <1>6, <1>y, Zenon DEF BatchSucceeded, BatchJoined, MergeBefore
  <2>2. \A i \in batch[x] : i < Len(Template) + 1
    BY <1>y, PositionsAre
  <2>3. \A k \in Key : <<x, k>> \in succeeded /\ k.version = plan[x].version => k.step \in completed'[x]
    <3>1. ASSUME NEW k \in Key, <<x, k>> \in succeeded, k.version = plan[x].version
          PROVE  k.step \in completed[x] \/ \E i \in batch[x] : plan[x].steps[i].id = k.step
      BY <2>1, <3>1, Zenon DEF SuccessesAccounted, Accounted, Answered
    <3> QED BY <2>1, <2>2, <3>1, Zenon
  <2> QED BY <2>1, <2>3, <1>b, <1>p, Zenon DEF Accounted
<1>7. CASE BatchFailed(x) \/ LoopCancelled(x) \/ LoopTimedOut(x) \/ LoopFinished(x) \/ LoopBlockedFail(x)
  BY <1>2, <1>7, <1>y, Zenon DEF BatchFailed, LoopCancelled, LoopTimedOut, LoopFinished, LoopBlockedFail, Return
<1> QED
  BY <1>1, <1>4, <1>5, <1>6, <1>7, Zenon DEF ExecuteStep

\* A worker that records a success is done with it, and a worker that is done
\* takes no further step.
LEMMA WorkerRepeat ==
    ASSUME TypeInv, RepeatInv, NEW x \in Executions, NEW n \in Positions, WorkerStep(x, n)
    PROVE  RepeatInv'
<1> USE DEF RepeatInv
<1>y. /\ thread \in [Executions -> [Positions -> ThreadState]]
      /\ plan \in [Executions -> Plan]
      /\ plan[x].version \in Nat
  BY Zenon DEF TypeInv, TypeOK, Plan
<1>w. /\ UNCHANGED <<phase, plan, completed, batch>>
      /\ phase[x] = "batch" /\ n \in batch[x] /\ thread[x][n].pc # "done"
  BY DEF WorkerStep, StepSkip, StepEnter, StepCancelled, StepAttempt, StepRefused, StepRaises,
         StepInvoke, StepSucceeds, StepFails, StepRetryable, Worker, workerFrame
<1>1. \A e \in Executions, i \in Positions : Answered(e, i) => Answered(e, i)'
  <2>1. PICK u : SetThread(x, n, u)
    BY Zenon DEF WorkerStep, StepSkip, StepEnter, StepCancelled, StepAttempt, StepRefused, StepRaises,
                 StepInvoke, StepSucceeds, StepFails, StepRetryable, ThreadDone
  <2>2. \A e \in Executions : e # x => thread'[e] = thread[e]
    BY <2>1, <1>y, Zenon DEF SetThread
  <2>3. thread'[x] = [thread[x] EXCEPT ![n] = u] /\ thread[x] \in [Positions -> ThreadState]
    BY <2>1, <1>y, Zenon DEF SetThread
  <2> QED BY <2>2, <2>3, <1>w, Zenon DEF Answered
<1>2. \A e \in Executions, k \in Key : Accounted(e, k) => Accounted(e, k)'
  BY <1>1, <1>w, Zenon DEF Accounted
<1>3. BatchIsPending'
  BY <1>w, Zenon DEF BatchIsPending
<1>4. CASE UNCHANGED succeeded
  BY <1>2, <1>3, <1>4, <1>w, Zenon DEF SuccessesAccounted
<1>5. CASE StepSucceeds(x, n)
  <2>1. succeeded' = succeeded \cup {<<x, IdempotencyKey(x, n)>>}
    BY <1>5, Zenon DEF StepSucceeds
  <2>2. Answered(x, n)'
    <3>1. thread'[x][n] = [thread[x][n] EXCEPT !.pc = "done", !.result = "success"]
      <4>1. thread' = [thread EXCEPT ![x][n] = [thread[x][n] EXCEPT !.pc = "done", !.result = "success"]]
        BY <1>5, Zenon DEF StepSucceeds, ThreadDone, SetThread
      <4> QED BY <4>1, <1>y, Zenon
    <3>2. thread[x][n] \in ThreadState
      BY <1>y, Zenon
    <3> QED BY <3>1, <3>2, <1>w, Zenon DEF Answered, ThreadState
  <2>3. /\ IdempotencyKey(x, n).step = plan[x].steps[n].id
        /\ IdempotencyKey(x, n).version = plan[x].version
    BY Zenon DEF IdempotencyKey
  <2>4. SUFFICES ASSUME NEW e \in Executions, NEW k \in Key, <<e, k>> \in succeeded'
                 PROVE  /\ phase[e] # "new"
                        /\ k.version <= plan[e].version
                        /\ k.version = plan[e].version /\ phase[e] # "returned" => Accounted(e, k)'
    BY <1>3, <1>w, Zenon DEF SuccessesAccounted
  <2>5. CASE <<e, k>> \in succeeded
    BY <2>5, <1>2, Zenon DEF SuccessesAccounted
  <2>6. CASE e = x /\ k = IdempotencyKey(x, n)
    <3>1. k.version <= plan[e].version
      BY <2>3, <2>6, <1>y
    <3>2. Accounted(e, k)'
      BY <2>2, <2>3, <2>6, <1>w, Zenon DEF Accounted
    <3> QED BY <2>6, <3>1, <3>2, <1>w, Zenon
  <2> QED BY <2>1, <2>4, <2>5, <2>6, Zenon
<1> QED
  BY <1>4, <1>5 DEF WorkerStep, StepSkip, StepEnter, StepCancelled, StepAttempt, StepRefused,
     StepRaises, StepInvoke, StepFails, StepRetryable

LEMMA NextRepeat == TypeInv /\ RepeatInv /\ [Next]_vars => RepeatInv'
<1> SUFFICES ASSUME TypeInv, RepeatInv, [Next]_vars PROVE RepeatInv'
  BY Zenon
<1>1. CASE \/ MarkCancelRequested
           \/ \E e \in Executions : RequestCancel(e) \/ SessionTimeout(e)
           \/ UNCHANGED vars
  <2>1. UNCHANGED <<phase, plan, completed, batch, thread, succeeded>>
    BY <1>1, Zenon DEF MarkCancelRequested, RequestCancel, SessionTimeout, vars, store, envFrame
  <2> QED
    BY <2>1 DEF RepeatInv, SuccessesAccounted, BatchIsPending, Accounted, Answered
<1> QED
  BY <1>1, ExecuteRepeat, WorkerRepeat, Zenon DEF Next, AllReturned

\* With distinct step numbers, one execution never calls a tool under an idempotency
\* key it has recorded a success for, whatever was replanned, dropped or run in
\* parallel in between.
THEOREM NeverRepeated ==
    ASSUME DistinctNumbers
    PROVE  Spec => []NoRepeatWithinExecution
<1>1. Init => RepeatInv
  BY Zenon DEF Init, RepeatInv, SuccessesAccounted, BatchIsPending
<1>2. ASSUME TypeInv, PlansNumbered, RepeatInv PROVE NoRepeatWithinExecution
  <2>1. SUFFICES ASSUME NEW e \in Executions, NEW i \in Positions, Worker(e, i, "waiting"),
                        <<e, IdempotencyKey(e, i)>> \in succeeded
                 PROVE  FALSE
    BY Zenon DEF NoRepeatWithinExecution
  <2>2. IdempotencyKey(e, i) \in Key
    BY <1>2, KeyType, Zenon DEF TypeInv
  <2>3. phase[e] = "batch" /\ i \in batch[e] /\ thread[e][i].pc = "waiting"
    BY <2>1, Zenon DEF Worker
  <2>4. /\ IdempotencyKey(e, i).step = plan[e].steps[i].id
        /\ IdempotencyKey(e, i).version = plan[e].version
    BY Zenon DEF IdempotencyKey
  <2>5. Accounted(e, IdempotencyKey(e, i))
    BY <1>2, <2>1, <2>2, <2>3, <2>4, Zenon DEF RepeatInv, SuccessesAccounted
  <2>6. plan[e].steps[i].id \notin completed[e]
    BY <1>2, <2>3, Zenon DEF RepeatInv, BatchIsPending
  <2>7. PICK j \in Positions : Answered(e, j) /\ plan[e].steps[j].id = plan[e].steps[i].id
    BY <2>4, <2>5, <2>6, Zenon DEF Accounted
  <2>8. j = i
    <3>1. plan[e] \in Plan /\ NumbersKept(plan[e])
      BY <1>2, Zenon DEF TypeInv, TypeOK, PlansNumbered
    <3> QED BY <2>7, <3>1, UniqueIds, Zenon
  <2> QED BY <2>3, <2>7, <2>8, Zenon DEF Answered
<1> QED
  BY <1>1, <1>2, InitType, NextType, InitNumbered, NextNumbered, NextRepeat, PTL DEF Spec
=============================================================================
