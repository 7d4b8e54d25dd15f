-------------------------- MODULE PlanOutcomeProofs -------------------------
(***************************************************************************)
(* What PlanExecutor answers is earned, a plan in dependency order is      *)
(* never blocked, a cancel request stops the calls, and the attempts of a  *)
(* step stay within their budget.  Unlike those of PlanExecutorProofs,     *)
(* these facts count positions and attempts.                               *)
(***************************************************************************)
EXTENDS PlanExecutorProofs, FiniteSetTheorems, WellFoundedInduction

-----------------------------------------------------------------------------
(* The ready list.                                                         *)

\* A set of positions is finite.
LEMMA PositionsFinite ==
    /\ Positions = 1 .. Len(Template)
    /\ Len(Template) \in Nat
    /\ \A S \in SUBSET Positions : IsFiniteSet(S)
<1>1. Positions = 1 .. Len(Template) /\ Len(Template) \in Nat
  BY TemplateAssumption DEF Positions
<1>2. IsFiniteSet(Positions)
  BY <1>1, FS_Interval
<1> QED
  BY <1>1, <1>2, FS_Subset, Zenon

\* First(S, 1) holds only the smallest element of S: the first failed step of a
\* batch comes before every other failed one.
LEMMA FirstIsSmallest ==
    ASSUME NEW S \in SUBSET Positions, NEW i \in First(S, 1)
    PROVE  i \in S /\ \A j \in S : ~(j < i)
<1> DEFINE below == {j \in S : j < i}
<1>1. i \in S /\ Cardinality(below) < 1
  BY Zenon DEF First
<1>2. IsFiniteSet(below)
  BY PositionsFinite, Zenon
<1>3. Cardinality(below) \in Nat
  BY <1>2, FS_CardinalityType, Zenon
<1>4. below = {}
  BY <1>1, <1>2, <1>3, FS_EmptySet
<1> QED
  BY <1>1, <1>4, Zenon

\* A nonempty set of positions has a smallest one.
LEMMA SmallestPosition ==
    ASSUME NEW S \in SUBSET Positions, S # {}
    PROVE  \E i \in S : \A j \in S : ~(j < i)
<1>1. S \subseteq Nat
  BY PositionsFinite
<1>2. PICK i \in S : \A j \in S : ~(<<j, i>> \in OpToRel(<, Nat))
  BY <1>1, NatLessThanWellFounded, WFMin, Zenon
<1>3. \A j \in S : ~(j < i)
  BY <1>1, <1>2, Zenon DEF OpToRel
<1> QED
  BY <1>3, Zenon

-----------------------------------------------------------------------------
(* Dependencies and answers.  What the store, completed_steps, the workers  *)
(* and the answer claim to have succeeded is in the history of successes.   *)

StoreEarned ==
    \A id \in DOMAIN stepState : stepState[id].status = "SUCCESS" => id \in EverSucceeded

CompletedEarned == \A e \in Executions : completed[e] \subseteq EverSucceeded

\* The steps of a running batch had every dependency completed when dispatched,
\* and a worker that reports success has a recorded success behind it.
BatchEarned ==
    \A e \in Executions : phase[e] = "batch" =>
        \A i \in batch[e] :
            /\ plan[e].steps[i].deps \subseteq completed[e]
            /\ thread[e][i].result = "success" => plan[e].steps[i].id \in EverSucceeded

AnswerEarned ==
    \A e \in Executions :
        response[e] = "success" => phase[e] = "returned" /\ IdsOf(plan[e]) \subseteq completed[e]

Earned == TypeInv /\ StoreEarned /\ CompletedEarned /\ BatchEarned /\ AnswerEarned

LEMMA InitEarned == Init => Earned
BY InitType, Zenon DEF Init, Earned, StoreEarned, CompletedEarned, BatchEarned, AnswerEarned

\* Registering the steps of a plan adds PENDING records only.
LEMMA UpsertEarned ==
    ASSUME Earned, NEW p, stepState' = UpsertPlanSteps(p), UNCHANGED succeeded
    PROVE  StoreEarned'
<1>1. \A id \in DOMAIN stepState' :
         stepState'[id].status = "SUCCESS" => id \in DOMAIN stepState /\ stepState'[id] = stepState[id]
  BY Zenon DEF UpsertPlanSteps, NewStep
<1> QED
  BY <1>1, Zenon DEF Earned, StoreEarned, EverSucceeded

LEMMA ExecuteEarned ==
    ASSUME Earned, NEW e \in Executions, Start(e) \/ ExecuteStep(e)
    PROVE  Earned'
<1> USE DEF Earned
<1>t. TypeInv'
  BY ExecuteType, Zenon
<1>s. UNCHANGED succeeded
  BY DEF Start, ExecuteStep, LoopCancelled, LoopTimedOut, LoopFinished, LoopBlockedReplan,
         LoopBlockedFail, LoopDispatch, BatchSucceeded, BatchReplan, BatchFailed
<1>n. EverSucceeded' = EverSucceeded
  BY <1>s, Zenon DEF EverSucceeded
<1>y. /\ phase \in [Executions -> {"new", "loop", "batch", "returned"}]
      /\ completed \in [Executions -> SUBSET StepId]
      /\ batch \in [Executions -> SUBSET Positions]
      /\ plan \in [Executions -> Plan]
      /\ response \in [Executions -> Responses]
  BY Zenon DEF TypeInv, TypeOK
<1>1. CASE Start(e)
  <2>1. StoreEarned'
    BY <1>1, <1>s, UpsertEarned, Zenon DEF Start
  <2>2. completed'[e] \subseteq EverSucceeded
    BY <1>1, <1>n, <1>y, <2>1, Zenon DEF Start, RecoveryPoint, StoreEarned
  <2>3. CompletedEarned'
    BY <1>1, <1>n, <1>y, <2>2, Zenon DEF Start, CompletedEarned
  <2>4. BatchEarned'
    BY <1>1, <1>n, <1>y, Zenon DEF Start, BatchEarned
  <2>5. AnswerEarned'
    BY <1>1, <1>y, Zenon DEF Start, AnswerEarned, IdsOf
  <2> QED BY <1>t, <2>1, <2>3, <2>4, <2>5, Zenon
<1>2. ASSUME NEW status, NEW code, Return(e, status, code),
             UNCHANGED <<stepState, plan, batch, thread>>,
             phase[e] # "returned", CompletedEarned',
             \A f \in Executions : completed[f] \subseteq completed'[f],
             code = "success" => IdsOf(plan[e]) \subseteq completed[e]
      PROVE  Earned'
  <2>1. StoreEarned'
    BY <1>2, <1>n, Zenon DEF StoreEarned
  <2>2. BatchEarned'
    <3>1. \A f \in Executions : phase'[f] = "batch" => f # e /\ phase[f] = "batch"
      BY <1>2, <1>y, Zenon DEF Return
    <3> QED BY <3>1, <1>2, <1>n, Zenon DEF BatchEarned
  <2>3. AnswerEarned'
    <3>1. phase'[e] = "returned" /\ response'[e] = code
      BY <1>2, <1>y, Zenon DEF Return
    <3>2. \A f \in Executions \ {e} : phase'[f] = phase[f] /\ response'[f] = response[f]
      BY <1>2, <1>y, Zenon DEF Return
    <3> QED BY <3>1, <3>2, <1>2 DEF AnswerEarned, IdsOf
  <2> QED BY <1>t, <1>2, <2>1, <2>2, <2>3, Zenon
<1>3. CASE LoopCancelled(e) \/ LoopTimedOut(e) \/ LoopFinished(e) \/ LoopBlockedFail(e)
  <2>1. phase[e] # "returned" /\ UNCHANGED <<stepState, plan, batch, thread, completed>>
    BY <1>3, Zenon DEF LoopCancelled, LoopTimedOut, LoopFinished, LoopBlockedFail, LoopGoesOn
  <2>2. CompletedEarned'
    BY <2>1, <1>n, Zenon DEF CompletedEarned
  <2>3. PendingSteps(e) = {} => IdsOf(plan[e]) \subseteq completed[e]
    BY Zenon DEF PendingSteps, IdsOf
  <2>4. \E status, code : Return(e, status, code)
                           /\ (code = "success" => IdsOf(plan[e]) \subseteq completed[e])
    BY <1>3, <2>3, Zenon DEF LoopCancelled, LoopTimedOut, LoopFinished, LoopBlockedFail
  <2> QED BY <1>2, <2>1, <2>2, <2>4, Zenon
\* A replan: the merged results are successes, and no batch is running after it.
<1>4. ASSUME NEW p, Install(e, p), CompletedEarned', UNCHANGED <<batch, thread, response>>,
             \A f \in Executions \ {e} : completed'[f] = completed[f],
             phase[e] # "returned"
      PROVE  Earned'
  <2>1. StoreEarned'
    BY <1>4, <1>s, UpsertEarned, Zenon DEF Install
  <2>2. /\ phase'[e] = "loop"
        /\ \A f \in Executions \ {e} : phase'[f] = phase[f] /\ plan'[f] = plan[f]
    BY <1>4, <1>y, Zenon DEF Install
  <2>3. BatchEarned'
    BY <1>4, <2>2, <1>n, Zenon DEF BatchEarned
  <2>4. AnswerEarned'
    <3>1. response'[e] # "success"
      BY <1>4, Zenon DEF AnswerEarned
    <3>2. \A f \in Executions \ {e} :
             /\ response'[f] = response[f] /\ phase'[f] = phase[f]
             /\ plan'[f] = plan[f] /\ completed'[f] = completed[f]
      BY <1>4, <2>2, Zenon
    <3> QED BY <3>1, <3>2 DEF AnswerEarned, IdsOf
  <2> QED BY <1>t, <1>4, <2>1, <2>3, <2>4, Zenon
<1>5. CASE LoopBlockedReplan(e)
  <2>1. PICK i : Install(e, RollbackRetry(plan[e], i))
    BY <1>5, Zenon DEF LoopBlockedReplan
  <2>2. CompletedEarned'
    BY <1>5, <1>n, Zenon DEF LoopBlockedReplan, CompletedEarned
  <2> QED BY <1>4, <1>5, <2>1, <2>2, Zenon DEF LoopBlockedReplan, LoopGoesOn
<1>6. CASE LoopDispatch(e)
  <2>1. /\ batch'[e] \subseteq ReadySteps(e)
        /\ \A i \in batch'[e] : thread'[e][i].result = "none"
    <3>1. batch'[e] \subseteq ReadySteps(e) /\ batch'[e] \subseteq Positions
      BY <1>6, <1>y, Zenon DEF LoopDispatch, First, ReadySteps, PendingSteps
    <3>2. \A i \in batch'[e] : thread'[e][i] = [IdleThread EXCEPT !.pc = "start"]
      BY <1>6, <3>1, Zenon DEF LoopDispatch, TypeInv, TypeOK
    <3> QED BY <3>1, <3>2, Zenon DEF IdleThread
  <2>2. \A f \in Executions \ {e} : /\ phase'[f] = phase[f]
                                    /\ batch'[f] = batch[f]
                                    /\ thread'[f] = thread[f]
    BY <1>6, <1>y, Zenon DEF LoopDispatch, TypeInv, TypeOK
  <2>3. BatchEarned'
    <3>1. UNCHANGED <<plan, completed>> /\ EverSucceeded' = EverSucceeded
      BY <1>6, Zenon DEF LoopDispatch, EverSucceeded
    <3>2. \A i \in batch'[e] : plan[e].steps[i].deps \subseteq completed[e]
      BY <2>1, Zenon DEF ReadySteps
    <3> QED BY <1>n, <2>1, <2>2, <3>1, <3>2 DEF BatchEarned
  <2>4. StoreEarned' /\ CompletedEarned'
    BY <1>6, <1>n, Zenon DEF LoopDispatch, store, StoreEarned, CompletedEarned
  <2>5. AnswerEarned'
    BY <1>6, <2>2 DEF LoopDispatch, LoopGoesOn, AnswerEarned, IdsOf
  <2> QED BY <1>t, <2>3, <2>4, <2>5, Zenon
<1>m. ASSUME NEW n, MergeBefore(e, n), phase[e] = "batch",
             \A j \in batch[e] : j < n => thread[e][j].result = "success"
      PROVE  /\ CompletedEarned'
             /\ \A f \in Executions \ {e} : completed'[f] = completed[f]
             /\ completed[e] \subseteq completed'[e]
  <2>1. completed'[e] = completed[e] \cup {plan[e].steps[i].id : i \in {j \in batch[e] : j < n}}
        /\ \A f \in Executions \ {e} : completed'[f] = completed[f]
    BY <1>m, <1>y, Zenon DEF MergeBefore
  <2>2. {plan[e].steps[i].id : i \in {j \in batch[e] : j < n}} \subseteq EverSucceeded
    BY <1>m, Zenon DEF BatchEarned
  <2>3. completed'[e] \subseteq EverSucceeded
    BY <2>1, <2>2, Zenon DEF CompletedEarned
  <2> QED BY <2>1, <2>3, <1>n, Zenon DEF CompletedEarned
<1>7. CASE BatchSucceeded(e)
  <2>1. phase[e] = "batch" /\ \A j \in batch[e] : thread[e][j].result = "success"
    BY <1>7, Zenon DEF BatchSucceeded, BatchJoined, FailedSteps
  <2>2. /\ CompletedEarned'
        /\ \A f \in Executions \ {e} : completed'[f] = completed[f]
    BY <1>7, <2>1, <1>m, Zenon DEF BatchSucceeded
  <2>3. phase'[e] = "loop" /\ \A f \in Executions \ {e} : phase'[f] = phase[f]
    BY <1>7, <1>y, Zenon DEF BatchSucceeded
  <2>4. BatchEarned'
    BY <1>7, <1>n, <2>2, <2>3, Zenon DEF BatchSucceeded, BatchEarned
  <2>5. AnswerEarned'
    BY <1>7, <2>1, <2>2, <2>3, Zenon DEF BatchSucceeded, AnswerEarned, IdsOf
  <2>6. StoreEarned'
    BY <1>7, <1>n, Zenon DEF BatchSucceeded, store, StoreEarned
  <2> QED BY <1>t, <2>2, <2>4, <2>5, <2>6, Zenon
<1>8. CASE BatchReplan(e) \/ BatchFailed(e)
  <2>1. FailedSteps(e) \in SUBSET Positions /\ phase[e] = "batch"
    BY <1>8, <1>y, Zenon DEF FailedSteps, BatchReplan, BatchFailed, BatchJoined
  <2>2. PICK i \in First(FailedSteps(e), 1) :
          /\ MergeBefore(e, i)
          /\ \/ /\ BatchReplan(e)
                /\ Install(e, Replan(plan[e], i, thread[e][i].result))
             \/ /\ BatchFailed(e)
                /\ Return(e, "FAILED", thread[e][i].result)
    BY <1>8, Zenon DEF BatchReplan, BatchFailed
  <2>3. i \in FailedSteps(e) /\ \A j \in FailedSteps(e) : ~(j < i)
    BY <2>1, <2>2, FirstIsSmallest, Zenon
  <2>4. \A j \in batch[e] : j < i => thread[e][j].result = "success"
    BY <2>3, Zenon DEF FailedSteps
  <2>5. /\ CompletedEarned'
        /\ \A f \in Executions \ {e} : completed'[f] = completed[f]
        /\ completed[e] \subseteq completed'[e]
    BY <2>1, <2>2, <2>4, <1>m, Zenon
  <2>6. CASE BatchReplan(e) /\ Install(e, Replan(plan[e], i, thread[e][i].result))
    BY <2>1, <2>5, <2>6, <1>4, Zenon DEF BatchReplan
  <2>7. CASE BatchFailed(e) /\ Return(e, "FAILED", thread[e][i].result)
    <3>1. thread[e][i].result # "success"
      BY <2>3, Zenon DEF FailedSteps
    <3> QED BY <2>1, <2>5, <2>7, <3>1, <1>2, Zenon DEF BatchFailed
  <2> QED BY <2>2, <2>6, <2>7, Zenon
<1> QED
  BY <1>1, <1>3, <1>5, <1>6, <1>7, <1>8, Zenon DEF ExecuteStep

LEMMA WorkerEarned ==
    ASSUME Earned, StepsRegistered, NEW e \in Executions, NEW i \in Positions, WorkerStep(e, i)
    PROVE  Earned'
<1> DEFINE id == plan[e].steps[i].id
           t  == thread[e][i]
<1> USE DEF Earned
<1>t. TypeInv'
  BY WorkerType, Zenon
<1>w. UNCHANGED workerFrame /\ phase[e] = "batch" /\ i \in batch[e]
  BY DEF WorkerStep, StepSkip, StepEnter, StepCancelled, StepAttempt, StepRefused, StepRaises,
         StepInvoke, StepSucceeds, StepFails, StepRetryable, Worker
<1>c. EverSucceeded \subseteq EverSucceeded' => CompletedEarned' /\ AnswerEarned'
  BY <1>w, Zenon DEF workerFrame, CompletedEarned, AnswerEarned, IdsOf
\* The worker's record and thread are all that changes.
<1>p. ASSUME NEW r, NEW u, EverSucceeded \subseteq EverSucceeded',
             stepState' = stepState \/ SetStep(e, i, r), SetThread(e, i, u),
             r.status = "SUCCESS" => id \in EverSucceeded',
             u.result = "success" => id \in EverSucceeded'
      PROVE  Earned'
  <2>1. StoreEarned'
    <3>1. DOMAIN stepState' = DOMAIN stepState
      BY <1>p, Zenon DEF SetStep
    <3>2. \A x \in DOMAIN stepState : stepState'[x] = stepState[x] \/ (x = id /\ stepState'[x] = r)
      BY <1>p, Zenon DEF SetStep
    <3>3. SUFFICES ASSUME NEW x \in DOMAIN stepState, stepState'[x].status = "SUCCESS"
                   PROVE  x \in EverSucceeded'
      BY <3>1, Zenon DEF StoreEarned
    <3>4. CASE stepState'[x] = stepState[x]
      BY <3>3, <3>4, <1>p, Zenon DEF StoreEarned
    <3>5. CASE x = id /\ stepState'[x] = r
      BY <3>3, <3>5, <1>p, Zenon
    <3> QED BY <3>2, <3>4, <3>5, Zenon
  <2>2. BatchEarned'
    <3>1. \A f \in Executions, j \in Positions :
             thread'[f][j] = thread[f][j] \/ (f = e /\ j = i /\ thread'[f][j] = u)
      BY <1>p, Zenon DEF SetThread, TypeInv, TypeOK
    <3>2. \A f \in Executions : batch[f] \subseteq Positions
      BY Zenon DEF TypeInv, TypeOK
    <3> QED BY <3>1, <3>2, <1>p, <1>w DEF BatchEarned, workerFrame
  <2> QED BY <1>t, <1>c, <1>p, <2>1, <2>2, Zenon
<1>q. ASSUME UNCHANGED succeeded PROVE EverSucceeded' = EverSucceeded
  BY <1>q, Zenon DEF EverSucceeded
<1>r. id \in DOMAIN stepState /\ stepState[id] \in StepRecord
  BY <1>w, Zenon DEF StepsRegistered, IdsOf, TypeInv, TypeOK
<1>u. t \in ThreadState
  BY Zenon DEF TypeInv, TypeOK
<1>v. t.result = "success" => id \in EverSucceeded
  BY <1>w, Zenon DEF BatchEarned
<1>1. CASE StepSkip(e, i)
  <2>1. id \in EverSucceeded
    BY <1>1, <1>r, Zenon DEF StepSkip, ShouldSkipStep, StoreEarned
  <2> QED BY <1>1, <1>p, <1>q, <2>1, Zenon DEF StepSkip, ThreadDone
\* A worker that does not record a success.
<1>n. ASSUME UNCHANGED succeeded, NEW u \in ThreadState, SetThread(e, i, u),
             u.result = "success" => t.result = "success",
             NEW r \in StepRecord, r.status # "SUCCESS",
             stepState' = stepState \/ SetStep(e, i, r)
      PROVE  Earned'
  BY <1>n, <1>p, <1>q, <1>v, Zenon
<1>d. ASSUME NEW code, code # "success", code \in ResultCodes
      PROVE  /\ [t EXCEPT !.pc = "done", !.result = code] \in ThreadState
             /\ [t EXCEPT !.pc = "done", !.result = code].result # "success"
  BY <1>d, <1>u, Zenon DEF ThreadState
<1>e. ASSUME NEW s \in ExecutionStatus \ {"SUCCESS"}
      PROVE  /\ [stepState[id] EXCEPT !.status = s] \in StepRecord
             /\ [stepState[id] EXCEPT !.status = s].status # "SUCCESS"
  BY <1>e, <1>r, Zenon DEF StepRecord
<1>f. ASSUME NEW c \in {"ready", "waiting"}
      PROVE  /\ [t EXCEPT !.pc = c] \in ThreadState
             /\ [t EXCEPT !.pc = c].result = t.result
  BY <1>f, <1>u, Zenon DEF ThreadState
<1>2. CASE StepEnter(e, i)
  <2>1. "RUNNING" \in ExecutionStatus \ {"SUCCESS"}
    BY Zenon DEF ExecutionStatus
  <2> QED BY <1>2, <2>1, <1>n, <1>f, <1>e, Zenon DEF StepEnter
<1>3. CASE StepCancelled(e, i)
  <2>1. "step_cancelled" \in ResultCodes /\ "CANCELED" \in ExecutionStatus \ {"SUCCESS"}
    BY Zenon DEF ResultCodes, ExecutionStatus
  <2> QED BY <1>3, <2>1, <1>n, <1>d, <1>e, Zenon DEF StepCancelled, ThreadDone, SetStatus
<1>5. CASE StepRefused(e, i)
  <2>1. Submission[e].fault[i] \in ResultCodes /\ Submission[e].fault[i] # "success"
    BY <1>5, Zenon DEF StepRefused, ResultCodes, Faults, Refusals
  <2> QED BY <1>5, <2>1, <1>n, <1>d, <1>e, Zenon DEF StepRefused, ThreadDone, SetStatus, ExecutionStatus
<1>6. CASE StepRaises(e, i)
  <2>1. "executor_internal_error" \in ResultCodes /\ "RUNNING" \in ExecutionStatus \ {"SUCCESS"}
    BY Zenon DEF ResultCodes, ExecutionStatus, Faults
  <2> QED BY <1>6, <2>1, <1>n, <1>d, <1>e, Zenon DEF StepRaises, ThreadDone
<1>7. CASE StepInvoke(e, i)
  BY <1>7, <1>n, <1>f, <1>e, Zenon DEF StepInvoke, SetStatus, ExecutionStatus
<1>9. CASE StepFails(e, i)
  <2>1. PICK code \in ToolErrors : ThreadDone(e, i, code)
    BY <1>9, Zenon DEF StepFails
  <2>2. code \in ResultCodes /\ code # "success"
    BY <2>1, Zenon DEF ResultCodes, ToolErrors
  <2> QED BY <1>9, <2>1, <2>2, <1>n, <1>d, <1>e, Zenon DEF StepFails, ThreadDone, SetStatus, ExecutionStatus
<1>10. CASE StepRetryable(e, i)
  <2>1. "retry_exhausted" \in ResultCodes /\ "FAILED" \in ExecutionStatus \ {"SUCCESS"}
    BY Zenon DEF ResultCodes, ExecutionStatus
  <2> QED BY <1>10, <2>1, <1>n, <1>d, <1>e, <1>f, Zenon DEF StepRetryable, ThreadDone, SetStatus
<1>4. CASE StepAttempt(e, i)
  <2> DEFINE u == [t EXCEPT !.pc = "running", !.attempt = @ + 1]
             r == [stepState[id] EXCEPT !.status = "RUNNING", !.attempts = @ + 1]
  <2>1. u.result = t.result
    BY <1>u, Zenon DEF ThreadState
  <2>2. r.status = "RUNNING"
    BY <1>r, Zenon DEF StepRecord
  <2>3. SetThread(e, i, u) /\ SetStep(e, i, r) /\ UNCHANGED succeeded
    BY <1>4, Zenon DEF StepAttempt
  <2> HIDE DEF u, r
  <2> QED BY <2>1, <2>2, <2>3, <1>p, <1>q, <1>v, Zenon
<1>8. CASE StepSucceeds(e, i)
  <2>1. EverSucceeded \subseteq EverSucceeded'
    BY <1>8, Zenon DEF StepSucceeds, EverSucceeded
  <2>2. <<e, IdempotencyKey(e, i)>> \in succeeded'
    BY <1>8, Zenon DEF StepSucceeds
  <2>3. id \in EverSucceeded'
    <3>1. <<e, IdempotencyKey(e, i)>>[2].step = id
      BY Zenon DEF IdempotencyKey
    <3> QED BY <2>2, <3>1, Zenon DEF EverSucceeded
  <2> QED BY <1>8, <2>1, <2>3, <1>p, Zenon DEF StepSucceeds, ThreadDone
<1> QED
  BY <1>1, <1>2, <1>3, <1>4, <1>5, <1>6, <1>7, <1>8, <1>9, <1>10, Zenon DEF WorkerStep

LEMMA NextEarned == Earned /\ StepsRegistered /\ [Next]_vars => Earned'
<1> SUFFICES ASSUME Earned, StepsRegistered, [Next]_vars PROVE Earned'
  BY Zenon
<1>1. CASE \/ MarkCancelRequested
           \/ \E e \in Executions : RequestCancel(e) \/ SessionTimeout(e)
           \/ UNCHANGED vars
  <2>1. UNCHANGED envFrame
    BY <1>1, Zenon DEF MarkCancelRequested, RequestCancel, SessionTimeout, vars, store, envFrame
  <2>2. TypeInv'
    BY NextType, Zenon DEF Earned
  <2> QED
    BY <2>1, <2>2, Zenon DEF envFrame, Earned, StoreEarned, CompletedEarned, BatchEarned, AnswerEarned,
                      IdsOf, EverSucceeded
<1> QED
  BY <1>1, ExecuteEarned, WorkerEarned, Zenon DEF Next, AllReturned

LEMMA AlwaysEarned == Spec => []Earned
<1>1. Init => StepsRegistered
  BY Zenon DEF Init, StepsRegistered
<1>2. Earned => TypeInv
  BY Zenon DEF Earned
<1> QED
  BY <1>1, <1>2, InitEarned, NextEarned, NextRegistered, PTL DEF Spec

\* No tool is called before a success of every dependency of its step has been
\* recorded, for every plan, number of executions and interleaving of workers.
THEOREM DependenciesAlwaysRespected == Spec => []DependenciesRespected
<1>1. Earned => DependenciesRespected
  BY Zenon DEF Earned, CompletedEarned, BatchEarned, DependenciesRespected, Worker
<1> QED
  BY <1>1, AlwaysEarned, PTL

\* An execution is answered with success only when every step of its final plan
\* has a recorded success.
THEOREM SuccessAlwaysEarned == Spec => []SuccessIsEarned
<1>1. Earned => SuccessIsEarned
  BY Zenon DEF Earned, CompletedEarned, AnswerEarned, SuccessIsEarned
<1> QED
  BY <1>1, AlwaysEarned, PTL

-----------------------------------------------------------------------------
(* Plans in dependency order are never blocked.                            *)

\* In an ordered plan the first pending step is ready: all the steps before it,
\* hence all its dependencies, are completed.
LEMMA OrderedNotBlocked ==
    ASSUME TypeInv, PlansOrdered, NEW e \in Executions
    PROVE  ~Blocked(e)
<1> SUFFICES ASSUME PendingSteps(e) # {} PROVE ReadySteps(e) # {}
  BY Zenon DEF Blocked
<1>1. PendingSteps(e) \in SUBSET Positions
  BY Zenon DEF PendingSteps
<1>2. PICK i \in PendingSteps(e) : \A j \in PendingSteps(e) : ~(j < i)
  BY <1>1, SmallestPosition, Zenon
<1>3. ASSUME NEW d \in plan[e].steps[i].deps PROVE d \in completed[e]
  <2>1. PICK k \in Positions : k < i /\ d = plan[e].steps[k].id
    BY <1>1, Zenon DEF PlansOrdered, Ordered, DependsBackward
  <2> QED BY <1>2, <2>1, Zenon DEF PendingSteps
<1> QED
  BY <1>3, Zenon DEF ReadySteps

\* With a planner that lists steps in dependency order, no sequence of failures
\* and replans reaches the dependency_blocked answer.
THEOREM OrderedNeverBlocked ==
    ASSUME OrderedTemplate
    PROVE  Spec => []NeverBlocked
<1>1. ASSUME Init PROVE PlansOrdered
  <2>1. ASSUME NEW e \in Executions PROVE plan[e].steps = Template
    BY <1>1, Zenon DEF Init
  <2>2. \A p, q : p.steps = q.steps /\ DependsBackward(p) => DependsBackward(q)
    BY DEF DependsBackward
  <2>3. DependsBackward([version |-> 1, steps |-> Template])
    BY Zenon DEF OrderedTemplate
  <2>4. PlansNumbered
    BY <1>1, InitNumbered, Zenon
  <2> QED BY <2>1, <2>2, <2>3, <2>4, Zenon DEF PlansOrdered, PlansNumbered, Ordered
<1>2. TypeInv /\ PlansOrdered => NeverBlocked
  BY OrderedNotBlocked, Zenon DEF NeverBlocked
<1>3. TypeInv /\ PlansOrdered /\ [Next]_vars => PlansOrdered'
  BY NextOrdered, Zenon
<1> QED
  BY <1>1, <1>2, <1>3, InitType, NextType, PTL DEF Spec

-----------------------------------------------------------------------------
(* After a cancel request at most one more tool call per running worker.   *)

\* A nonempty set of positions has a greatest one.
LEMMA GreatestPosition ==
    ASSUME NEW S \in SUBSET Positions, S # {}
    PROVE  \E m \in S : \A j \in S : j <= m
<1> DEFINE n == Len(Template)
           T == {n - j : j \in S}
<1>1. \A j \in S : n - j \in Nat /\ j \in Nat
  BY PositionsFinite
<1>2. T \subseteq Nat /\ T # {}
  <2>1. PICK j \in S : TRUE
    BY Zenon
  <2>2. n - j \in T
    BY <2>1, Zenon
  <2> QED BY <1>1, <2>2, Zenon
<1>3. PICK t \in T : \A u \in T : ~(<<u, t>> \in OpToRel(<, Nat))
  BY <1>2, NatLessThanWellFounded, WFMin, Zenon
<1>4. \A u \in T : ~(u < t)
  BY <1>2, <1>3, Zenon DEF OpToRel
<1>5. PICK m \in S : t = n - m
  BY Zenon
<1>6. ASSUME NEW j \in S PROVE j <= m
  <2>1. ~(n - j < n - m)
    BY <1>4, <1>5, Zenon
  <2> QED BY <1>1, <2>1, PositionsFinite
<1> QED
  BY <1>6, Zenon

\* A batch has at most max_parallel steps.
LEMMA FirstBounded ==
    ASSUME NEW S \in SUBSET Positions, NEW n \in Nat
    PROVE  Cardinality(First(S, n)) <= n
<1> DEFINE F == First(S, n)
<1>1. F \subseteq S /\ IsFiniteSet(F) /\ Cardinality(F) \in Nat
  BY PositionsFinite, FS_CardinalityType, Zenon DEF First
<1>2. CASE F = {}
  BY <1>2, FS_EmptySet
<1>3. CASE F # {}
  <2>1. PICK m \in F : \A j \in F : j <= m
    BY <1>1, <1>3, GreatestPosition, Zenon
  <2> DEFINE below == {j \in S : j < m}
  <2>2. Cardinality(below) < n
    BY <2>1, Zenon DEF First
  <2>3. F \ {m} \subseteq below
    <3>1. S \subseteq Nat
      BY PositionsFinite
    <3>2. ASSUME NEW j \in F, j # m PROVE j \in S /\ j < m
      <4>1. j \in S /\ m \in S
        BY <1>1, Zenon
      <4>2. j \in Nat /\ m \in Nat /\ j <= m
        BY <2>1, <3>1, <4>1, Zenon
      <4> QED BY <3>2, <4>1, <4>2
    <3> QED BY <3>2, Zenon
  <2>4. IsFiniteSet(below) /\ Cardinality(below) \in Nat
    BY PositionsFinite, FS_CardinalityType, Zenon
  <2>5. Cardinality(F \ {m}) <= Cardinality(below)
    BY <2>3, <2>4, FS_Subset, Zenon
  <2>6. Cardinality(F \ {m}) = Cardinality(F) - 1
    BY <1>1, <2>1, FS_RemoveElement, Zenon
  <2> QED BY <1>1, <2>2, <2>4, <2>5, <2>6
<1> QED
  BY <1>2, <1>3, Zenon

\* The workers of e between _check_cancel and the call of their tool.
Running(e) == {i \in batch[e] : thread[e][i].pc = "running"}

\* No call is late before the request; after it, the calls issued and the workers that
\* can still issue one are no more than the batch had room for.
LateBound(e) ==
    /\ Cardinality(batch[e]) <= MaxParallel
    /\ lateCalls[e] <= MaxParallel
    /\ ~Cancelled(e) => lateCalls[e] = 0
    /\ phase[e] = "batch" => lateCalls[e] + Cardinality(Running(e)) <= MaxParallel

CancelInv == \A e \in Executions : LateBound(e)

LEMMA RunningFinite ==
    ASSUME TypeInv, NEW e \in Executions
    PROVE  /\ IsFiniteSet(batch[e]) /\ IsFiniteSet(Running(e))
           /\ Cardinality(batch[e]) \in Nat /\ Cardinality(Running(e)) \in Nat
           /\ Cardinality(Running(e)) <= Cardinality(batch[e])
<1>1. batch[e] \subseteq Positions /\ Running(e) \subseteq batch[e]
  BY Zenon DEF TypeInv, TypeOK, Running
<1> QED
  BY <1>1, PositionsFinite, FS_Subset, FS_CardinalityType, Zenon

\* What is left of the bound when the workers that may call become fewer, no call is
\* issued and the request, once made, stays.
LEMMA LateBoundKept ==
    ASSUME TypeInv, TypeInv', NEW e \in Executions, LateBound(e),
           batch'[e] = batch[e], lateCalls'[e] = lateCalls[e],
           Cancelled(e) => Cancelled(e)',
           phase'[e] = "batch" => phase[e] = "batch" /\ Running(e)' \subseteq Running(e)
    PROVE  LateBound(e)'
<1>1. /\ IsFiniteSet(Running(e)) /\ Cardinality(Running(e)) \in Nat
      /\ lateCalls[e] \in Nat
  BY RunningFinite, Zenon DEF TypeInv, TypeOK
<1>2. (TypeInv => Cardinality(Running(e)) \in Nat)'
  BY RunningFinite, PTL
<1>3. Running(e)' \subseteq Running(e) => Cardinality(Running(e)') <= Cardinality(Running(e))
  BY <1>1, FS_Subset, Zenon
<1>4. phase'[e] = "batch" => lateCalls'[e] + Cardinality(Running(e)') <= MaxParallel
  <2> SUFFICES ASSUME phase'[e] = "batch"
               PROVE  lateCalls'[e] + Cardinality(Running(e)') <= MaxParallel
    BY Zenon
  <2>1. lateCalls[e] + Cardinality(Running(e)) <= MaxParallel
    BY Zenon DEF LateBound
  <2>2. Cardinality(Running(e)') \in Nat /\ Cardinality(Running(e)') <= Cardinality(Running(e))
    BY <1>2, <1>3, Zenon
  <2>3. MaxParallel \in Nat
    BY BoundsAssumption, Zenon
  <2>4. \A l, r, q, m \in Nat : l + r <= m /\ q <= r => l + q <= m
    OBVIOUS
  <2> QED BY <1>1, <2>1, <2>2, <2>3, <2>4, Zenon
<1>5. /\ Cardinality(batch'[e]) <= MaxParallel /\ lateCalls'[e] <= MaxParallel
      /\ ~Cancelled(e)' => lateCalls'[e] = 0
  BY Zenon DEF LateBound
<1> QED
  BY <1>4, <1>5, Zenon DEF LateBound

LEMMA NextCancel ==
    TypeInv /\ TypeInv' /\ CancelInv /\ [Next]_vars => CancelInv'
<1> SUFFICES ASSUME TypeInv, TypeInv', CancelInv, [Next]_vars, NEW e \in Executions
             PROVE  LateBound(e)'
  BY Zenon DEF CancelInv
<1>a. /\ LateBound(e) /\ lateCalls[e] \in Nat
      /\ phase \in [Executions -> {"new", "loop", "batch", "returned"}]
      /\ thread \in [Executions -> [Positions -> ThreadState]]
      /\ batch \in [Executions -> SUBSET Positions]
      /\ cancelled \in [Executions -> BOOLEAN]
      /\ lateCalls \in [Executions -> Nat]
  BY Zenon DEF CancelInv, TypeInv, TypeOK
<1>b. ASSUME UNCHANGED <<batch, thread, lateCalls>>, Cancelled(e) => Cancelled(e)',
             phase'[e] = phase[e] \/ phase'[e] # "batch"
      PROVE  LateBound(e)'
  BY <1>a, <1>b, LateBoundKept, Zenon DEF Running
<1>1. ASSUME NEW f \in Executions, Start(f) PROVE LateBound(e)'
  BY <1>a, <1>1, <1>b, Zenon DEF Start, control, Cancelled
<1>2. ASSUME NEW f \in Executions, ExecuteStep(f) PROVE LateBound(e)'
  <2>1. CASE LoopDispatch(f) /\ e = f
    <3>1. /\ ~Cancelled(e) /\ UNCHANGED <<cancelStored, cancelled, lateCalls>>
          /\ batch'[e] = First(ReadySteps(e), MaxParallel)
      BY <2>1, <1>a, Zenon DEF LoopDispatch, LoopGoesOn, control, store
    <3>2. ReadySteps(e) \subseteq Positions
      BY Zenon DEF ReadySteps, PendingSteps
    <3>3. Cardinality(batch'[e]) <= MaxParallel
      BY <3>1, <3>2, FirstBounded, BoundsAssumption, Zenon
    <3>4. (TypeInv => /\ Cardinality(batch[e]) \in Nat /\ Cardinality(Running(e)) \in Nat
                      /\ Cardinality(Running(e)) <= Cardinality(batch[e]))'
      BY RunningFinite, PTL
    <3>5. lateCalls'[e] = 0
      BY <1>a, <3>1, Zenon DEF LateBound
    <3>6. lateCalls'[e] + Cardinality(Running(e)') <= MaxParallel
      <4>1. /\ Cardinality(batch'[e]) \in Nat /\ Cardinality(Running(e)') \in Nat
            /\ Cardinality(Running(e)') <= Cardinality(batch'[e])
        BY <3>4, Zenon
      <4>2. MaxParallel \in Nat
        BY BoundsAssumption, Zenon
      <4>3. \A b, r, m \in Nat : b <= m /\ r <= b => 0 + r <= m
        OBVIOUS
      <4> QED BY <3>3, <3>5, <4>1, <4>2, <4>3, Zenon
    <3>7. lateCalls'[e] <= MaxParallel
      BY <3>5, BoundsAssumption
    <3> QED BY <3>3, <3>5, <3>6, <3>7, Zenon DEF LateBound
  <2>2. CASE LoopDispatch(f) /\ e # f
    <3>1. /\ batch'[e] = batch[e] /\ thread'[e] = thread[e] /\ phase'[e] = phase[e]
          /\ UNCHANGED <<cancelStored, cancelled, lateCalls>>
      BY <2>2, <1>a, Zenon DEF LoopDispatch, control, store
    <3> QED BY <1>a, <3>1, LateBoundKept, Zenon DEF Running, Cancelled
  <2>3. CASE ~LoopDispatch(f)
    <3>1. /\ UNCHANGED <<batch, thread, lateCalls, cancelStored, cancelled>>
          /\ phase'[e] = phase[e] \/ phase'[e] # "batch"
      BY <1>2, <1>a, <2>3, Zenon
      DEF ExecuteStep, LoopCancelled, LoopTimedOut, LoopFinished, LoopBlockedReplan,
          LoopBlockedFail, BatchSucceeded, BatchReplan, BatchFailed, Return, Install,
          control, store
    <3> QED BY <3>1, <1>b, Zenon DEF Cancelled
  <2> QED BY <1>2, <2>1, <2>2, <2>3, Zenon
<1>3. ASSUME NEW f \in Executions, NEW i \in Positions, WorkerStep(f, i) PROVE LateBound(e)'
  <2>1. /\ UNCHANGED <<cancelStored, phase, batch, cancelled>>
        /\ phase[f] = "batch" /\ i \in batch[f]
    BY <1>3, Zenon DEF WorkerStep, StepSkip, StepEnter, StepCancelled, StepAttempt, StepRefused,
       StepRaises, StepInvoke, StepSucceeds, StepFails, StepRetryable, Worker, workerFrame,
       control
  <2>2. \E t : SetThread(f, i, t)
    BY <1>3, Zenon DEF WorkerStep, StepSkip, StepEnter, StepCancelled, StepAttempt, StepRefused,
       StepRaises, StepInvoke, StepSucceeds, StepFails, StepRetryable, ThreadDone
  <2>3. \A j \in Positions : f # e \/ j # i => thread'[e][j] = thread[e][j]
    BY <2>2, <1>a DEF SetThread
  <2>4. Running(e) \subseteq Positions /\ Running(e)' \subseteq batch[e]
    BY <2>1, <1>a, Zenon DEF Running
  <2>5. CASE f # e
    <3>1. lateCalls'[e] = lateCalls[e]
      BY <1>3, <1>a, <2>5 DEF WorkerStep, StepSkip, StepEnter, StepCancelled, StepAttempt,
         StepRefused, StepRaises, StepInvoke, StepSucceeds, StepFails, StepRetryable
    <3>2. Running(e)' \subseteq Running(e)
      BY <1>a, <2>1, <2>3, <2>5, Zenon DEF Running
    <3> QED BY <1>a, <2>1, <3>1, <3>2, LateBoundKept, Zenon DEF Cancelled
  <2>6. CASE f = e /\ StepAttempt(f, i)
    <3>1. ~Cancelled(e) /\ lateCalls'[e] = lateCalls[e]
      BY <2>6, Zenon DEF StepAttempt
    <3>2. (TypeInv => /\ Cardinality(batch[e]) \in Nat /\ Cardinality(Running(e)) \in Nat
                      /\ Cardinality(Running(e)) <= Cardinality(batch[e]))'
      BY RunningFinite, PTL
    <3>3. batch'[e] = batch[e] /\ lateCalls'[e] = 0 /\ Cardinality(batch'[e]) <= MaxParallel
      BY <1>a, <2>1, <3>1, Zenon DEF LateBound
    <3>4. /\ Cardinality(batch'[e]) \in Nat /\ Cardinality(Running(e)') \in Nat
          /\ Cardinality(Running(e)') <= Cardinality(batch'[e])
      BY <3>2, Zenon
    <3>5. lateCalls'[e] + Cardinality(Running(e)') <= MaxParallel /\ lateCalls'[e] <= MaxParallel
      BY <3>3, <3>4, BoundsAssumption
    <3> QED BY <3>3, <3>5, Zenon DEF LateBound
  <2>7. CASE f = e /\ StepInvoke(f, i)
    <3>1. /\ thread[e][i].pc = "running"
          /\ SetThread(e, i, [thread[e][i] EXCEPT !.pc = "waiting"])
          /\ lateCalls'[e] = lateCalls[e] + (IF Cancelled(e) THEN 1 ELSE 0)
      BY <1>a, <2>7, Zenon DEF StepInvoke, Worker
    <3>2. thread'[e][i].pc = "waiting"
      BY <1>a, <3>1 DEF SetThread, ThreadState
    <3>3. Running(e)' = Running(e) \ {i} /\ i \in Running(e)
      BY <1>a, <2>1, <2>3, <2>7, <3>1, <3>2, Zenon DEF Running
    <3>4. Cardinality(Running(e)') = Cardinality(Running(e)) - 1
      BY <3>3, RunningFinite, FS_RemoveElement, Zenon
    <3>5. Cardinality(Running(e)) \in Nat /\ Cardinality(batch[e]) \in Nat
      BY RunningFinite, Zenon
    <3>6. (TypeInv => Cardinality(Running(e)) \in Nat)'
      BY RunningFinite, PTL
    <3>7. Cancelled(e)' = Cancelled(e) /\ phase[e] = "batch"
      BY <2>1, <2>7, Zenon DEF Cancelled
    <3> QED
      BY <1>a, <2>1, <3>1, <3>4, <3>5, <3>6, <3>7, BoundsAssumption DEF LateBound
  <2>8. CASE f = e /\ ~StepAttempt(f, i) /\ ~StepInvoke(f, i)
    <3>1. lateCalls'[e] = lateCalls[e]
      BY <1>3, <2>8 DEF WorkerStep, StepSkip, StepEnter, StepCancelled, StepRefused,
         StepRaises, StepSucceeds, StepFails, StepRetryable
    <3>2. \/ SetThread(e, i, [thread[e][i] EXCEPT !.pc = "ready"])
          \/ \E code : ThreadDone(e, i, code)
      BY <1>3, <2>8 DEF WorkerStep, StepSkip, StepEnter, StepCancelled, StepRefused,
         StepRaises, StepSucceeds, StepFails, StepRetryable
    <3>3. thread'[e][i].pc # "running"
      <4>1. CASE SetThread(e, i, [thread[e][i] EXCEPT !.pc = "ready"])
        BY <1>a, <4>1 DEF SetThread, ThreadState
      <4>2. ASSUME NEW code, ThreadDone(e, i, code) PROVE thread'[e][i].pc # "running"
        BY <1>a, <4>2 DEF ThreadDone, SetThread, ThreadState
      <4> QED BY <3>2, <4>1, <4>2, Zenon
    <3>4. Running(e)' \subseteq Running(e)
      BY <1>a, <2>1, <2>3, <3>3, Zenon DEF Running
    <3> QED BY <1>a, <2>1, <3>1, <3>4, LateBoundKept, Zenon DEF Cancelled
  <2> QED BY <2>5, <2>6, <2>7, <2>8, Zenon
<1>4. ASSUME NEW f \in Executions, RequestCancel(f) \/ SessionTimeout(f) PROVE LateBound(e)'
  <2>1. UNCHANGED <<batch, thread, lateCalls, phase>>
    BY <1>4, Zenon DEF RequestCancel, SessionTimeout, envFrame
  <2>2. Cancelled(e) => Cancelled(e)'
    BY <1>a, <1>4, Zenon DEF RequestCancel, SessionTimeout, Cancelled
  <2> QED BY <2>1, <2>2, <1>b, Zenon
<1>5. CASE MarkCancelRequested
  BY <1>5, <1>b, Zenon DEF MarkCancelRequested, envFrame, Cancelled
<1>6. CASE UNCHANGED vars
  BY <1>6, <1>b, Zenon DEF vars, store, control, Cancelled
<1> QED
  BY <1>1, <1>2, <1>3, <1>4, <1>5, <1>6, Zenon DEF Next, AllReturned

\* After control.request_cancel or mark_cancel_requested an execution issues at most
\* max_parallel more tool calls, whatever it had left to retry, dispatch or replan.
THEOREM CancelAlwaysStops == Spec => []CancelStopsCalls
<1>1. Init => CancelInv
  <2> SUFFICES ASSUME Init, NEW e \in Executions PROVE LateBound(e)
    BY Zenon DEF CancelInv
  <2>1. batch[e] = {} /\ phase[e] = "new" /\ lateCalls[e] = 0
    BY Zenon DEF Init
  <2>2. Cardinality(batch[e]) = 0
    BY <2>1, FS_EmptySet, Zenon
  <2>3. 0 <= MaxParallel
    BY BoundsAssumption
  <2> QED BY <2>1, <2>2, <2>3, Zenon DEF LateBound
<1>2. CancelInv => CancelStopsCalls
  BY Zenon DEF CancelInv, LateBound, CancelStopsCalls
<1> QED
  BY <1>1, <1>2, InitType, NextType, NextCancel, PTL DEF Spec

-----------------------------------------------------------------------------
(* The attempt budget.                                                     *)

\* A unit of a function is an argument with a number up to its value.
LEMMA UnitIn ==
    ASSUME NEW f, NEW p
    PROVE  p \in Units(f) <=> \E x \in DOMAIN f : \E u \in 1..f[x] : p = <<x, u>>
<1>1. \A x, T : p \in {x} \X T <=> \E u \in T : p = <<x, u>>
  OBVIOUS
<1>2. p \in Units(f) <=> \E x \in DOMAIN f : p \in {x} \X (1..f[x])
  BY Zenon DEF Units
<1> QED BY <1>1, <1>2, Zenon

\* What execution e may have spent on position b in its present round of replanning.
Used(e, b) ==
    IF phase[e] = "batch" /\ b \in batch[e] THEN thread[e][b].attempt
    ELSE IF phase[e] = "returned" \/ plan[e].steps[b].id \in completed[e] THEN MaxRetry + 1 ELSE 0

\* An attempt of the budget is an execution, a round and the number of the attempt in it.
Allowed == Executions \X ((0..MaxReplan) \X (1..(MaxRetry + 1)))

\* The attempts of the budget that the rounds of replanning and the present round use up for
\* position b: all of every earlier round, and in the present one those up to Used.
Spent(b) ==
    {t \in Allowed : \/ t[2][1] < replanCount[t[1]]
                     \/ t[2][1] = replanCount[t[1]] /\ t[2][2] <= Used(t[1], b)}

\* An execution that has not started has completed nothing.
NewIsEmpty == \A e \in Executions : phase[e] = "new" => completed[e] = {}

\* AttemptBudget is not inductive: it does not say who may still attempt.  What is recorded
\* for a position stays within what the executions have spent on it.
BudgetInv ==
    \A b \in Positions :
        /\ IsFiniteSet(Units(AttemptsOf(b)))
        /\ SumOf(AttemptsOf(b)) <= Cardinality(Spent(b))

\* A round has max_retry_attempts + 1 attempts of a step, and max_replan_attempts rounds follow.
UsedInBudget ==
    \A e \in Executions, b \in Positions :
        Used(e, b) \in 0..(MaxRetry + 1) /\ replanCount[e] \in 0..MaxReplan

\* The counters of the executions are within those bounds.
LEMMA UsedType == TypeInv => UsedInBudget
<1> SUFFICES ASSUME TypeInv, NEW e \in Executions, NEW b \in Positions
             PROVE  Used(e, b) \in 0..(MaxRetry + 1) /\ replanCount[e] \in 0..MaxReplan
  BY Zenon DEF UsedInBudget
<1>1. MaxRetry \in Nat /\ MaxReplan \in Nat
  BY BoundsAssumption, Zenon
<1>2. thread[e][b].attempt \in 0..(MaxRetry + 1) /\ replanCount[e] \in 0..MaxReplan
  BY Zenon DEF TypeInv, TypeOK, ThreadState
<1> QED BY <1>1, <1>2 DEF Used

\* No step gives an execution back what it has spent.
NotLess(e, b) ==
    \/ replanCount[e] < replanCount'[e]
    \/ replanCount[e] = replanCount'[e] /\ Used(e, b) <= Used(e, b)'

\* Then none of the attempts spent on a position is given back.
LEMMA SpentGrows ==
    ASSUME TypeInv, TypeInv', NEW b \in Positions, \A e \in Executions : NotLess(e, b)
    PROVE  Spent(b) \subseteq Spent(b)'
<1>1. SUFFICES ASSUME NEW t \in Spent(b) PROVE t \in Spent(b)'
  BY Zenon
<1>2. t \in Allowed /\ Allowed' = Allowed
  BY Zenon DEF Spent, Allowed
<1>3. t[1] \in Executions /\ t[2][1] \in Nat /\ t[2][2] \in Nat
  BY <1>2 DEF Allowed
<1>4. \A e \in Executions : Used(e, b) \in Nat /\ replanCount[e] \in Nat
  BY UsedType DEF UsedInBudget
<1>5. (TypeInv => UsedInBudget)'
  BY UsedType, PTL
<1>6. \A e \in Executions : Used(e, b)' \in Nat /\ replanCount'[e] \in Nat
  BY <1>5 DEF UsedInBudget
<1>7. \/ t[2][1] < replanCount[t[1]]
      \/ t[2][1] = replanCount[t[1]] /\ t[2][2] <= Used(t[1], b)
  BY Zenon DEF Spent
<1> DEFINE x == t[1]
           r == t[2][1]
           a == t[2][2]
           u == Used(x, b)
           v == Used(x, b)'
           m == replanCount[x]
           n == replanCount'[x]
<1>8. u \in Nat /\ v \in Nat /\ m \in Nat /\ n \in Nat /\ r \in Nat /\ a \in Nat
  BY <1>3, <1>4, <1>6, Zenon
<1>9. m < n \/ (m = n /\ u <= v)
  BY <1>3, Zenon DEF NotLess
<1>10. r < m \/ (r = m /\ a <= u)
  BY <1>7, Zenon
<1>11. r < n \/ (r = n /\ a <= v)
  <2> HIDE DEF r, a, u, v, m, n
  <2> QED BY <1>8, <1>9, <1>10
<1> QED BY <1>2, <1>11, Zenon DEF Spent

\* An id keeps its attempts, and a new one has none.
AttemptsKept ==
    /\ DOMAIN stepState \subseteq DOMAIN stepState'
    /\ \A id \in DOMAIN stepState : stepState'[id].attempts = stepState[id].attempts
    /\ \A id \in DOMAIN stepState' \ DOMAIN stepState : stepState'[id].attempts = 0

\* Then what is recorded for a position is the same.
LEMMA AttemptsUnits ==
    ASSUME NEW b \in Positions, AttemptsKept
    PROVE  Units(AttemptsOf(b))' = Units(AttemptsOf(b))
<1> DEFINE f == AttemptsOf(b)
           g == AttemptsOf(b)'
<1>1. /\ DOMAIN f \subseteq DOMAIN g
      /\ \A id \in DOMAIN f : g[id] = f[id]
      /\ \A id \in DOMAIN g \ DOMAIN f : g[id] = 0
  BY Zenon DEF AttemptsOf, AttemptsKept
<1>2. Units(AttemptsOf(b))' = Units(g)
  BY Zenon
<1> HIDE DEF f, g
<1>3. ASSUME NEW p PROVE p \in Units(f) <=> p \in Units(g)
  <2>1. ASSUME NEW x \in DOMAIN g, NEW u \in 1..g[x] PROVE x \in DOMAIN f /\ g[x] = f[x]
    BY <1>1
  <2>2. (\E x \in DOMAIN f : \E u \in 1..f[x] : p = <<x, u>>)
          <=> (\E x \in DOMAIN g : \E u \in 1..g[x] : p = <<x, u>>)
    BY <1>1, <2>1, Zenon
  <2>3. /\ p \in Units(f) <=> \E x \in DOMAIN f : \E u \in 1..f[x] : p = <<x, u>>
        /\ p \in Units(g) <=> \E x \in DOMAIN g : \E u \in 1..g[x] : p = <<x, u>>
    BY UnitIn
  <2> QED BY <2>2, <2>3, Zenon
<1>4. Units(f) = Units(g)
  BY <1>3, Zenon
<1> QED BY <1>2, <1>4, Zenon DEF f, g

\* One more attempt of the step at position i adds a unit to the attempts of that number,
\* and to those of no other.
LEMMA AttemptAdded ==
    ASSUME TypeInv, DistinctNumbers, PlansNumbered, StepsRegistered,
           NEW e \in Executions, NEW i \in Positions, StepAttempt(e, i), NEW b \in Positions
    PROVE  \E id, n : /\ <<id, n>> \notin Units(AttemptsOf(b))
                      /\ Units(AttemptsOf(b))' = IF b = i THEN Units(AttemptsOf(b)) \cup {<<id, n>>}
                                                 ELSE Units(AttemptsOf(b))
<1> DEFINE id == plan[e].steps[i].id
           n == stepState[id].attempts + 1
           f == AttemptsOf(b)
           g == AttemptsOf(b)'
<1>1. id \in DOMAIN stepState /\ Head(id) = Head(Template[i].id)
  BY Zenon DEF StepAttempt, Worker, StepsRegistered, IdsOf, PlansNumbered, NumbersKept
<1>2. stepState[id].attempts \in Nat /\ DOMAIN stepState[id] = {"status", "key", "attempts"}
  BY <1>1, Zenon DEF TypeInv, TypeOK, StepRecord
<1>3. /\ DOMAIN stepState' = DOMAIN stepState
      /\ stepState'[id].attempts = n
      /\ \A k \in DOMAIN stepState \ {id} : stepState'[k] = stepState[k]
  BY <1>1, <1>2, Zenon DEF StepAttempt, SetStep
<1>4. Units(AttemptsOf(b))' = Units(g) /\ DOMAIN g = DOMAIN f
  BY <1>3, Zenon DEF AttemptsOf
<1>5. CASE b = i
  <2>1. /\ id \in DOMAIN f /\ f[id] = stepState[id].attempts /\ g[id] = n
        /\ \A k \in DOMAIN f \ {id} : g[k] = f[k]
    BY <1>1, <1>3, <1>5, Zenon DEF AttemptsOf
  <2>2. n \in Nat \ {0} /\ f[id] = n - 1 /\ g[id] = n
    <3> HIDE DEF id, f, g
    <3> QED BY <1>2, <2>1
  <2> HIDE DEF id, n, f, g
  <2>3. 1..g[id] = (1..f[id]) \cup {n} /\ n \notin 1..f[id]
    BY <2>2
  <2>4. <<id, n>> \notin Units(f)
    <3>1. \A x, u : <<id, n>> = <<x, u>> => x = id /\ u = n
      BY Zenon
    <3>2. <<id, n>> \in Units(f) <=> \E x \in DOMAIN f : \E u \in 1..f[x] : <<id, n>> = <<x, u>>
      BY UnitIn, Zenon
    <3> QED BY <2>3, <3>1, <3>2, Zenon
  <2>5. ASSUME NEW p PROVE p \in Units(g) <=> p \in Units(f) \cup {<<id, n>>}
    <3>1. (\E x \in DOMAIN g : \E u \in 1..g[x] : p = <<x, u>>)
            <=> (\E x \in DOMAIN f : \E u \in 1..f[x] : p = <<x, u>>) \/ p = <<id, n>>
      BY <1>4, <2>1, <2>3, Zenon
    <3>2. /\ p \in Units(f) <=> \E x \in DOMAIN f : \E u \in 1..f[x] : p = <<x, u>>
          /\ p \in Units(g) <=> \E x \in DOMAIN g : \E u \in 1..g[x] : p = <<x, u>>
      BY UnitIn
    <3> QED BY <3>1, <3>2, Zenon
  <2>6. Units(g) = Units(f) \cup {<<id, n>>}
    BY <2>5, Zenon
  <2> QED BY <1>4, <1>5, <2>4, <2>6, Zenon DEF f
<1>6. CASE b # i
  <2>1. id \notin DOMAIN f
    BY <1>1, <1>6, Zenon DEF AttemptsOf, DistinctNumbers
  <2>2. f = g
    BY <1>3, <2>1, Zenon DEF AttemptsOf
  <2>3. <<id, n>> \notin Units(f)
    <3>1. \A x, u : <<id, n>> = <<x, u>> => x = id
      BY Zenon
    <3> HIDE DEF id, n, f
    <3>2. <<id, n>> \in Units(f) <=> \E x \in DOMAIN f : \E u \in 1..f[x] : <<id, n>> = <<x, u>>
      BY UnitIn, Zenon
    <3> QED BY <2>1, <3>1, <3>2, Zenon
  <2> QED BY <1>4, <1>6, <2>2, <2>3, Zenon
<1> QED BY <1>5, <1>6, Zenon

\* An execution whose own state is as before has spent the same.
LEMMA OthersSpend ==
    ASSUME TypeInv, NEW f \in Executions, NEW b \in Positions,
           phase'[f] = phase[f], batch'[f] = batch[f], thread'[f][b].attempt = thread[f][b].attempt,
           plan'[f] = plan[f], completed'[f] = completed[f], replanCount'[f] = replanCount[f]
    PROVE  NotLess(f, b)
<1>1. Used(f, b)' = Used(f, b)
  BY Zenon DEF Used
<1>2. Used(f, b) \in Nat
  BY UsedType DEF UsedInBudget
<1>3. \A m \in Nat : m <= m
  OBVIOUS
<1>4. Used(f, b) <= Used(f, b)'
  BY <1>1, <1>2, <1>3, Zenon
<1> QED BY <1>4, Zenon DEF NotLess

\* upsert_plan_steps adds records without attempts and leaves the others alone.
LEMMA UpsertAttempts ==
    ASSUME NEW p, stepState' = UpsertPlanSteps(p)
    PROVE  AttemptsKept
  BY Zenon DEF UpsertPlanSteps, AttemptsKept, NewStep

\* The steps of execute's loop record no attempt.  Of what an execution may spend, a batch that
\* succeeded and a return give up the rest of the round, and replanning opens the next one.
LEMMA ExecuteSpends ==
    ASSUME TypeInv, TypeInv', NewIsEmpty, NEW e \in Executions, Start(e) \/ ExecuteStep(e)
    PROVE  AttemptsKept /\ \A f \in Executions, b \in Positions : NotLess(f, b)
<1>y. /\ phase \in [Executions -> {"new", "loop", "batch", "returned"}]
      /\ completed \in [Executions -> SUBSET StepId]
      /\ batch \in [Executions -> SUBSET Positions]
      /\ plan \in [Executions -> Plan]
      /\ thread \in [Executions -> [Positions -> ThreadState]]
      /\ replanCount \in [Executions -> 0..MaxReplan]
      /\ MaxRetry \in Nat /\ MaxReplan \in Nat
  BY BoundsAssumption, Zenon DEF TypeInv, TypeOK
<1>u. \A f \in Executions, b \in Positions : Used(f, b) \in 0..(MaxRetry + 1)
  BY UsedType, Zenon DEF UsedInBudget
<1>1. AttemptsKept
  <2>1. CASE UNCHANGED stepState
    BY <2>1, Zenon DEF AttemptsKept
  <2>2. UNCHANGED stepState \/ \E p : stepState' = UpsertPlanSteps(p)
    BY Zenon DEF Start, ExecuteStep, LoopCancelled, LoopTimedOut, LoopFinished, LoopBlockedReplan,
       LoopBlockedFail, LoopDispatch, BatchSucceeded, BatchReplan, BatchFailed, Install, store
  <2> QED BY <2>1, <2>2, UpsertAttempts, Zenon
<1>2. ASSUME NEW f \in Executions \ {e}, NEW b \in Positions PROVE NotLess(f, b)
  <2>1. /\ phase'[f] = phase[f] /\ batch'[f] = batch[f] /\ thread'[f] = thread[f]
        /\ plan'[f] = plan[f] /\ completed'[f] = completed[f] /\ replanCount'[f] = replanCount[f]
    BY <1>y DEF Start, ExecuteStep, LoopCancelled, LoopTimedOut, LoopFinished, LoopBlockedReplan,
       LoopBlockedFail, LoopDispatch, BatchSucceeded, BatchReplan, BatchFailed, Install, Return,
       MergeBefore
  <2> QED BY <2>1, OthersSpend, Zenon
<1>3. ASSUME NEW b \in Positions PROVE NotLess(e, b)
  <2>1. CASE Start(e)
    <3>1. /\ phase[e] = "new" /\ UNCHANGED replanCount
      BY <2>1, <1>y, Zenon DEF Start
    <3>2. Used(e, b) = 0
      BY <3>1, <1>y, Zenon DEF Used, NewIsEmpty
    <3>3. (TypeInv => UsedInBudget)'
      BY UsedType, PTL
    <3>4. Used(e, b)' \in 0..(MaxRetry + 1)
      BY <3>3, Zenon DEF UsedInBudget
    <3>5. Used(e, b) <= Used(e, b)'
      BY <3>2, <3>4
    <3> QED BY <3>1, <3>5, Zenon DEF NotLess
  <2>2. ASSUME NEW status, NEW code, Return(e, status, code), UNCHANGED replanCount
        PROVE  NotLess(e, b)
    <3>1. phase'[e] = "returned"
      BY <2>2, <1>y, Zenon DEF Return
    <3>2. Used(e, b)' = MaxRetry + 1
      BY <3>1, Zenon DEF Used
    <3>3. Used(e, b) \in 0..(MaxRetry + 1)
      BY <1>u, Zenon
    <3>4. Used(e, b) <= Used(e, b)'
      BY <3>2, <3>3
    <3> QED BY <2>2, <3>4, Zenon DEF NotLess
  <2>3. CASE LoopCancelled(e) \/ LoopTimedOut(e) \/ LoopFinished(e) \/ LoopBlockedFail(e) \/ BatchFailed(e)
    BY <2>2, <2>3, Zenon DEF LoopCancelled, LoopTimedOut, LoopFinished, LoopBlockedFail, BatchFailed
  <2>4. CASE LoopBlockedReplan(e) \/ BatchReplan(e)
    <3>1. \E p : Install(e, p)
      BY <2>4, Zenon DEF LoopBlockedReplan, BatchReplan
    <3>2. replanCount'[e] = replanCount[e] + 1
      BY <3>1, <1>y, Zenon DEF Install
    <3>3. replanCount[e] \in Nat
      BY <1>y
    <3> QED BY <3>2, <3>3 DEF NotLess
  <2>5. CASE LoopDispatch(e)
    <3>1. /\ phase[e] = "loop" /\ phase'[e] = "batch" /\ batch'[e] = First(ReadySteps(e), MaxParallel)
          /\ UNCHANGED <<plan, completed, replanCount>>
      BY <2>5, <1>y, Zenon DEF LoopDispatch, LoopGoesOn
    <3>2. CASE b \in batch'[e]
      <4>1. plan[e].steps[b].id \notin completed[e]
        BY <3>1, <3>2, Zenon DEF First, ReadySteps, PendingSteps
      <4>2. Used(e, b) = 0
        BY <3>1, <4>1, Zenon DEF Used
      <4>3. (TypeInv => UsedInBudget)'
        BY UsedType, PTL
      <4>4. Used(e, b)' \in 0..(MaxRetry + 1)
        BY <4>3, Zenon DEF UsedInBudget
      <4>5. Used(e, b) <= Used(e, b)'
        BY <4>2, <4>4
      <4> QED BY <3>1, <4>5, Zenon DEF NotLess
    <3>3. CASE b \notin batch'[e]
      <4>1. Used(e, b)' = Used(e, b)
        BY <3>1, <3>3, Zenon DEF Used
      <4>2. Used(e, b) \in 0..(MaxRetry + 1)
        BY <1>u, Zenon
      <4>3. Used(e, b) <= Used(e, b)'
        BY <4>1, <4>2
      <4> QED BY <3>1, <4>3, Zenon DEF NotLess
    <3> QED BY <3>2, <3>3, Zenon
  <2>6. CASE BatchSucceeded(e)
    <3>1. /\ phase[e] = "batch" /\ phase'[e] = "loop" /\ UNCHANGED <<plan, replanCount>>
          /\ completed[e] \subseteq completed'[e]
      BY <2>6, <1>y, Zenon DEF BatchSucceeded, BatchJoined, MergeBefore
    <3>2. CASE b \in batch[e]
      <4>1. plan[e].steps[b].id \in completed'[e]
        <5>1. b < Len(Template) + 1
          BY PositionsAre
        <5> QED BY <2>6, <1>y, <3>2, <5>1, Zenon DEF BatchSucceeded, MergeBefore
      <4>2. Used(e, b)' = MaxRetry + 1
        BY <3>1, <4>1, Zenon DEF Used
      <4>3. Used(e, b) \in 0..(MaxRetry + 1)
        BY <1>u, Zenon
      <4>4. Used(e, b) <= Used(e, b)'
        BY <4>2, <4>3
      <4> QED BY <3>1, <4>4, Zenon DEF NotLess
    <3>3. CASE b \notin batch[e]
      <4>1. Used(e, b) <= Used(e, b)'
        BY <1>y, <3>1, <3>3 DEF Used
      <4> QED BY <3>1, <4>1, Zenon DEF NotLess
    <3> QED BY <3>2, <3>3, Zenon
  <2> QED BY <2>1, <2>3, <2>4, <2>5, <2>6, Zenon DEF ExecuteStep
<1> QED BY <1>1, <1>2, <1>3, Zenon

\* Of the steps of a worker only the start of an attempt records one.
LEMMA WorkerSpends ==
    ASSUME TypeInv, NEW e \in Executions, NEW i \in Positions, WorkerStep(e, i)
    PROVE  /\ \A f \in Executions, b \in Positions :
                 (f # e \/ b # i \/ ~StepAttempt(e, i)) => NotLess(f, b)
           /\ ~StepAttempt(e, i) => AttemptsKept
<1>y. thread \in [Executions -> [Positions -> ThreadState]]
  BY Zenon DEF TypeInv, TypeOK
<1>1. UNCHANGED <<phase, plan, completed, replanCount, batch>>
  BY Zenon DEF WorkerStep, StepSkip, StepEnter, StepCancelled, StepAttempt, StepRefused,
     StepRaises, StepInvoke, StepSucceeds, StepFails, StepRetryable, workerFrame
<1>2. \E t : SetThread(e, i, t)
  BY Zenon DEF WorkerStep, StepSkip, StepEnter, StepCancelled, StepAttempt, StepRefused,
     StepRaises, StepInvoke, StepSucceeds, StepFails, StepRetryable, ThreadDone
<1>3. \A f \in Executions, b \in Positions : (f # e \/ b # i) => thread'[f][b] = thread[f][b]
  BY <1>2, <1>y DEF SetThread
<1>4. ASSUME ~StepAttempt(e, i) PROVE thread'[e][i].attempt = thread[e][i].attempt
  <2>1. \/ \E pc : SetThread(e, i, [thread[e][i] EXCEPT !.pc = pc])
        \/ \E code : ThreadDone(e, i, code)
    BY <1>4, Zenon DEF WorkerStep, StepSkip, StepEnter, StepCancelled, StepRefused,
       StepRaises, StepInvoke, StepSucceeds, StepFails, StepRetryable
  <2>2. ASSUME NEW pc, SetThread(e, i, [thread[e][i] EXCEPT !.pc = pc])
        PROVE  thread'[e][i].attempt = thread[e][i].attempt
    BY <2>2, <1>y DEF SetThread, ThreadState
  <2>3. ASSUME NEW code, ThreadDone(e, i, code)
        PROVE  thread'[e][i].attempt = thread[e][i].attempt
    BY <2>3, <1>y DEF ThreadDone, SetThread, ThreadState
  <2> QED BY <2>1, <2>2, <2>3, Zenon
<1>5. ASSUME ~StepAttempt(e, i) PROVE AttemptsKept
  <2> DEFINE id == plan[e].steps[i].id
  <2>1. \/ UNCHANGED stepState
        \/ \E status : SetStatus(e, i, status)
        \/ SetStep(e, i, [stepState[id] EXCEPT !.status = "SUCCESS", !.key = {IdempotencyKey(e, i)}])
    BY <1>5, Zenon DEF WorkerStep, StepSkip, StepEnter, StepCancelled, StepRefused,
       StepRaises, StepInvoke, StepSucceeds, StepFails, StepRetryable
  <2>2. \A k \in DOMAIN stepState : stepState[k] \in StepRecord
    BY Zenon DEF TypeInv, TypeOK
  <2>3. ASSUME NEW r, SetStep(e, i, r), id \in DOMAIN stepState => r.attempts = stepState[id].attempts
        PROVE  AttemptsKept
    BY <2>3, Zenon DEF SetStep, AttemptsKept
  <2>4. ASSUME NEW status, SetStatus(e, i, status) PROVE AttemptsKept
    <3>1. id \in DOMAIN stepState =>
            [stepState[id] EXCEPT !.status = status].attempts = stepState[id].attempts
      BY <2>2, Zenon DEF StepRecord
    <3> QED BY <2>3, <2>4, <3>1, Zenon DEF SetStatus
  <2>5. CASE SetStep(e, i, [stepState[id] EXCEPT !.status = "SUCCESS", !.key = {IdempotencyKey(e, i)}])
    <3>1. id \in DOMAIN stepState =>
            [stepState[id] EXCEPT !.status = "SUCCESS", !.key = {IdempotencyKey(e, i)}].attempts
              = stepState[id].attempts
      BY <2>2, Zenon DEF StepRecord
    <3> QED BY <2>3, <2>5, <3>1, Zenon
  <2>6. CASE UNCHANGED stepState
    BY <2>6, Zenon DEF AttemptsKept
  <2> QED BY <2>1, <2>4, <2>5, <2>6, Zenon
<1>6. ASSUME NEW f \in Executions, NEW b \in Positions, f # e \/ b # i \/ ~StepAttempt(e, i)
      PROVE  NotLess(f, b)
  <2>1. thread'[f][b].attempt = thread[f][b].attempt
    BY <1>3, <1>4, <1>6, Zenon
  <2> QED BY <1>1, <2>1, OthersSpend, Zenon
<1> QED BY <1>5, <1>6, Zenon

\* The size of the budget.
LEMMA SpentFinite ==
    ASSUME IsFiniteSet(Executions)
    PROVE  /\ IsFiniteSet(Allowed)
           /\ Cardinality(Allowed) = Cardinality(Executions) * (MaxRetry + 1) * (MaxReplan + 1)
<1>0. MaxRetry \in Nat /\ MaxReplan \in Nat
  BY BoundsAssumption, Zenon
<1> DEFINE rounds == 0..MaxReplan
           tries == 1..(MaxRetry + 1)
<1>1. /\ IsFiniteSet(rounds) /\ Cardinality(rounds) = MaxReplan + 1
      /\ IsFiniteSet(tries) /\ Cardinality(tries) = MaxRetry + 1
  BY <1>0, FS_Interval
<1> HIDE DEF rounds, tries
<1>2. /\ IsFiniteSet(rounds \X tries)
      /\ Cardinality(rounds \X tries) = Cardinality(rounds) * Cardinality(tries)
  BY <1>1, FS_Product, Zenon
<1>3. /\ IsFiniteSet(Executions \X (rounds \X tries))
      /\ Cardinality(Executions \X (rounds \X tries))
           = Cardinality(Executions) * Cardinality(rounds \X tries)
  BY <1>2, FS_Product, Zenon
<1>4. Cardinality(Executions) \in Nat
  BY FS_CardinalityType, Zenon
<1>5. \A x, r, t \in Nat : x * (r * t) = x * t * r
  OBVIOUS
<1>6. Cardinality(Executions) * ((MaxReplan + 1) * (MaxRetry + 1))
        = Cardinality(Executions) * (MaxRetry + 1) * (MaxReplan + 1)
  <2>1. MaxReplan + 1 \in Nat /\ MaxRetry + 1 \in Nat
    BY <1>0
  <2> QED BY <1>4, <1>5, <2>1, Zenon
<1> QED BY <1>1, <1>2, <1>3, <1>6, Zenon DEF Allowed, rounds, tries

\* The step that records an attempt spends a member of the budget that was not spent.
LEMMA NextBudget ==
    ASSUME IsFiniteSet(Executions), DistinctNumbers
    PROVE  /\ TypeInv /\ TypeInv' /\ PlansNumbered /\ StepsRegistered /\ NewIsEmpty /\ BudgetInv
           /\ [Next]_vars
           => BudgetInv'
<1> SUFFICES ASSUME TypeInv, TypeInv', PlansNumbered, StepsRegistered, NewIsEmpty, BudgetInv,
                    [Next]_vars, NEW b \in Positions
             PROVE  /\ IsFiniteSet(Units(AttemptsOf(b)))'
                    /\ (SumOf(AttemptsOf(b)) <= Cardinality(Spent(b)))'
  BY Zenon DEF BudgetInv
<1> DEFINE A == Units(AttemptsOf(b))
           S == Spent(b)
<1>1. IsFiniteSet(A) /\ Cardinality(A) \in Nat /\ Cardinality(A) <= Cardinality(S)
  BY FS_CardinalityType, Zenon DEF BudgetInv, SumOf
<1>2. S \subseteq Allowed /\ S' \subseteq Allowed
  BY Zenon DEF Spent, Allowed
<1>3. IsFiniteSet(S) /\ IsFiniteSet(S') /\ Cardinality(S) \in Nat /\ Cardinality(S') \in Nat
  BY <1>2, SpentFinite, FS_Subset, FS_CardinalityType, Zenon
<1>4. SUFFICES IsFiniteSet(A') /\ Cardinality(A') <= Cardinality(S')
  BY Zenon DEF SumOf
<1>5. ASSUME AttemptsKept, \A f \in Executions : NotLess(f, b)
      PROVE  IsFiniteSet(A') /\ Cardinality(A') <= Cardinality(S')
  <2>1. A' = A
    BY <1>5, AttemptsUnits, Zenon
  <2>2. S \subseteq S'
    BY <1>5, SpentGrows, Zenon
  <2>3. Cardinality(S) <= Cardinality(S')
    BY <1>3, <2>2, FS_Subset, Zenon
  <2> HIDE DEF A, S
  <2> QED BY <1>1, <1>3, <2>1, <2>3
<1>6. ASSUME NEW e \in Executions, Start(e) \/ ExecuteStep(e)
      PROVE  IsFiniteSet(A') /\ Cardinality(A') <= Cardinality(S')
  BY <1>5, <1>6, ExecuteSpends, Zenon
<1>7. ASSUME NEW e \in Executions, NEW i \in Positions, WorkerStep(e, i), ~StepAttempt(e, i)
      PROVE  IsFiniteSet(A') /\ Cardinality(A') <= Cardinality(S')
  BY <1>5, <1>7, WorkerSpends, Zenon
<1>8. ASSUME NEW e \in Executions, NEW i \in Positions, StepAttempt(e, i)
      PROVE  IsFiniteSet(A') /\ Cardinality(A') <= Cardinality(S')
  <2>0. WorkerStep(e, i)
    BY <1>8, Zenon DEF WorkerStep
  <2>1. PICK id, n : /\ <<id, n>> \notin A
                     /\ A' = IF b = i THEN A \cup {<<id, n>>} ELSE A
    BY <1>8, AttemptAdded, Zenon
  <2>2. \A f \in Executions : (f # e \/ b # i) => NotLess(f, b)
    BY <2>0, WorkerSpends, Zenon
  <2> DEFINE u == thread[e][i].attempt
             t == <<e, <<replanCount[e], u + 1>>>>
  <2>3. /\ phase[e] = "batch" /\ i \in batch[e] /\ UNCHANGED <<phase, batch, replanCount>>
        /\ u \in 0..MaxRetry /\ thread'[e][i].attempt = u + 1 /\ MaxRetry \in Nat
    <3>1. thread \in [Executions -> [Positions -> ThreadState]] /\ MaxRetry \in Nat
      BY BoundsAssumption, Zenon DEF TypeInv, TypeOK
    <3>2. /\ phase[e] = "batch" /\ i \in batch[e] /\ thread[e][i].pc = "ready"
          /\ UNCHANGED <<phase, batch, replanCount>>
          /\ thread' = [thread EXCEPT ![e][i] = [thread[e][i] EXCEPT !.pc = "running", !.attempt = @ + 1]]
      BY <1>8, Zenon DEF StepAttempt, Worker, SetThread, workerFrame
    <3>3. thread[e][i].attempt <= MaxRetry
      BY <3>2, Zenon DEF TypeInv, AttemptLeft
    <3> QED BY <3>1, <3>2, <3>3 DEF ThreadState
  <2>4. CASE b = i
    <3>1. Used(e, b) = u /\ Used(e, b)' = u + 1
      BY <2>3, <2>4, Zenon DEF Used
    <3>2. NotLess(e, b)
      BY <2>3, <3>1 DEF NotLess
    <3>3. S \subseteq S'
      BY <2>2, <3>2, SpentGrows, Zenon
    <3>4. replanCount[e] \in 0..MaxReplan
      BY Zenon DEF TypeInv, TypeOK
    <3>5. u + 1 \in 1..(MaxRetry + 1) /\ u + 1 \in Nat /\ u + 1 <= u + 1 /\ ~(u + 1 <= u)
      <4> HIDE DEF u
      <4> QED BY <2>3
    <3>6. t \in S' /\ t \notin S
      <4>1. t \in Allowed
        <5> HIDE DEF u
        <5> QED BY <3>4, <3>5, Zenon DEF Allowed
      <4>2. PICK r, k, s : r = replanCount[e] /\ k = u + 1 /\ s = <<e, <<r, k>>>>
        BY Zenon
      <4>3. s = t /\ s[1] = e /\ s[2][1] = r /\ s[2][2] = k
        BY <4>2, Zenon
      <4>4. replanCount'[e] = r /\ ~(r < r) /\ k <= Used(e, b)' /\ ~(k <= Used(e, b))
        BY <2>3, <3>1, <3>4, <3>5, <4>2
      <4> HIDE DEF t, u
      <4>5. s \in S'
        BY <4>1, <4>3, <4>4, Zenon DEF Spent, Allowed
      <4>6. s \notin S
        BY <4>2, <4>3, <4>4, Zenon DEF Spent
      <4> QED BY <4>3, <4>5, <4>6, Zenon
    <3>7. Cardinality(S \cup {t}) = Cardinality(S) + 1 /\ Cardinality(A \cup {<<id, n>>}) = Cardinality(A) + 1
          /\ IsFiniteSet(A \cup {<<id, n>>})
      BY <1>1, <1>3, <2>1, <3>6, FS_AddElement, Zenon
    <3>8. Cardinality(S \cup {t}) <= Cardinality(S')
      <4>1. S \cup {t} \in SUBSET S'
        BY <3>3, <3>6, Zenon
      <4> QED BY <1>3, <4>1, FS_Subset, Zenon
    <3>9. A' = A \cup {<<id, n>>}
      BY <2>1, <2>4, Zenon
    <3> HIDE DEF A, S, t
    <3> QED BY <1>1, <1>3, <3>7, <3>8, <3>9
  <2>5. CASE b # i
    <3>1. A' = A /\ S \subseteq S'
      BY <2>1, <2>2, <2>5, SpentGrows, Zenon
    <3>2. Cardinality(S) <= Cardinality(S')
      BY <1>3, <3>1, FS_Subset, Zenon
    <3> HIDE DEF A, S
    <3> QED BY <1>1, <1>3, <3>1, <3>2
  <2> QED BY <2>4, <2>5, Zenon
<1>9. ASSUME UNCHANGED <<stepState, phase, plan, completed, replanCount, batch, thread>>
      PROVE  IsFiniteSet(A') /\ Cardinality(A') <= Cardinality(S')
  <2>1. AttemptsKept
    BY <1>9, Zenon DEF AttemptsKept
  <2>2. \A f \in Executions : NotLess(f, b)
    BY <1>9, OthersSpend, Zenon
  <2> QED BY <1>5, <2>1, <2>2, Zenon
<1>10. ASSUME NEW e \in Executions, RequestCancel(e) \/ SessionTimeout(e)
       PROVE  UNCHANGED <<stepState, phase, plan, completed, replanCount, batch, thread>>
  BY <1>10, Zenon DEF RequestCancel, SessionTimeout, envFrame
<1>11. CASE MarkCancelRequested \/ UNCHANGED vars
  <2>1. UNCHANGED <<stepState, phase, plan, completed, replanCount, batch, thread>>
    BY <1>11, Zenon DEF MarkCancelRequested, envFrame, vars, store
  <2> QED BY <1>9, <2>1, Zenon
<1> HIDE DEF A, S
<1> QED BY <1>6, <1>7, <1>8, <1>9, <1>10, <1>11, Zenon DEF Next, AllReturned

\* With distinct step numbers, the attempts recorded for a step of the planner's list never
\* exceed (max_retry_attempts + 1) * (max_replan_attempts + 1) per call of execute, whatever
\* was renamed and whichever executions of the session overlap.
THEOREM BudgetAlwaysKept ==
    ASSUME IsFiniteSet(Executions), DistinctNumbers
    PROVE  Spec => []AttemptBudget
<1>1. Init => NewIsEmpty
  BY Zenon DEF Init, NewIsEmpty
<1>2. TypeInv /\ NewIsEmpty /\ [Next]_vars => NewIsEmpty'
  <2> SUFFICES ASSUME TypeInv, NewIsEmpty, [Next]_vars, NEW f \in Executions, phase'[f] = "new"
               PROVE  completed'[f] = {}
    BY Zenon DEF NewIsEmpty
  <2>y. /\ phase \in [Executions -> {"new", "loop", "batch", "returned"}]
        /\ completed \in [Executions -> SUBSET StepId]
    BY Zenon DEF TypeInv, TypeOK
  <2>1. SUFFICES phase[f] = "new" /\ completed'[f] = completed[f]
    BY DEF NewIsEmpty
  <2>2. ASSUME NEW e \in Executions, Start(e) \/ ExecuteStep(e)
        PROVE  phase[f] = "new" /\ completed'[f] = completed[f]
    BY <2>2, <2>y DEF Start, ExecuteStep, LoopCancelled, LoopTimedOut, LoopFinished,
       LoopBlockedReplan, LoopBlockedFail, LoopDispatch, BatchSucceeded, BatchReplan, BatchFailed,
       Install, Return, MergeBefore
  <2>3. ASSUME NEW e \in Executions, NEW i \in Positions, WorkerStep(e, i)
        PROVE  UNCHANGED <<phase, completed>>
    BY <2>3, Zenon DEF WorkerStep, StepSkip, StepEnter, StepCancelled, StepAttempt, StepRefused,
       StepRaises, StepInvoke, StepSucceeds, StepFails, StepRetryable, workerFrame
  <2>4. ASSUME NEW e \in Executions, RequestCancel(e) \/ SessionTimeout(e)
        PROVE  UNCHANGED <<phase, completed>>
    BY <2>4, Zenon DEF RequestCancel, SessionTimeout, envFrame
  <2>5. CASE MarkCancelRequested \/ UNCHANGED vars
    BY <2>5, Zenon DEF MarkCancelRequested, envFrame, vars
  <2> QED BY <2>2, <2>3, <2>4, <2>5, Zenon DEF Next, AllReturned
<1>3. Init => BudgetInv
  <2> SUFFICES ASSUME Init, NEW b \in Positions
               PROVE  /\ IsFiniteSet(Units(AttemptsOf(b)))
                      /\ SumOf(AttemptsOf(b)) <= Cardinality(Spent(b))
    BY Zenon DEF BudgetInv
  <2>1. DOMAIN AttemptsOf(b) = {}
    BY Zenon DEF Init, AttemptsOf
  <2>2. Units(AttemptsOf(b)) = {}
    BY <2>1, Zenon DEF Units
  <2>3. IsFiniteSet({}) /\ Cardinality({}) = 0
    BY FS_EmptySet, Zenon
  <2>4. Spent(b) \subseteq Allowed
    BY Zenon DEF Spent
  <2>5. Cardinality(Spent(b)) \in Nat
    BY <2>4, SpentFinite, FS_Subset, FS_CardinalityType, Zenon
  <2> QED BY <2>2, <2>3, <2>5 DEF SumOf
<1>4. BudgetInv => AttemptBudget
  <2> SUFFICES ASSUME BudgetInv, NEW b \in Positions
               PROVE  SumOf(AttemptsOf(b)) <= Cardinality(Executions) * (MaxRetry + 1) * (MaxReplan + 1)
    BY Zenon DEF AttemptBudget
  <2>1. /\ SumOf(AttemptsOf(b)) <= Cardinality(Spent(b)) /\ SumOf(AttemptsOf(b)) \in Nat
    BY FS_CardinalityType, Zenon DEF BudgetInv, SumOf
  <2>2. Spent(b) \in SUBSET Allowed
    BY Zenon DEF Spent
  <2>3. Cardinality(Spent(b)) <= Cardinality(Allowed)
    BY <2>2, SpentFinite, FS_Subset, Zenon
  <2>4. Cardinality(Spent(b)) \in Nat /\ Cardinality(Allowed) \in Nat
    BY <2>2, SpentFinite, FS_Subset, FS_CardinalityType, Zenon
  <2>5. SumOf(AttemptsOf(b)) <= Cardinality(Allowed)
    BY <2>1, <2>3, <2>4
  <2> QED BY <2>5, SpentFinite, Zenon
<1> QED
  BY <1>1, <1>2, <1>3, <1>4, InitType, NextType, InitNumbered, NextNumbered, StepsAlwaysRegistered,
     NextBudget, PTL DEF Spec
=============================================================================
