--------------------------- MODULE TaskDispatcher ---------------------------
(***************************************************************************)
(* TaskDispatcher and CallbackHandler of the multi-agent layer, with the   *)
(* agents that take assignments and the coordinator that recycles the      *)
(* timed-out ones.  A method of the dispatcher runs as one step; what an   *)
(* agent does between dispatch_next, record and complete takes any time.   *)
(* Assignments are numbered in the order of their created_at.              *)
(***************************************************************************)
EXTENDS Integers

CONSTANTS
    Assignments,    \* numbers
    RoleOf,         \* assignment -> role
    Agents,
    AgentRole,      \* agent -> role
    RetryLimit,
    Nothing         \* an agent without assignment

ASSUME DispatcherAssumption ==
    /\ Assignments \subseteq Nat
    /\ RetryLimit \in Nat
    /\ Nothing \notin Assignments

VARIABLES
    status,         \* assignment -> "new" (not enqueued) or its status
    attempts,       \* assignment -> attempt_count
    overdue,        \* running assignments whose timeout_seconds are over
    hands,          \* agent -> the assignment it works on, or Nothing
    recorded,       \* agent -> "no", or the outcome it recorded and has not completed
    callbacks,      \* assignment -> the outcomes of its callback records
    announced,      \* assignment -> outcome of the last task.completed, or "none"
    orphaned        \* history: recorded by an agent that then went away

dispatcherVars ==
    <<status, attempts, overdue, hands, recorded, callbacks, announced, orphaned>>

Outcomes == {"completed", "failed"}

Settled(t) == status[t] \in Outcomes

DispatcherInit ==
    /\ status = [t \in Assignments |-> "new"]
    /\ attempts = [t \in Assignments |-> 0]
    /\ overdue = {}
    /\ hands = [a \in Agents |-> Nothing]
    /\ recorded = [a \in Agents |-> "no"]
    /\ callbacks = [t \in Assignments |-> {}]
    /\ announced = [t \in Assignments |-> "none"]
    /\ orphaned = {}

\* enqueue; a second one of the same task_id raises.
EnqueueAssignment(t) ==
    /\ status[t] = "new"
    /\ status' = [status EXCEPT ![t] = "pending"]
    /\ UNCHANGED <<attempts, overdue, hands, recorded, callbacks, announced, orphaned>>

Candidates(role) == {t \in Assignments : status[t] = "pending" /\ RoleOf[t] = role}

\* dispatch_next: the oldest pending assignment of the agent's role.
DispatchNext(a) ==
    /\ hands[a] = Nothing
    /\ \E t \in Candidates(AgentRole[a]) :
          /\ \A u \in Candidates(AgentRole[a]) : t <= u
          /\ status' = [status EXCEPT ![t] = "running"]
          /\ attempts' = [attempts EXCEPT ![t] = @ + 1]
          /\ hands' = [hands EXCEPT ![a] = t]
    /\ UNCHANGED <<overdue, recorded, callbacks, announced, orphaned>>

\* The agent records its callback.
RecordCallback(a, outcome) ==
    /\ hands[a] # Nothing
    /\ recorded[a] = "no"
    /\ recorded' = [recorded EXCEPT ![a] = outcome]
    /\ callbacks' = [callbacks EXCEPT ![hands[a]] = @ \cup {outcome}]
    /\ UNCHANGED <<status, attempts, overdue, hands, announced, orphaned>>

\* aggregate_task
AllSucceeded(t) == callbacks[t] = {"completed"}

\* complete: whatever the status is by now, and task.completed on the bus.
CompleteAssignment(a) ==
    /\ hands[a] # Nothing
    /\ recorded[a] # "no"
    /\ status' = [status EXCEPT ![hands[a]] = recorded[a]]
    /\ announced' = [announced EXCEPT ![hands[a]] = recorded[a]]
    /\ overdue' = overdue \ {hands[a]}
    /\ hands' = [hands EXCEPT ![a] = Nothing]
    /\ recorded' = [recorded EXCEPT ![a] = "no"]
    /\ UNCHANGED <<attempts, callbacks, orphaned>>

\* The agent goes away with its assignment; another takes its place.
AbandonAssignment(a) ==
    /\ hands[a] # Nothing
    /\ orphaned' = IF recorded[a] = "no" THEN orphaned ELSE orphaned \cup {hands[a]}
    /\ hands' = [hands EXCEPT ![a] = Nothing]
    /\ recorded' = [recorded EXCEPT ![a] = "no"]
    /\ UNCHANGED <<status, attempts, overdue, callbacks, announced>>

\* timeout_seconds have passed since the dispatch.
TimeOut(t) ==
    /\ status[t] = "running"
    /\ t \notin overdue
    /\ overdue' = overdue \cup {t}
    /\ UNCHANGED <<status, attempts, hands, recorded, callbacks, announced, orphaned>>

\* Mutant: an assignment out of retries stays as it is.
RecycledKept(t) ==
    IF t \notin overdue \/ attempts[t] > RetryLimit THEN status[t] ELSE "pending"

\* The status recycle_timed_out gives t.
Recycled(t) ==
    IF t \notin overdue THEN status[t]
    ELSE IF attempts[t] > RetryLimit THEN "failed" ELSE "pending"

\* recycle_timed_out: all the timed-out running assignments at once.
RecycleTimedOut ==
    /\ overdue # {}
    /\ status' = [t \in Assignments |-> Recycled(t)]
    /\ overdue' = {}
    /\ UNCHANGED <<attempts, hands, recorded, callbacks, announced, orphaned>>

AllDone ==
    /\ \A t \in Assignments : Settled(t)
    /\ \A a \in Agents : hands[a] = Nothing
    /\ UNCHANGED dispatcherVars

Report(a) == (\E o \in Outcomes : RecordCallback(a, o)) \/ CompleteAssignment(a)

DispatcherNext ==
    \/ \E t \in Assignments : EnqueueAssignment(t) \/ TimeOut(t)
    \/ \E a \in Agents : DispatchNext(a) \/ Report(a) \/ AbandonAssignment(a)
    \/ RecycleTimedOut
    \/ AllDone

\* Agents ask for work and finish with what they have or go away, time passes, and
\* the coordinator keeps recycling.
DispatcherSpec ==
    /\ DispatcherInit /\ [][DispatcherNext]_dispatcherVars
    /\ \A a \in Agents : WF_dispatcherVars(DispatchNext(a))
    /\ \A a \in Agents : WF_dispatcherVars(Report(a) \/ AbandonAssignment(a))
    /\ \A t \in Assignments : WF_dispatcherVars(TimeOut(t))
    /\ WF_dispatcherVars(RecycleTimedOut)

-----------------------------------------------------------------------------
DispatcherTypeOK ==
    /\ status \in [Assignments -> {"new", "pending", "running"} \cup Outcomes]
    /\ attempts \in [Assignments -> Nat]
    /\ overdue \subseteq {t \in Assignments : status[t] = "running"}
    /\ hands \in [Agents -> Assignments \cup {Nothing}]
    /\ recorded \in [Agents -> Outcomes \cup {"no"}]
    /\ callbacks \in [Assignments -> SUBSET Outcomes]
    /\ announced \in [Assignments -> Outcomes \cup {"none"}]
    /\ orphaned \subseteq Assignments

\* recycle_timed_out and dispatch_next together give an assignment at most one
\* attempt and retry_limit retries, and late complete calls buy it no more.
RetryBudget ==
    \A t \in Assignments :
        /\ attempts[t] <= RetryLimit + 1
        /\ status[t] = "pending" => attempts[t] <= RetryLimit

\* The last task.completed on the bus says what the dispatcher says of a settled
\* assignment, however many agents of earlier attempts complete late.
AnnouncedIsStatus ==
    \A t \in Assignments : announced[t] # "none" /\ Settled(t) => status[t] = announced[t]

\* aggregate_task says all_succeeded only for an assignment that is completed, once
\* every agent that recorded a callback has completed.
AggregateAgrees ==
    \A t \in Assignments \ orphaned :
        AllSucceeded(t) /\ (\A a \in Agents : hands[a] = t => recorded[a] = "no")
            => status[t] = "completed"

\* A settled assignment is never pending or running again.
SettledStays ==
    [][\A t \in Assignments : Settled(t) => status'[t] \in Outcomes]_dispatcherVars

\* Every enqueued assignment is settled in the end, though agents go away.
EveryAssignmentSettles ==
    \A t \in Assignments : status[t] = "pending" ~> Settled(t)
=============================================================================
