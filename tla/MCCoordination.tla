--------------------------- MODULE MCCoordination ---------------------------
(***************************************************************************)
(* The shared services for TLC: the multi-agent memory and dispatcher, the *)
(* message bus and the connection pool.  They share no state, so a         *)
(* behaviour chooses one of them and runs it alone.                        *)
(***************************************************************************)
EXTENDS SharedMemory, TaskDispatcher, MessageBus, ConnectionPool

VARIABLE focus      \* the component that moves

MCRoleOf == [t \in Assignments |-> IF t = 1 THEN "executor" ELSE "auditor"]
MCAgentRole == [a \in Agents |-> IF a = "auditor" THEN "auditor" ELSE "executor"]

coordinationVars == <<focus, memoryVars, dispatcherVars, busVars, poolVars>>

CoordinationInit ==
    /\ focus \in {"memory", "dispatcher", "bus", "pool"}
    /\ MemoryInit /\ DispatcherInit /\ PoolInit
    /\ bus \in IF focus = "bus" THEN {"memory", "redis"} ELSE {"memory"}
    /\ BusInit

InDispatcher(action) ==
    /\ focus = "dispatcher" /\ action
    /\ UNCHANGED <<focus, memoryVars, busVars, poolVars>>
InBus(action) ==
    /\ focus = "bus" /\ action
    /\ UNCHANGED <<focus, memoryVars, dispatcherVars, poolVars>>

CoordinationNext ==
    \/ /\ focus = "memory" /\ MemoryNext
       /\ UNCHANGED <<focus, dispatcherVars, busVars, poolVars>>
    \/ /\ focus = "dispatcher" /\ DispatcherNext
       /\ UNCHANGED <<focus, memoryVars, busVars, poolVars>>
    \/ /\ focus = "bus" /\ BusNext
       /\ UNCHANGED <<focus, memoryVars, dispatcherVars, poolVars>>
    \/ /\ focus = "pool" /\ PoolNext
       /\ UNCHANGED <<focus, memoryVars, dispatcherVars, busVars>>

\* The fairness of DispatcherSpec and of BusSpec.
CoordinationSpec ==
    /\ CoordinationInit /\ [][CoordinationNext]_coordinationVars
    /\ \A a \in Agents :
          /\ WF_coordinationVars(InDispatcher(DispatchNext(a)))
          /\ WF_coordinationVars(InDispatcher(Report(a) \/ AbandonAssignment(a)))
    /\ \A t \in Assignments : WF_coordinationVars(InDispatcher(TimeOut(t)))
    /\ WF_coordinationVars(InDispatcher(RecycleTimedOut))
    /\ \A q \in Requesters : WF_coordinationVars(InBus(at[q] # "out" /\ RequestStep(q)))
    /\ \A t \in Threads : WF_coordinationVars(InBus(RunHandler(t)))

\* The state of every component is of its type.
CoordinationTypeOK ==
    MemoryTypeOK /\ DispatcherTypeOK /\ BusTypeOK /\ PoolTypeOK
=============================================================================
