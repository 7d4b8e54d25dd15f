----------------------------- MODULE MCScheduler -----------------------------
(***************************************************************************)
(* The scheduler's two task queues and its lock for TLC.  They share no    *)
(* state, so a behaviour chooses one of them and runs it alone: the states *)
(* of the three add up instead of multiplying.                             *)
(***************************************************************************)
EXTENDS InMemoryTaskQueue, RedisTaskQueue, DistributedLock

VARIABLE focus      \* the component that moves

schedulerVars == <<focus, vars, redisVars, lockVars>>

SchedulerInit ==
    /\ focus \in {"memory queue", "redis queue", "lock"}
    /\ Init
    /\ RedisInit
    /\ LockInit
    /\ focus # "lock" => backend = "memory"

SchedulerNext ==
    \/ focus = "memory queue" /\ Next /\ UNCHANGED <<focus, redisVars, lockVars>>
    \/ focus = "redis queue" /\ RedisNext /\ UNCHANGED <<focus, vars, lockVars>>
    \/ focus = "lock" /\ LockNext /\ UNCHANGED <<focus, vars, redisVars>>

\* The fairness of Spec and of LockSpec: workers answer, and time passes.
SchedulerSpec ==
    /\ SchedulerInit /\ [][SchedulerNext]_schedulerVars
    /\ \A w \in Workers :
          WF_schedulerVars(focus = "memory queue" /\ WorkerStep(w)
                             /\ UNCHANGED <<focus, redisVars, lockVars>>)
    /\ \A c \in Clients :
          WF_schedulerVars(focus = "lock" /\ Expire(c) /\ UNCHANGED <<focus, vars, redisVars>>)

\* The state of both queues and of the lock is of its type; attempt counts stay within
\* their limit, and a stale lock entry belongs to no valid grant.
SchedulerTypeOK == TypeOK /\ RedisTypeOK /\ LockTypeOK
=============================================================================
