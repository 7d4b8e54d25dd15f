---------------------------- MODULE RedisTaskQueue ----------------------------
(***************************************************************************)
(* RedisTaskQueue: the same contract over Redis commands, with no lock and *)
(* no transaction.  Every command is a step of its own; callers interleave *)
(* and may die between any two commands.  One queue name.                  *)
(***************************************************************************)
EXTENDS TaskItems

VARIABLES
    redisList,      \* tq:queue: the list of ids
    redisItems,     \* tq:item: keys: id -> status and attempt_count
    redisDead,      \* tq:dead: the list
    redisAcked,     \* history: ids acknowledged
    producer,       \* id -> the enqueue call for it: at "set" or at "rpush"
    redisEnqueued,  \* id -> number of enqueue calls begun
    worker,         \* worker -> the command it is about to send, its task, what it read
    redisCrashed    \* workers that died

redisVars == <<redisList, redisItems, redisDead, redisAcked, producer, redisEnqueued, worker, redisCrashed>>

Put(t, status, attempts) ==
    redisItems' = [x \in DOMAIN redisItems \cup {t} |->
                        IF x = t THEN [status |-> status, attempts |-> attempts] ELSE redisItems[x]]

Delete(t) == redisItems' = [x \in DOMAIN redisItems \ {t} |-> redisItems[x]]

NoCall == [at |-> "lpop", task |-> NoTask, read |-> 0]

RedisInit ==
    /\ redisList = <<>>
    /\ redisItems = [t \in {} |-> [status |-> "pending", attempts |-> 0]]
    /\ redisDead = <<>>
    /\ redisAcked = {}
    /\ producer = [t \in Tasks |-> "set"]
    /\ redisEnqueued = [t \in Tasks |-> 0]
    /\ worker = [w \in Workers |-> NoCall]
    /\ redisCrashed = {}

-----------------------------------------------------------------------------
\* The item is stored as it is given: a new TaskItem, whose attempt_count is 0.
EnqueueSet(t) ==
    /\ producer[t] = "set"
    /\ redisEnqueued[t] < EnqueueLimit(t)
    /\ redisEnqueued' = [redisEnqueued EXCEPT ![t] = @ + 1]
    /\ Put(t, "pending", 0)
    /\ producer' = [producer EXCEPT ![t] = "rpush"]
    /\ UNCHANGED <<redisList, redisDead, redisAcked, worker, redisCrashed>>

EnqueuePush(t) ==
    /\ producer[t] = "rpush"
    /\ redisList' = Append(redisList, t)
    /\ producer' = [producer EXCEPT ![t] = "set"]
    /\ UNCHANGED <<redisItems, redisDead, redisAcked, redisEnqueued, worker, redisCrashed>>

At(w, command) == w \notin redisCrashed /\ worker[w].at = command

Goto(w, command) == worker' = [worker EXCEPT ![w].at = command]

Reads(w, command) ==
    worker' = [worker EXCEPT ![w].at = command, ![w].read = redisItems[worker[w].task].attempts]

Done(w) == worker' = [worker EXCEPT ![w] = NoCall]

DequeuePop(w) ==
    /\ At(w, "lpop")
    /\ redisList # <<>>
    /\ redisList' = Tail(redisList)
    /\ worker' = [worker EXCEPT ![w] = [at |-> "get", task |-> Head(redisList), read |-> 0]]
    /\ UNCHANGED <<redisItems, redisDead, redisAcked, producer, redisEnqueued, redisCrashed>>

DequeueGet(w) ==
    /\ At(w, "get")
    /\ \/ worker[w].task \in DOMAIN redisItems /\ Reads(w, "set")
       \/ worker[w].task \notin DOMAIN redisItems /\ Done(w)
    /\ UNCHANGED <<redisList, redisItems, redisDead, redisAcked, producer, redisEnqueued, redisCrashed>>

DequeueSet(w) ==
    /\ At(w, "set")
    /\ Put(worker[w].task, "processing", worker[w].read + 1)
    /\ Goto(w, "work")
    /\ UNCHANGED <<redisList, redisDead, redisAcked, producer, redisEnqueued, redisCrashed>>

\* The worker has processed the task and calls ack or nack, which GET the item
\* and give up when it is gone.
AnswerGet(w) ==
    /\ At(w, "work")
    /\ \/ /\ worker[w].task \in DOMAIN redisItems
          /\ \E command \in {"ack", "nack"} : Reads(w, command)
       \/ worker[w].task \notin DOMAIN redisItems /\ Done(w)
    /\ UNCHANGED <<redisList, redisItems, redisDead, redisAcked, producer, redisEnqueued, redisCrashed>>

AckDelete(w) ==
    /\ At(w, "ack")
    /\ Delete(worker[w].task)
    /\ redisAcked' = redisAcked \cup {worker[w].task}
    /\ Done(w)
    /\ UNCHANGED <<redisList, redisDead, producer, redisEnqueued, redisCrashed>>

\* Mutant: the id is not pushed again.
NackWriteOnly(w) ==
    /\ At(w, "nack")
    /\ Put(worker[w].task, "pending", worker[w].read)
    /\ Done(w)
    /\ UNCHANGED <<redisList, redisDead, redisAcked, producer, redisEnqueued, redisCrashed>>

NackWrite(w) ==
    /\ At(w, "nack")
    /\ \/ /\ worker[w].read >= MaxRetries
          /\ Delete(worker[w].task)
          /\ Goto(w, "bury")
       \/ /\ worker[w].read < MaxRetries
          /\ Put(worker[w].task, "pending", worker[w].read)
          /\ Goto(w, "requeue")
    /\ UNCHANGED <<redisList, redisDead, redisAcked, producer, redisEnqueued, redisCrashed>>

NackBury(w) ==
    /\ At(w, "bury")
    /\ redisDead' = Append(redisDead, worker[w].task)
    /\ Done(w)
    /\ UNCHANGED <<redisList, redisItems, redisAcked, producer, redisEnqueued, redisCrashed>>

\* Mutant: the id goes back to the front of the list.
NackRequeueFront(w) ==
    /\ At(w, "requeue")
    /\ redisList' = <<worker[w].task>> \o redisList
    /\ Done(w)
    /\ UNCHANGED <<redisItems, redisDead, redisAcked, producer, redisEnqueued, redisCrashed>>

NackRequeue(w) ==
    /\ At(w, "requeue")
    /\ redisList' = Append(redisList, worker[w].task)
    /\ Done(w)
    /\ UNCHANGED <<redisItems, redisDead, redisAcked, producer, redisEnqueued, redisCrashed>>

CallerDies(w) ==
    /\ MayCrash
    /\ w \notin redisCrashed
    /\ worker[w] # NoCall
    /\ redisCrashed' = redisCrashed \cup {w}
    /\ UNCHANGED <<redisList, redisItems, redisDead, redisAcked, producer, redisEnqueued, worker>>

\* Nothing is left to do, or nobody is left to do it.
Quiet ==
    /\ \A t \in Tasks : producer[t] = "set"
    /\ \A w \in Workers : w \in redisCrashed \/ worker[w] = NoCall

Stop ==
    /\ Quiet
    /\ redisList = <<>> \/ redisCrashed = Workers
    /\ UNCHANGED redisVars

CommandStep(w) ==
    \/ DequeuePop(w) \/ DequeueGet(w) \/ DequeueSet(w)
    \/ AnswerGet(w)
    \/ AckDelete(w)
    \/ NackWrite(w) \/ NackBury(w) \/ NackRequeue(w)

RedisNext ==
    \/ \E t \in Tasks : EnqueueSet(t) \/ EnqueuePush(t)
    \/ \E w \in Workers : CommandStep(w) \/ CallerDies(w)
    \/ Stop

RedisSpec == RedisInit /\ [][RedisNext]_redisVars

-----------------------------------------------------------------------------
\* A task belongs to the worker whose call has popped it.
Held == {worker[w].task : w \in Workers} \ {NoTask}

Holder(t) == CHOOSE w \in Workers : worker[w].task = t

\* attempt_count, an increment that is not yet written included.
Attempts(t) ==
    IF t \in Held
      THEN CASE worker[Holder(t)].at \in {"get", "set"} -> redisItems[t].attempts + 1
             [] worker[Holder(t)].at \in {"bury", "requeue"} -> worker[Holder(t)].read
             [] OTHER -> redisItems[t].attempts
      ELSE IF t \in DOMAIN redisItems THEN redisItems[t].attempts ELSE 0

RedisDelivery == INSTANCE TaskDelivery WITH
    Tasks    <- Distinct,
    waiting  <- OfDistinct(redisList),
    held     <- Held \ Repeated,
    done     <- redisAcked \ Repeated,
    dead     <- {redisDead[k] : k \in DOMAIN redisDead} \ Repeated,
    attempts <- [t \in Distinct |-> Attempts(t)]

\* Every key and every caller's registers hold values the code can put there;
\* attempt_count stays within its limit, and an item waits only while it has an
\* attempt left.
RedisTypeOK ==
    /\ redisList \in Seq(Tasks)
    /\ DOMAIN redisItems \subseteq Tasks
    /\ \A t \in DOMAIN redisItems :
          /\ redisItems[t] \in [status : {"pending", "processing"}, attempts : 0 .. AttemptLimit(t)]
          /\ redisItems[t].status = "pending" => redisItems[t].attempts < MaxRetries
    /\ redisDead \in Seq(Tasks)
    /\ redisAcked \subseteq Tasks
    /\ producer \in [Tasks -> {"set", "rpush"}]
    /\ redisEnqueued \in [Tasks -> 0 .. 2]
    /\ worker \in [Workers ->
          [at : {"lpop", "get", "set", "work", "ack", "nack", "bury", "requeue"},
           task : Tasks \cup {NoTask}, read : 0 .. MaxRetries + 1]]
    /\ redisCrashed \subseteq Workers

\* For the ids enqueued once the unguarded command sequences still are the FIFO
\* delivery service, whatever their interleaving, wherever a worker dies and
\* whatever happens to other ids: a task can stay held by a dead worker, but is
\* never doubled, skipped or handed out again.
RedisImplementsDelivery == RedisDelivery!DSpec

\* Even when ids repeat and the read-modify-writes of two workers on one item
\* interleave, an item left pending once no call is in flight has its id in the
\* list, so that a later dequeue finds it.
RedisPendingIsQueued ==
    Quiet /\ redisCrashed = {} =>
        \A t \in DOMAIN redisItems :
            redisItems[t].status = "pending" => \E k \in DOMAIN redisList : redisList[k] = t
=============================================================================
