------------------------ MODULE RedisTaskQueueProofs -------------------------
(***************************************************************************)
(* RedisTaskQueue for any tasks and workers and any max_retries.  Its      *)
(* calls are several commands each, with nothing between two of them that  *)
(* keeps another caller out.  The invariant says where the commands leave  *)
(* each id: of an id that is enqueued twice, only that a pending item of   *)
(* it is queued or on its way; of the others, that one place at a time     *)
(* holds them and that what a call has read is still what the key holds.   *)
(* It is enough to make every command on the others a step of TaskDelivery *)
(* or none (DeliveryProofs concludes).  The types follow at the end.       *)
(***************************************************************************)
EXTENDS SchedulerProofs

\* An id is listed, or a call has popped it.
Listed(t) == \E k \in DOMAIN redisList : redisList[k] = t

Called(t) == \E w \in Workers : worker[w].task = t

Buried(t) == \E k \in DOMAIN redisDead : redisDead[k] = t

\* A pending item's id is in the list or on its way there, whoever shares the id.
PendingSomewhere ==
    \A t \in DOMAIN redisItems : redisItems[t].status = "pending" =>
        \/ Listed(t)
        \/ producer[t] = "rpush"
        \/ \E w \in Workers : worker[w].task = t /\ worker[w].at \in {"get", "set", "requeue"}

\* What a call has read of the item of a distinct id is still what the key holds.
CallFits(c) ==
    /\ c.at \in {"get", "set", "requeue"} => Known(c.task, "pending")
    /\ c.at \in {"work", "ack", "nack"} =>
          Known(c.task, "processing") /\ redisItems[c.task].attempts <= MaxRetries
    /\ c.at \in {"set", "ack", "nack", "requeue"} => c.read = redisItems[c.task].attempts
    /\ c.at = "bury" => c.task \notin DOMAIN redisItems /\ MaxRetries <= c.read

CallsFit == \A w \in Workers : worker[w].task \in Distinct => CallFits(worker[w])

ListFits == \A k \in DOMAIN redisList : redisList[k] \in Distinct => Known(redisList[k], "pending")

\* A distinct id is in one place: once in the list, or in one call.
OnePlace ==
    /\ \A k, l \in DOMAIN redisList : redisList[k] \in Distinct /\ redisList[k] = redisList[l] => k = l
    /\ \A v, w \in Workers : worker[v].task \in Distinct /\ worker[v].task = worker[w].task => v = w
    /\ \A t \in Distinct : ~(Listed(t) /\ Called(t))

\* A distinct id between the SET and the RPUSH of its enqueue is nowhere yet.
PushesFit ==
    \A t \in Distinct : producer[t] = "rpush" =>
        /\ t \in DOMAIN redisItems /\ redisItems[t] = [status |-> "pending", attempts |-> 0]
        /\ ~Listed(t) /\ ~Called(t) /\ t \notin redisAcked /\ ~Buried(t)
        /\ redisEnqueued[t] = 1

NewNowhere ==
    \A t \in Distinct : redisEnqueued[t] = 0 =>
        /\ t \notin DOMAIN redisItems
        /\ ~Listed(t) /\ ~Called(t) /\ t \notin redisAcked /\ ~Buried(t)

RedisInv ==
    /\ RedisTypes
    /\ PendingSomewhere
    /\ CallsFit
    /\ ListFits
    /\ OnePlace
    /\ PushesFit
    /\ NewNowhere

\* No key and no call at the start.
LEMMA InitRedis == RedisInit => RedisInv
<1> SUFFICES ASSUME RedisInit PROVE RedisInv
  BY Zenon
<1> USE QueueAssumption
<1>1. DOMAIN redisItems = {} /\ DOMAIN redisList = {} /\ DOMAIN redisDead = {} /\ redisAcked = {}
  BY DEF RedisInit
<1>2. \A w \in Workers : worker[w] = NoCall
  BY Zenon DEF RedisInit
<1>3. RedisTypes
  <2>1. redisList \in Seq(Tasks) /\ redisDead \in Seq(Tasks)
    BY DEF RedisInit
  <2>2. producer \in [Tasks -> {"set", "rpush"}] /\ redisEnqueued \in [Tasks -> 0 .. 2]
    BY DEF RedisInit
  <2>3. NoCall \in Call /\ NoCall.at = "lpop" /\ NoCall.task = NoTask
    BY Zenon DEF NoCall, Call
  <2>4. worker \in [Workers -> Call]
    BY <2>3, Zenon DEF RedisInit
  <2>5. redisCrashed = {}
    BY Zenon DEF RedisInit
  <2> QED BY <1>1, <1>2, <2>1, <2>2, <2>3, <2>4, <2>5, Zenon DEF RedisTypes
<1>4. \A t \in Distinct : ~Listed(t) /\ ~Called(t) /\ ~Buried(t)
  BY <1>1, <1>2 DEF Listed, Called, Buried, NoCall, Distinct
<1>5. PendingSomewhere /\ ListFits
  BY <1>1, Zenon DEF PendingSomewhere, ListFits
<1>6. CallsFit /\ OnePlace
  BY <1>1, <1>2, <1>4 DEF CallsFit, OnePlace, NoCall, Distinct
<1>7. PushesFit
  BY Zenon DEF RedisInit, PushesFit, Distinct
<1>8. NewNowhere
  BY <1>1, <1>4, Zenon DEF NewNowhere
<1> QED BY <1>3, <1>5, <1>6, <1>7, <1>8, Zenon DEF RedisInv

\* The SET of an enqueue: a distinct id is new.
LEMMA EnqueueSetRedis ==
    ASSUME RedisInv, NEW t \in Tasks, EnqueueSet(t)
    PROVE  RedisInv'
<1> USE QueueAssumption DEF RedisInv
<1>1. /\ DOMAIN redisItems' = DOMAIN redisItems \cup {t}
      /\ redisItems'[t] = [status |-> "pending", attempts |-> 0]
      /\ \A x \in DOMAIN redisItems : x # t => redisItems'[x] = redisItems[x]
  BY PutItem, Zenon DEF EnqueueSet
<1>2. redisEnqueued[t] \in 0 .. 2 /\ redisEnqueued[t] < EnqueueLimit(t) /\ EnqueueLimit(t) \in {1, 2}
  BY Zenon DEF EnqueueSet, RedisTypes, EnqueueLimit
<1>3. t \in Distinct => redisEnqueued[t] = 0
  BY <1>2 DEF EnqueueLimit, Distinct
<1>4. /\ redisEnqueued' \in [Tasks -> 0 .. 2]
      /\ redisEnqueued'[t] = redisEnqueued[t] + 1
      /\ \A x \in Tasks : x # t => redisEnqueued'[x] = redisEnqueued[x]
  <2>1. redisEnqueued[t] + 1 \in 0 .. 2
    BY <1>2
  <2> QED BY <1>2, <2>1, Zenon DEF EnqueueSet, RedisTypes
<1>5. /\ producer' \in [Tasks -> {"set", "rpush"}]
      /\ producer'[t] = "rpush"
      /\ \A x \in Tasks : x # t => producer'[x] = producer[x]
  BY Zenon DEF EnqueueSet, RedisTypes
<1>6. UNCHANGED <<redisList, redisDead, redisAcked, worker, redisCrashed>>
  BY Zenon DEF EnqueueSet
<1>7. \A x : Listed(x)' = Listed(x) /\ Called(x)' = Called(x) /\ Buried(x)' = Buried(x)
  BY <1>6, Zenon DEF Listed, Called, Buried
<1>8. RedisTypes'
  <2>1. redisItems'[t] \in Item /\ redisItems'[t].attempts < MaxRetries
    BY <1>1 DEF Item
  <2> QED BY <1>1, <1>4, <1>5, <1>6, <2>1, Zenon DEF RedisTypes
<1>9. PendingSomewhere'
  BY <1>1, <1>5, <1>6, <1>7 DEF PendingSomewhere, RedisTypes
<1>10. t \in Distinct => t \notin DOMAIN redisItems /\ ~Listed(t) /\ ~Called(t) /\ t \notin redisAcked /\ ~Buried(t)
  BY <1>3, Zenon DEF NewNowhere
<1>11. CallsFit'
  <2>1. \A w \in Workers : worker[w].task \in Distinct => worker[w].task # t
    BY <1>10, Zenon DEF Called
  <2>2. \A w \in Workers : worker[w].task \in Distinct => CallFits(worker[w])'
    BY <1>1, <1>6, <2>1 DEF CallsFit, CallFits, Known
  <2> QED BY <1>6, <2>2, Zenon DEF CallsFit
<1>12. ListFits'
  BY <1>1, <1>6 DEF ListFits, Known
<1>13. OnePlace'
  BY <1>6, <1>7, Zenon DEF OnePlace
<1>14. PushesFit'
  BY <1>1, <1>3, <1>4, <1>5, <1>6, <1>7, <1>10 DEF PushesFit, Distinct
<1>15. NewNowhere'
  <2> SUFFICES ASSUME NEW x \in Distinct, redisEnqueued'[x] = 0
               PROVE  (/\ x \notin DOMAIN redisItems
                       /\ ~Listed(x) /\ ~Called(x) /\ x \notin redisAcked /\ ~Buried(x))'
    BY Zenon DEF NewNowhere
  <2>1. x # t /\ redisEnqueued[x] = 0
    BY <1>2, <1>4 DEF Distinct
  <2> QED BY <1>1, <1>6, <1>7, <2>1, Zenon DEF NewNowhere
<1> QED BY <1>8, <1>9, <1>11, <1>12, <1>13, <1>14, <1>15, Zenon

\* What an RPUSH does to the list.
LEMMA PushedId ==
    ASSUME redisList \in Seq(Tasks), NEW t \in Tasks, redisList' = Append(redisList, t)
    PROVE  /\ redisList' \in Seq(Tasks)
           /\ redisList'[Len(redisList) + 1] = t
           /\ \A k \in DOMAIN redisList : redisList'[k] = redisList[k]
           /\ DOMAIN redisList' = DOMAIN redisList \cup {Len(redisList) + 1}
           /\ \A x : Listed(x)' <=> Listed(x) \/ x = t
<1>1. /\ redisList' \in Seq(Tasks)
      /\ redisList'[Len(redisList) + 1] = t
      /\ \A k \in DOMAIN redisList : redisList'[k] = redisList[k]
      /\ DOMAIN redisList' = DOMAIN redisList \cup {Len(redisList) + 1}
  OBVIOUS
<1>2. \A x : Listed(x)' <=> Listed(x) \/ x = t
  BY <1>1, Zenon DEF Listed
<1> QED BY <1>1, <1>2, Zenon

\* The conjuncts about the list after an RPUSH of an id that is nowhere, if it is a
\* distinct one.
LEMMA PushedOnce ==
    ASSUME RedisInv, NEW t \in Tasks, redisList' = Append(redisList, t),
           UNCHANGED redisItems,
           t \in Distinct => ~Listed(t) /\ Known(t, "pending")
    PROVE  /\ ListFits'
           /\ \A k, l \in DOMAIN redisList' :
                 redisList'[k] \in Distinct /\ redisList'[k] = redisList'[l] => k = l
<1>1. redisList \in Seq(Tasks)
  BY Zenon DEF RedisInv, RedisTypes
<1>2. /\ redisList'[Len(redisList) + 1] = t
      /\ \A k \in DOMAIN redisList : redisList'[k] = redisList[k]
      /\ DOMAIN redisList' = DOMAIN redisList \cup {Len(redisList) + 1}
  BY <1>1, PushedId, Zenon
<1>3. ListFits'
  BY <1>2, Zenon DEF RedisInv, ListFits, Known
<1>4. t \in Distinct => \A k \in DOMAIN redisList : redisList[k] # t
  BY Zenon DEF Listed
<1>5. \A k, l \in DOMAIN redisList' :
         redisList'[k] \in Distinct /\ redisList'[k] = redisList'[l] => k = l
  BY <1>2, <1>4 DEF RedisInv, OnePlace
<1> QED BY <1>3, <1>5, Zenon

\* The RPUSH of an enqueue.
LEMMA EnqueuePushRedis ==
    ASSUME RedisInv, NEW t \in Tasks, EnqueuePush(t)
    PROVE  RedisInv'
<1> USE DEF RedisInv
<1>1. redisList \in Seq(Tasks) /\ redisList' = Append(redisList, t)
  BY Zenon DEF EnqueuePush, RedisTypes
<1>2. UNCHANGED <<redisItems, redisDead, redisAcked, redisEnqueued, worker, redisCrashed>>
  BY Zenon DEF EnqueuePush
<1>3. redisList' \in Seq(Tasks) /\ \A x : Listed(x)' <=> Listed(x) \/ x = t
  BY <1>1, PushedId, Zenon
<1>4. /\ producer' \in [Tasks -> {"set", "rpush"}]
      /\ producer'[t] = "set"
      /\ \A x \in Tasks : x # t => producer'[x] = producer[x]
  BY Zenon DEF EnqueuePush, RedisTypes
<1>5. \A x : Called(x)' = Called(x) /\ Buried(x)' = Buried(x)
  BY <1>2, Zenon DEF Called, Buried
<1>6. t \in Distinct => Known(t, "pending") /\ ~Listed(t) /\ ~Called(t) /\ redisEnqueued[t] = 1
  BY DEF EnqueuePush, PushesFit, Known
<1>7. RedisTypes'
  BY <1>2, <1>3, <1>4, Zenon DEF RedisTypes
<1>8. PendingSomewhere'
  BY <1>2, <1>3, <1>4 DEF PendingSomewhere, RedisTypes
<1>9. CallsFit'
  BY <1>2, Zenon DEF CallsFit, CallFits, Known
<1>10. ListFits' /\ \A k, l \in DOMAIN redisList' :
                       redisList'[k] \in Distinct /\ redisList'[k] = redisList'[l] => k = l
  BY <1>1, <1>2, <1>6, PushedOnce, Zenon
<1>11. OnePlace'
  BY <1>2, <1>3, <1>5, <1>6, <1>10, Zenon DEF OnePlace
<1>12. PushesFit'
  BY <1>2, <1>3, <1>4, <1>5, Zenon DEF PushesFit, Distinct
<1>13. NewNowhere'
  BY <1>2, <1>3, <1>5, <1>6 DEF NewNowhere
<1> QED BY <1>7, <1>8, <1>9, <1>10, <1>11, <1>12, <1>13, Zenon

\* A call that goes on keeps its id.
LEMMA CallGoesOn ==
    ASSUME RedisInv, NEW w \in Workers, NEW c, Becomes(w, c), c.task = worker[w].task,
           c.at # "lpop", worker[w].at # "lpop",
           UNCHANGED <<redisList, redisDead>>
    PROVE  /\ worker[w].task \in Tasks
           /\ worker' \in [Workers -> Call]
           /\ \A v \in Workers : worker'[v].at = "lpop" <=> worker'[v].task = NoTask
           /\ \A x : Listed(x)' = Listed(x) /\ Called(x)' = Called(x) /\ Buried(x)' = Buried(x)
           /\ OnePlace'
<1>1. worker[w].task \in Tasks
  BY Zenon DEF RedisInv, RedisTypes, Call
<1>2. \A v \in Workers : worker'[v].task = worker[v].task
  BY Zenon DEF Becomes
<1>3. \A x : Listed(x)' = Listed(x) /\ Called(x)' = Called(x) /\ Buried(x)' = Buried(x)
  BY <1>2, Zenon DEF Listed, Called, Buried
<1>4. OnePlace'
  BY <1>2, <1>3, Zenon DEF RedisInv, OnePlace
<1>5. \A v \in Workers : worker'[v].at = "lpop" <=> worker'[v].task = NoTask
  BY <1>1, <1>2, QueueAssumption, Zenon DEF RedisInv, RedisTypes, Becomes
<1> QED BY <1>1, <1>3, <1>4, <1>5, Zenon DEF Becomes

\* A call that ends lets its id go; a distinct id is then in no call.
LEMMA CallEnds ==
    ASSUME RedisInv, NEW w \in Workers, Done(w), worker[w].at # "lpop"
    PROVE  /\ worker[w].task \in Tasks
           /\ worker' \in [Workers -> Call]
           /\ \A v \in Workers : worker'[v].at = "lpop" <=> worker'[v].task = NoTask
           /\ \A v \in Workers : worker'[v].task \in Tasks => v # w /\ worker'[v] = worker[v]
           /\ \A v \in Workers : v # w => worker'[v] = worker[v]
           /\ \A x \in Tasks : Called(x)' => Called(x)
           /\ \A x \in Tasks : Called(x) => Called(x)' \/ x = worker[w].task
           /\ \A x \in Distinct : x = worker[w].task => ~Called(x)' /\ ~Listed(x)
           /\ \A u, v \in Workers :
                 worker'[u].task \in Distinct /\ worker'[u].task = worker'[v].task => u = v
<1> USE QueueAssumption
<1>1. Becomes(w, NoCall) /\ NoCall.at = "lpop" /\ NoCall.task = NoTask
  BY DoneBecomes, Zenon DEF RedisInv
<1>2. worker[w].task \in Tasks
  BY Zenon DEF RedisInv, RedisTypes, Call
<1>3. \A v \in Workers : worker'[v].task \in Tasks => v # w /\ worker'[v] = worker[v]
  BY <1>1, Zenon DEF Becomes
<1>4. \A v \in Workers : worker'[v].at = "lpop" <=> worker'[v].task = NoTask
  BY <1>1 DEF Becomes, RedisInv, RedisTypes
<1>5. \A x \in Tasks : Called(x)' => Called(x)
  BY <1>3, Zenon DEF Called
<1>6. \A x \in Tasks : Called(x) => Called(x)' \/ x = worker[w].task
  BY <1>1, Zenon DEF Called, Becomes
<1>7. \A x \in Distinct : x = worker[w].task => ~Called(x)' /\ ~Listed(x)
  <2> SUFFICES ASSUME NEW x \in Distinct, x = worker[w].task
               PROVE  ~Called(x)' /\ ~Listed(x)
    BY Zenon
  <2>1. ~Listed(x)
    BY Zenon DEF RedisInv, OnePlace, Called
  <2>2. \A v \in Workers : worker'[v].task # x
    BY <1>2, <1>3, Zenon DEF RedisInv, OnePlace
  <2> QED BY <2>1, <2>2, Zenon DEF Called
<1>8. \A u, v \in Workers :
         worker'[u].task \in Distinct /\ worker'[u].task = worker'[v].task => u = v
  BY <1>3, Zenon DEF RedisInv, OnePlace, Distinct
<1> QED BY <1>1, <1>2, <1>3, <1>4, <1>5, <1>6, <1>7, <1>8, Zenon DEF Becomes

\* LPOP: the oldest id moves from the list to the call.
LEMMA DequeuePopRedis ==
    ASSUME RedisInv, NEW w \in Workers, DequeuePop(w)
    PROVE  RedisInv'
<1> USE QueueAssumption DEF RedisInv
<1>a. redisList \in Seq(Tasks) /\ redisList # <<>> /\ redisList' = Tail(redisList)
  BY Zenon DEF DequeuePop, RedisTypes
<1>b. PICK t \in Tasks : t = Head(redisList)
  BY <1>a
<1>c. PICK c : c = [at |-> "get", task |-> t, read |-> 0]
  BY Zenon
<1>1. t = redisList[1] /\ 1 \in DOMAIN redisList
  BY <1>a, <1>b
<1>2. UNCHANGED <<redisItems, redisDead, redisAcked, producer, redisEnqueued, redisCrashed>>
  BY Zenon DEF DequeuePop
<1>3. /\ redisList' \in Seq(Tasks)
      /\ \A k \in DOMAIN redisList' :
            k + 1 \in DOMAIN redisList /\ redisList'[k] = redisList[k + 1] /\ k + 1 # 1
      /\ \A k \in DOMAIN redisList :
            k # 1 => k - 1 \in DOMAIN redisList' /\ redisList'[k - 1] = redisList[k]
  BY <1>a
<1>4. c \in Call /\ worker \in [Workers -> Call] /\ c.at = "get" /\ c.task = t
  BY <1>c, Zenon DEF Call, RedisTypes
<1>5. worker' = [worker EXCEPT ![w] = c]
  BY <1>b, <1>c, Zenon DEF DequeuePop
<1>6. /\ worker' \in [Workers -> Call] /\ worker'[w] = c
      /\ \A v \in Workers : v # w => worker'[v] = worker[v]
  BY <1>4, <1>5, Zenon
<1>7. worker[w].at = "lpop" /\ worker[w].task = NoTask
  BY Zenon DEF DequeuePop, At, RedisTypes
<1>8. /\ \A x : Listed(x)' => Listed(x)
      /\ \A x : Listed(x) => Listed(x)' \/ x = t
      /\ Listed(t)
  <2>1. \A x : Listed(x)' => Listed(x)
    BY <1>3, Zenon DEF Listed
  <2>2. \A x : Listed(x) => Listed(x)' \/ x = t
    BY <1>1, <1>3, Zenon DEF Listed
  <2> QED BY <1>1, <2>1, <2>2, Zenon DEF Listed
<1>9. \A x \in Tasks : Called(x)' <=> Called(x) \/ x = t
  BY <1>4, <1>6, <1>7, Zenon DEF Called
<1>10. t \in Distinct => Known(t, "pending") /\ ~Called(t) /\ ~Listed(t)'
  <2> SUFFICES ASSUME t \in Distinct PROVE Known(t, "pending") /\ ~Called(t) /\ ~Listed(t)'
    BY Zenon
  <2>1. Known(t, "pending")
    BY <1>1, Zenon DEF ListFits
  <2>2. ~Called(t)
    BY <1>8, Zenon DEF OnePlace
  <2>3. \A k \in DOMAIN redisList' : redisList'[k] # t
    BY <1>1, <1>3 DEF OnePlace
  <2> QED BY <2>1, <2>2, <2>3, Zenon DEF Listed
<1>11. RedisTypes'
  <2>1. \A v \in Workers : worker'[v].at = "lpop" <=> worker'[v].task = NoTask
    BY <1>1, <1>4, <1>6 DEF RedisTypes
  <2> QED BY <1>2, <1>3, <1>6, <2>1, Zenon DEF RedisTypes
<1>12. PendingSomewhere'
  <2> SUFFICES ASSUME NEW x \in DOMAIN redisItems, redisItems[x].status = "pending"
               PROVE  \/ Listed(x)'
                      \/ producer[x] = "rpush"
                      \/ \E v \in Workers :
                            worker'[v].task = x /\ worker'[v].at \in {"get", "set", "requeue"}
    BY <1>2, Zenon DEF PendingSomewhere
  <2>1. CASE x = t
    BY <1>4, <1>6, <2>1, Zenon
  <2>2. CASE x # t
    <3>1. CASE Listed(x)
      BY <1>8, <2>2, <3>1, Zenon
    <3>2. CASE \E v \in Workers : worker[v].task = x /\ worker[v].at \in {"get", "set", "requeue"}
      BY <1>6, <1>7, <3>2, Zenon
    <3> QED BY <3>1, <3>2, Zenon DEF PendingSomewhere
  <2> QED BY <2>1, <2>2, Zenon
<1>13. CallsFit'
  <2>1. t \in Distinct => CallFits(c)'
    BY <1>2, <1>4, <1>10, Zenon DEF CallFits, Known
  <2>2. \A v \in Workers : worker[v].task \in Distinct => CallFits(worker[v])
    BY Zenon DEF CallsFit
  <2>3. \A v \in Workers : v # w /\ worker'[v].task \in Distinct => CallFits(worker[v])'
    BY <1>2, <1>6, <2>2, Zenon DEF CallFits, Known
  <2> QED BY <1>4, <1>6, <2>1, <2>3, Zenon DEF CallsFit
<1>14. ListFits'
  BY <1>2, <1>3 DEF ListFits, Known
<1>15. OnePlace'
  <2>1. \A k, l \in DOMAIN redisList' :
           redisList'[k] \in Distinct /\ redisList'[k] = redisList'[l] => k = l
    BY <1>3 DEF OnePlace
  <2>2. \A u, v \in Workers :
           worker'[u].task \in Distinct /\ worker'[u].task = worker'[v].task => u = v
    BY <1>4, <1>6, <1>10 DEF OnePlace, Called
  <2>3. \A x \in Distinct : ~(Listed(x)' /\ Called(x)')
    BY <1>8, <1>9, <1>10, Zenon DEF OnePlace, Distinct
  <2> QED BY <2>1, <2>2, <2>3, Zenon DEF OnePlace
<1>16. \A x : Buried(x)' = Buried(x)
  BY <1>2, Zenon DEF Buried
<1>17. PushesFit'
  BY <1>2, <1>8, <1>9, <1>16, Zenon DEF PushesFit, Distinct
<1>18. NewNowhere'
  BY <1>2, <1>8, <1>9, <1>16, Zenon DEF NewNowhere, Distinct
<1> QED BY <1>11, <1>12, <1>13, <1>14, <1>15, <1>17, <1>18, Zenon

\* A call that goes on and leaves the keys alone.
LEMMA CallReads ==
    ASSUME RedisInv, NEW w \in Workers, NEW c, Becomes(w, c), c.task = worker[w].task,
           c.at # "lpop", worker[w].at # "lpop",
           worker[w].at \in {"get", "set", "requeue"} => c.at \in {"get", "set", "requeue"},
           worker[w].task \in Distinct => CallFits(c),
           UNCHANGED <<redisList, redisItems, redisDead, redisAcked, producer, redisEnqueued, redisCrashed>>
    PROVE  RedisInv'
<1> USE DEF RedisInv
<1>1. /\ worker' \in [Workers -> Call]
      /\ \A v \in Workers : worker'[v].at = "lpop" <=> worker'[v].task = NoTask
      /\ \A x : Listed(x)' = Listed(x) /\ Called(x)' = Called(x) /\ Buried(x)' = Buried(x)
      /\ OnePlace'
  BY CallGoesOn, Zenon
<1>2. worker'[w] = c /\ \A v \in Workers : v # w => worker'[v] = worker[v]
  BY Zenon DEF Becomes
<1>3. RedisTypes'
  BY <1>1, Zenon DEF RedisTypes
<1>4. PendingSomewhere'
  BY <1>1, <1>2 DEF PendingSomewhere
<1>5. CallsFit'
  <2>1. \A v \in Workers : worker'[v].task \in Distinct => CallFits(worker'[v])
    BY <1>2, Zenon DEF CallsFit
  <2> QED BY <2>1, Zenon DEF CallsFit, CallFits, Known
<1>6. ListFits'
  BY Zenon DEF ListFits, Known
<1>7. PushesFit' /\ NewNowhere'
  BY <1>1, Zenon DEF PushesFit, NewNowhere
<1> QED BY <1>1, <1>3, <1>4, <1>5, <1>6, <1>7, Zenon

\* A call that ends because the item of its id is gone.
LEMMA CallLeaves ==
    ASSUME RedisInv, NEW w \in Workers, Done(w),
           worker[w].at \in {"get", "work"}, worker[w].task \notin DOMAIN redisItems,
           UNCHANGED <<redisList, redisItems, redisDead, redisAcked, producer, redisEnqueued, redisCrashed>>
    PROVE  RedisInv'
<1> USE DEF RedisInv
<1>1. /\ worker' \in [Workers -> Call]
      /\ \A v \in Workers : worker'[v].at = "lpop" <=> worker'[v].task = NoTask
      /\ \A v \in Workers : worker'[v].task \in Tasks => v # w /\ worker'[v] = worker[v]
      /\ \A v \in Workers : v # w => worker'[v] = worker[v]
      /\ \A x \in Tasks : Called(x)' => Called(x)
      /\ \A u, v \in Workers :
            worker'[u].task \in Distinct /\ worker'[u].task = worker'[v].task => u = v
  BY CallEnds, Zenon
<1>2. \A x : Listed(x)' = Listed(x) /\ Buried(x)' = Buried(x)
  BY Zenon DEF Listed, Buried
<1>3. RedisTypes'
  BY <1>1, Zenon DEF RedisTypes
<1>4. PendingSomewhere'
  <2> SUFFICES ASSUME NEW x \in DOMAIN redisItems, redisItems[x].status = "pending"
               PROVE  \/ Listed(x)
                      \/ producer[x] = "rpush"
                      \/ \E v \in Workers : worker'[v].task = x /\ worker'[v].at \in {"get", "set", "requeue"}
    BY <1>2, Zenon DEF PendingSomewhere
  <2>1. \A v \in Workers : worker[v].task = x => v # w
    BY Zenon
  <2>2. \/ Listed(x)
        \/ producer[x] = "rpush"
        \/ \E v \in Workers : worker[v].task = x /\ worker[v].at \in {"get", "set", "requeue"}
    BY Zenon DEF PendingSomewhere
  <2>3. \A v \in Workers : v # w => worker'[v] = worker[v]
    BY <1>1, Zenon
  <2> HIDE DEF RedisInv
  <2> QED BY <2>1, <2>2, <2>3, Zenon
<1>5. CallsFit'
  <2>1. \A v \in Workers : worker'[v].task \in Distinct => CallFits(worker'[v])
    BY <1>1, Zenon DEF CallsFit, Distinct
  <2> QED BY <2>1, Zenon DEF CallsFit, CallFits, Known
<1>6. ListFits'
  BY Zenon DEF ListFits, Known
<1>7. OnePlace'
  BY <1>1, <1>2, Zenon DEF OnePlace, Distinct
<1>8. PushesFit' /\ NewNowhere'
  BY <1>1, <1>2, Zenon DEF PushesFit, NewNowhere, Distinct
<1> QED BY <1>3, <1>4, <1>5, <1>6, <1>7, <1>8, Zenon

\* The GET of a dequeue.
LEMMA DequeueGetRedis ==
    ASSUME RedisInv, NEW w \in Workers, DequeueGet(w)
    PROVE  RedisInv'
<1>1. /\ RedisTypes /\ worker[w].at = "get"
      /\ UNCHANGED <<redisList, redisItems, redisDead, redisAcked, producer, redisEnqueued, redisCrashed>>
  BY Zenon DEF DequeueGet, At, RedisInv
<1>2. CASE worker[w].task \in DOMAIN redisItems /\ Reads(w, "set")
  <2> DEFINE c == [at |-> "set", task |-> worker[w].task,
                   read |-> redisItems[worker[w].task].attempts]
  <2>1. Becomes(w, c)
    BY <1>1, <1>2, ReadsBecomes, Zenon
  <2>2. c.at = "set" /\ c.task = worker[w].task /\ c.read = redisItems[worker[w].task].attempts
    BY Zenon
  <2> HIDE DEF c
  <2>3. worker[w].task \in Distinct => CallFits(c)
    BY <1>1, <2>2, Zenon DEF RedisInv, CallsFit, CallFits
  <2> QED BY <1>1, <2>1, <2>2, <2>3, CallReads, Zenon
<1>3. CASE worker[w].task \notin DOMAIN redisItems /\ Done(w)
  BY <1>1, <1>3, CallLeaves, Zenon
<1> QED BY <1>2, <1>3, Zenon DEF DequeueGet

\* The GET of an ack or a nack.
LEMMA AnswerGetRedis ==
    ASSUME RedisInv, NEW w \in Workers, AnswerGet(w)
    PROVE  RedisInv'
<1>1. /\ RedisTypes /\ worker[w].at = "work"
      /\ UNCHANGED <<redisList, redisItems, redisDead, redisAcked, producer, redisEnqueued, redisCrashed>>
  BY Zenon DEF AnswerGet, At, RedisInv
<1>2. ASSUME NEW command \in {"ack", "nack"}, worker[w].task \in DOMAIN redisItems, Reads(w, command)
      PROVE  RedisInv'
  <2> DEFINE c == [at |-> command, task |-> worker[w].task,
                   read |-> redisItems[worker[w].task].attempts]
  <2>1. Becomes(w, c)
    BY <1>1, <1>2, ReadsBecomes, Zenon
  <2>2. c.at = command /\ c.task = worker[w].task /\ c.read = redisItems[worker[w].task].attempts
    BY Zenon
  <2> HIDE DEF c
  <2>3. worker[w].task \in Distinct => CallFits(c)
    BY <1>1, <2>2, Zenon DEF RedisInv, CallsFit, CallFits
  <2> QED BY <1>1, <2>1, <2>2, <2>3, CallReads, Zenon
<1>3. CASE worker[w].task \notin DOMAIN redisItems /\ Done(w)
  BY <1>1, <1>3, CallLeaves, Zenon
<1> QED BY <1>2, <1>3, Zenon DEF AnswerGet

\* A write to the key of an id that a call has popped concerns no other distinct id.
LEMMA OthersFit ==
    ASSUME RedisInv, NEW w \in Workers, NEW t \in Tasks, worker[w].task = t,
           UNCHANGED redisList,
           \A x : x # t => (x \in DOMAIN redisItems' <=> x \in DOMAIN redisItems),
           \A x \in DOMAIN redisItems : x # t => redisItems'[x] = redisItems[x]
    PROVE  /\ \A c : c.task # t /\ CallFits(c) => CallFits(c)'
           /\ \A v \in Workers : v # w /\ worker[v].task \in Distinct => worker[v].task # t
           /\ ListFits'
           /\ t \in Distinct => ~Listed(t) /\ producer[t] # "rpush" /\ redisEnqueued[t] # 0
           /\ \A x \in Distinct : x # t /\ producer[x] = "rpush" =>
                 x \in DOMAIN redisItems' /\ redisItems'[x] = [status |-> "pending", attempts |-> 0]
           /\ \A x \in Distinct : x # t /\ redisEnqueued[x] = 0 => x \notin DOMAIN redisItems'
<1> USE DEF RedisInv
<1>1. \A c : c.task # t /\ CallFits(c) => CallFits(c)'
  BY Zenon DEF CallFits, Known
<1>2. \A v \in Workers : v # w /\ worker[v].task \in Distinct => worker[v].task # t
  BY Zenon DEF OnePlace
<1>3. t \in Distinct => ~Listed(t) /\ producer[t] # "rpush" /\ redisEnqueued[t] # 0
  BY Zenon DEF OnePlace, PushesFit, NewNowhere, Called
<1>4. ListFits'
  BY <1>3, Zenon DEF ListFits, Known, Listed
<1>5. \A x \in Distinct : x # t /\ producer[x] = "rpush" =>
         x \in DOMAIN redisItems' /\ redisItems'[x] = [status |-> "pending", attempts |-> 0]
  BY Zenon DEF PushesFit
<1>6. \A x \in Distinct : x # t /\ redisEnqueued[x] = 0 => x \notin DOMAIN redisItems'
  BY Zenon DEF NewNowhere
<1> QED BY <1>1, <1>2, <1>3, <1>4, <1>5, <1>6, Zenon

\* A call that goes on and writes the key of its id.
LEMMA CallWrites ==
    ASSUME RedisInv, NEW w \in Workers, NEW t \in Tasks, worker[w].task = t,
           NEW c, Becomes(w, c), c.task = t, c.at # "lpop", worker[w].at # "lpop",
           UNCHANGED <<redisList, redisDead, redisAcked, producer, redisEnqueued, redisCrashed>>,
           \A x : x # t => (x \in DOMAIN redisItems' <=> x \in DOMAIN redisItems),
           \A x \in DOMAIN redisItems : x # t => redisItems'[x] = redisItems[x],
           t \in DOMAIN redisItems' =>
              /\ redisItems'[t] \in Item
              /\ redisItems'[t].status = "pending" =>
                    redisItems'[t].attempts < MaxRetries /\ c.at \in {"get", "set", "requeue"},
           t \in Distinct => CallFits(c)'
    PROVE  RedisInv'
<1> USE DEF RedisInv
<1>1. /\ worker' \in [Workers -> Call]
      /\ \A v \in Workers : worker'[v].at = "lpop" <=> worker'[v].task = NoTask
      /\ \A x : Listed(x)' = Listed(x) /\ Called(x)' = Called(x) /\ Buried(x)' = Buried(x)
      /\ OnePlace'
  BY CallGoesOn, Zenon
<1>2. worker'[w] = c /\ \A v \in Workers : v # w => worker'[v] = worker[v]
  BY Zenon DEF Becomes
<1>3. /\ \A d : d.task # t /\ CallFits(d) => CallFits(d)'
      /\ \A v \in Workers : v # w /\ worker[v].task \in Distinct => worker[v].task # t
      /\ ListFits'
      /\ t \in Distinct => ~Listed(t) /\ producer[t] # "rpush" /\ redisEnqueued[t] # 0
      /\ \A x \in Distinct : x # t /\ producer[x] = "rpush" =>
            x \in DOMAIN redisItems' /\ redisItems'[x] = [status |-> "pending", attempts |-> 0]
      /\ \A x \in Distinct : x # t /\ redisEnqueued[x] = 0 => x \notin DOMAIN redisItems'
  BY OthersFit, Zenon
<1>4. RedisTypes'
  BY <1>1, Zenon DEF RedisTypes
<1>5. PendingSomewhere'
  <2> SUFFICES ASSUME NEW x \in DOMAIN redisItems', redisItems'[x].status = "pending"
               PROVE  \/ Listed(x)'
                      \/ producer'[x] = "rpush"
                      \/ \E v \in Workers :
                            worker'[v].task = x /\ worker'[v].at \in {"get", "set", "requeue"}
    BY Zenon DEF PendingSomewhere
  <2>1. CASE x = t
    BY <1>2, <2>1, Zenon
  <2>2. CASE x # t
    <3>1. x \in DOMAIN redisItems /\ redisItems[x].status = "pending"
      BY <2>2, Zenon
    <3>2. \/ Listed(x)
          \/ producer[x] = "rpush"
          \/ \E v \in Workers : worker[v].task = x /\ worker[v].at \in {"get", "set", "requeue"}
      BY <3>1, Zenon DEF PendingSomewhere
    <3>3. \A v \in Workers : worker[v].task = x => worker'[v] = worker[v]
      BY <1>2, <2>2, Zenon
    <3> QED BY <1>1, <3>2, <3>3, Zenon
  <2> QED BY <2>1, <2>2, Zenon
<1>6. CallsFit'
  <2>1. \A v \in Workers : v # w /\ worker[v].task \in Distinct => CallFits(worker[v])
    BY Zenon DEF CallsFit
  <2>2. ASSUME NEW v \in Workers, NEW d, d = worker'[v], d.task \in Distinct PROVE CallFits(d)'
    <3>1. CASE v = w
      BY <1>2, <2>2, <3>1, Zenon
    <3>2. CASE v # w
      BY <1>2, <1>3, <2>1, <2>2, <3>2, Zenon
    <3> QED BY <3>1, <3>2, Zenon
  <2> QED BY <2>2, Zenon DEF CallsFit, CallFits
<1>7. PushesFit'
  BY <1>1, <1>3, Zenon DEF PushesFit
<1>8. NewNowhere'
  BY <1>1, <1>3, Zenon DEF NewNowhere
<1> QED BY <1>1, <1>3, <1>4, <1>5, <1>6, <1>7, <1>8, Zenon

\* The SET of a dequeue writes back what its GET read, with one attempt more.
LEMMA DequeueSetRedis ==
    ASSUME RedisInv, NEW w \in Workers, DequeueSet(w)
    PROVE  RedisInv'
<1>1. /\ RedisTypes /\ worker[w].at = "set"
      /\ UNCHANGED <<redisList, redisDead, redisAcked, producer, redisEnqueued, redisCrashed>>
  BY Zenon DEF DequeueSet, At, RedisInv
<1>2. PICK t \in Tasks : t = worker[w].task
  BY <1>1, Zenon DEF RedisTypes, Call
<1>3. PICK n \in Nat : n = worker[w].read
  BY <1>1, Zenon DEF RedisTypes, Call
<1>4. PICK c : c = [at |-> "work", task |-> t, read |-> n]
  BY Zenon
<1>5. Becomes(w, c)
  BY <1>1, <1>2, <1>3, <1>4, GotoBecomes, Zenon DEF DequeueSet
<1>6. /\ DOMAIN redisItems' = DOMAIN redisItems \cup {t}
      /\ redisItems'[t] = [status |-> "processing", attempts |-> n + 1]
      /\ \A x \in DOMAIN redisItems : x # t => redisItems'[x] = redisItems[x]
  <2>1. Put(t, "processing", n + 1)
    BY <1>2, <1>3, Zenon DEF DequeueSet
  <2> QED BY <2>1, PutItem, Zenon
<1>7. t \in Distinct => n < MaxRetries
  BY <1>1, <1>2, <1>3, Zenon DEF RedisInv, RedisTypes, CallsFit, CallFits, Known
<1>8. t \in Distinct => CallFits(c)'
  <2>1. c.at = "work" /\ c.task = t
    BY <1>4, Zenon
  <2>2. t \in Distinct => n + 1 <= MaxRetries
    BY <1>7, QueueAssumption
  <2> QED BY <1>6, <2>1, <2>2 DEF CallFits, Known
<1>9. redisItems'[t] \in Item /\ redisItems'[t].status # "pending"
  BY <1>6 DEF Item
<1>10. c.at = "work" /\ c.task = t
  BY <1>4, Zenon
<1> QED BY <1>1, <1>2, <1>5, <1>6, <1>8, <1>9, <1>10, CallWrites, Zenon

\* The write of a nack: the item goes, or is pending again.
LEMMA NackWriteRedis ==
    ASSUME RedisInv, NEW w \in Workers, NackWrite(w)
    PROVE  RedisInv'
<1>1. /\ RedisTypes /\ worker[w].at = "nack"
      /\ UNCHANGED <<redisList, redisDead, redisAcked, producer, redisEnqueued, redisCrashed>>
  BY Zenon DEF NackWrite, At, RedisInv
<1>2. PICK t \in Tasks : t = worker[w].task
  BY <1>1, Zenon DEF RedisTypes, Call
<1>3. PICK n \in Nat : n = worker[w].read
  BY <1>1, Zenon DEF RedisTypes, Call
<1>4. CASE n >= MaxRetries /\ Delete(t) /\ Goto(w, "bury")
  <2>1. PICK c : c = [at |-> "bury", task |-> t, read |-> n]
    BY Zenon
  <2>2. Becomes(w, c)
    BY <1>1, <1>2, <1>3, <1>4, <2>1, GotoBecomes, Zenon
  <2>3. /\ DOMAIN redisItems' = DOMAIN redisItems \ {t}
        /\ \A x \in DOMAIN redisItems' : redisItems'[x] = redisItems[x]
    BY <1>4, DeleteItem, Zenon
  <2>4. c.at = "bury" /\ c.task = t /\ c.read = n
    BY <2>1, Zenon
  <2>5. CallFits(c)'
    BY <1>4, <2>3, <2>4, QueueAssumption, Zenon DEF CallFits
  <2> QED BY <1>1, <1>2, <2>2, <2>3, <2>4, <2>5, CallWrites, Zenon
<1>5. CASE n < MaxRetries /\ Put(t, "pending", n) /\ Goto(w, "requeue")
  <2>1. PICK c : c = [at |-> "requeue", task |-> t, read |-> n]
    BY Zenon
  <2>2. Becomes(w, c)
    BY <1>1, <1>2, <1>3, <1>5, <2>1, GotoBecomes, Zenon
  <2>3. /\ DOMAIN redisItems' = DOMAIN redisItems \cup {t}
        /\ redisItems'[t] = [status |-> "pending", attempts |-> n]
        /\ \A x \in DOMAIN redisItems : x # t => redisItems'[x] = redisItems[x]
    BY <1>5, PutItem, Zenon
  <2>4. c.at = "requeue" /\ c.task = t /\ c.read = n
    BY <2>1, Zenon
  <2>5. CallFits(c)'
    BY <2>3, <2>4 DEF CallFits, Known
  <2>6. redisItems'[t] \in Item /\ redisItems'[t].attempts < MaxRetries
    BY <1>5, <2>3 DEF Item
  <2> QED BY <1>1, <1>2, <2>2, <2>3, <2>4, <2>5, <2>6, CallWrites, Zenon
<1> QED BY <1>2, <1>3, <1>4, <1>5, Zenon DEF NackWrite

\* The DEL of an ack.
LEMMA AckDeleteRedis ==
    ASSUME RedisInv, NEW w \in Workers, AckDelete(w)
    PROVE  RedisInv'
<1> USE DEF RedisInv
<1>1. /\ RedisTypes /\ worker[w].at = "ack" /\ Done(w)
      /\ UNCHANGED <<redisList, redisDead, producer, redisEnqueued, redisCrashed>>
  BY Zenon DEF AckDelete, At
<1>2. PICK t \in Tasks : t = worker[w].task
  BY <1>1, Zenon DEF RedisTypes, Call
<1>3. /\ DOMAIN redisItems' = DOMAIN redisItems \ {t}
      /\ \A x \in DOMAIN redisItems' : redisItems'[x] = redisItems[x]
  BY <1>2, DeleteItem, Zenon DEF AckDelete
<1>4. redisAcked' = redisAcked \cup {t}
  BY <1>2, Zenon DEF AckDelete
<1>5. /\ worker' \in [Workers -> Call]
      /\ \A v \in Workers : worker'[v].at = "lpop" <=> worker'[v].task = NoTask
      /\ \A v \in Workers : worker'[v].task \in Tasks => v # w /\ worker'[v] = worker[v]
      /\ \A v \in Workers : v # w => worker'[v] = worker[v]
      /\ \A x \in Tasks : Called(x)' => Called(x)
      /\ \A x \in Distinct : x = t => ~Called(x)' /\ ~Listed(x)
      /\ \A u, v \in Workers :
            worker'[u].task \in Distinct /\ worker'[u].task = worker'[v].task => u = v
  BY <1>1, <1>2, CallEnds, Zenon
<1>6. \A x : Listed(x)' = Listed(x) /\ Buried(x)' = Buried(x)
  BY <1>1, Zenon DEF Listed, Buried
<1>7. /\ \A d : d.task # t /\ CallFits(d) => CallFits(d)'
      /\ \A v \in Workers : v # w /\ worker[v].task \in Distinct => worker[v].task # t
      /\ ListFits'
      /\ t \in Distinct => ~Listed(t) /\ producer[t] # "rpush" /\ redisEnqueued[t] # 0
      /\ \A x \in Distinct : x # t /\ producer[x] = "rpush" =>
            x \in DOMAIN redisItems' /\ redisItems'[x] = [status |-> "pending", attempts |-> 0]
      /\ \A x \in Distinct : x # t /\ redisEnqueued[x] = 0 => x \notin DOMAIN redisItems'
  <2>1. /\ \A x : x # t => (x \in DOMAIN redisItems' <=> x \in DOMAIN redisItems)
        /\ \A x \in DOMAIN redisItems : x # t => redisItems'[x] = redisItems[x]
    BY <1>3, Zenon
  <2> QED BY <1>1, <1>2, <2>1, OthersFit, Zenon
<1>8. RedisTypes'
  BY <1>1, <1>3, <1>4, <1>5, Zenon DEF RedisTypes
<1>9. PendingSomewhere'
  <2> SUFFICES ASSUME NEW x \in DOMAIN redisItems', redisItems'[x].status = "pending"
               PROVE  \/ Listed(x)'
                      \/ producer'[x] = "rpush"
                      \/ \E v \in Workers :
                            worker'[v].task = x /\ worker'[v].at \in {"get", "set", "requeue"}
    BY Zenon DEF PendingSomewhere
  <2>1. x # t /\ x \in DOMAIN redisItems /\ redisItems[x].status = "pending"
    BY <1>3, Zenon
  <2>2. CASE \E v \in Workers : worker[v].task = x /\ worker[v].at \in {"get", "set", "requeue"}
    BY <1>2, <1>5, <2>1, <2>2, Zenon
  <2> QED BY <1>1, <1>6, <2>1, <2>2, Zenon DEF PendingSomewhere
<1>10. CallsFit'
  <2>1. ASSUME NEW v \in Workers, NEW d, d = worker'[v], d.task \in Distinct PROVE CallFits(d)'
    <3>1. v # w /\ d = worker[v]
      BY <1>5, <2>1, Zenon DEF Distinct
    <3>2. CallFits(d) /\ d.task # t
      BY <1>7, <2>1, <3>1, Zenon DEF CallsFit
    <3> QED BY <1>7, <3>2, Zenon
  <2> QED BY <2>1, Zenon DEF CallsFit, CallFits
<1>11. OnePlace'
  BY <1>1, <1>5, <1>6, Zenon DEF OnePlace, Distinct
<1>12. PushesFit'
  BY <1>1, <1>4, <1>5, <1>6, <1>7, Zenon DEF PushesFit, Distinct
<1>13. NewNowhere'
  BY <1>1, <1>4, <1>5, <1>6, <1>7, Zenon DEF NewNowhere, Distinct
<1> QED BY <1>7, <1>8, <1>9, <1>10, <1>11, <1>12, <1>13, Zenon

\* The RPUSH of a nack to the dead letters.
LEMMA NackBuryRedis ==
    ASSUME RedisInv, NEW w \in Workers, NackBury(w)
    PROVE  RedisInv'
<1> USE DEF RedisInv
<1>1. /\ RedisTypes /\ worker[w].at = "bury" /\ Done(w)
      /\ UNCHANGED <<redisList, redisItems, redisAcked, producer, redisEnqueued, redisCrashed>>
  BY Zenon DEF NackBury, At
<1>2. PICK t \in Tasks : t = worker[w].task
  BY <1>1, Zenon DEF RedisTypes, Call
<1>3. redisDead' \in Seq(Tasks) /\ \A x : Buried(x)' <=> Buried(x) \/ x = t
  <2>1. redisDead \in Seq(Tasks) /\ redisDead' = Append(redisDead, t)
    BY <1>2, Zenon DEF NackBury, RedisTypes
  <2>2. /\ redisDead' \in Seq(Tasks)
        /\ redisDead'[Len(redisDead) + 1] = t
        /\ \A k \in DOMAIN redisDead : redisDead'[k] = redisDead[k]
        /\ DOMAIN redisDead' = DOMAIN redisDead \cup {Len(redisDead) + 1}
    BY <2>1
  <2> QED BY <2>2, Zenon DEF Buried
<1>4. /\ worker' \in [Workers -> Call]
      /\ \A v \in Workers : worker'[v].at = "lpop" <=> worker'[v].task = NoTask
      /\ \A v \in Workers : worker'[v].task \in Tasks => v # w /\ worker'[v] = worker[v]
      /\ \A v \in Workers : v # w => worker'[v] = worker[v]
      /\ \A x \in Tasks : Called(x)' => Called(x)
      /\ \A u, v \in Workers :
            worker'[u].task \in Distinct /\ worker'[u].task = worker'[v].task => u = v
  BY <1>1, CallEnds, Zenon
<1>5. \A x : Listed(x)' = Listed(x)
  BY <1>1, Zenon DEF Listed
<1>6. t \in Distinct => producer[t] # "rpush" /\ redisEnqueued[t] # 0
  BY <1>2, Zenon DEF PushesFit, NewNowhere, Called
<1>7. RedisTypes'
  BY <1>1, <1>3, <1>4, Zenon DEF RedisTypes
<1>8. PendingSomewhere'
  <2> SUFFICES ASSUME NEW x \in DOMAIN redisItems, redisItems[x].status = "pending"
               PROVE  \/ Listed(x)'
                      \/ producer'[x] = "rpush"
                      \/ \E v \in Workers :
                            worker'[v].task = x /\ worker'[v].at \in {"get", "set", "requeue"}
    BY <1>1, Zenon DEF PendingSomewhere
  <2>1. \/ Listed(x)
        \/ producer[x] = "rpush"
        \/ \E v \in Workers : worker[v].task = x /\ worker[v].at \in {"get", "set", "requeue"}
    BY Zenon DEF PendingSomewhere
  <2>2. \A v \in Workers : worker[v].at \in {"get", "set", "requeue"} => worker'[v] = worker[v]
    BY <1>1, <1>4, Zenon
  <2> QED BY <1>1, <1>5, <2>1, <2>2, Zenon
<1>9. CallsFit'
  <2>1. \A v \in Workers : worker'[v].task \in Distinct => CallFits(worker'[v])
    BY <1>4, Zenon DEF CallsFit, Distinct
  <2> QED BY <1>1, <2>1, Zenon DEF CallsFit, CallFits, Known
<1>10. ListFits'
  BY <1>1, Zenon DEF ListFits, Known
<1>11. OnePlace'
  BY <1>1, <1>4, <1>5, Zenon DEF OnePlace, Distinct
<1>12. PushesFit'
  BY <1>1, <1>3, <1>4, <1>5, <1>6, Zenon DEF PushesFit, Distinct
<1>13. NewNowhere'
  BY <1>1, <1>3, <1>4, <1>5, <1>6, Zenon DEF NewNowhere, Distinct
<1> QED BY <1>7, <1>8, <1>9, <1>10, <1>11, <1>12, <1>13, Zenon

\* The RPUSH of a nack to the list.
LEMMA NackRequeueRedis ==
    ASSUME RedisInv, NEW w \in Workers, NackRequeue(w)
    PROVE  RedisInv'
<1> USE DEF RedisInv
<1>1. /\ RedisTypes /\ worker[w].at = "requeue" /\ Done(w)
      /\ UNCHANGED <<redisItems, redisDead, redisAcked, producer, redisEnqueued, redisCrashed>>
  BY Zenon DEF NackRequeue, At
<1>2. PICK t \in Tasks : t = worker[w].task
  BY <1>1, Zenon DEF RedisTypes, Call
<1>3. redisList \in Seq(Tasks) /\ redisList' = Append(redisList, t)
  BY <1>2, Zenon DEF NackRequeue, RedisTypes
<1>4. redisList' \in Seq(Tasks) /\ \A x : Listed(x)' <=> Listed(x) \/ x = t
  BY <1>3, PushedId, Zenon
<1>5. /\ worker' \in [Workers -> Call]
      /\ \A v \in Workers : worker'[v].at = "lpop" <=> worker'[v].task = NoTask
      /\ \A v \in Workers : worker'[v].task \in Tasks => v # w /\ worker'[v] = worker[v]
      /\ \A v \in Workers : v # w => worker'[v] = worker[v]
      /\ \A x \in Tasks : Called(x)' => Called(x)
      /\ \A x \in Distinct : x = t => ~Called(x)' /\ ~Listed(x)
      /\ \A u, v \in Workers :
            worker'[u].task \in Distinct /\ worker'[u].task = worker'[v].task => u = v
  BY <1>1, <1>2, CallEnds, Zenon
<1>6. \A x : Buried(x)' = Buried(x)
  BY <1>1, Zenon DEF Buried
<1>7. t \in Distinct => /\ Known(t, "pending") /\ ~Listed(t)
                        /\ producer[t] # "rpush" /\ redisEnqueued[t] # 0
  BY <1>1, <1>2, <1>5, Zenon DEF PushesFit, NewNowhere, Called, CallsFit, CallFits
<1>8. RedisTypes'
  BY <1>1, <1>4, <1>5, Zenon DEF RedisTypes
<1>9. PendingSomewhere'
  <2> SUFFICES ASSUME NEW x \in DOMAIN redisItems, redisItems[x].status = "pending", x # t
               PROVE  \/ Listed(x)'
                      \/ producer'[x] = "rpush"
                      \/ \E v \in Workers :
                            worker'[v].task = x /\ worker'[v].at \in {"get", "set", "requeue"}
    BY <1>1, <1>4, Zenon DEF PendingSomewhere
  <2>1. CASE \E v \in Workers : worker[v].task = x /\ worker[v].at \in {"get", "set", "requeue"}
    BY <1>2, <1>5, <2>1, Zenon
  <2> QED BY <1>1, <1>4, <2>1, Zenon DEF PendingSomewhere
<1>10. CallsFit'
  <2>1. \A v \in Workers : worker'[v].task \in Distinct => CallFits(worker'[v])
    BY <1>5, Zenon DEF CallsFit, Distinct
  <2> QED BY <1>1, <2>1, Zenon DEF CallsFit, CallFits, Known
<1>11. ListFits' /\ \A k, l \in DOMAIN redisList' :
                       redisList'[k] \in Distinct /\ redisList'[k] = redisList'[l] => k = l
  BY <1>1, <1>3, <1>7, PushedOnce, Zenon
<1>12. OnePlace'
  BY <1>4, <1>5, <1>11, Zenon DEF OnePlace, Distinct
<1>13. PushesFit'
  BY <1>1, <1>4, <1>5, <1>6, <1>7, Zenon DEF PushesFit, Distinct
<1>14. NewNowhere'
  BY <1>1, <1>4, <1>5, <1>6, <1>7, Zenon DEF NewNowhere, Distinct
<1> QED BY <1>8, <1>9, <1>10, <1>11, <1>12, <1>13, <1>14, Zenon

\* Every command of every caller keeps the invariant.
LEMMA NextRedis == RedisInv /\ [RedisNext]_redisVars => RedisInv'
<1> SUFFICES ASSUME RedisInv, [RedisNext]_redisVars PROVE RedisInv'
  BY Zenon
<1>1. CASE UNCHANGED <<redisList, redisItems, redisDead, redisAcked, producer, redisEnqueued, worker>>
            /\ redisCrashed' \subseteq Workers
  <2> USE <1>1
  <2>1. RedisTypes' /\ ListFits'
    BY Zenon DEF RedisInv, RedisTypes, ListFits, Known
  <2>2. \A x : Listed(x)' = Listed(x) /\ Called(x)' = Called(x) /\ Buried(x)' = Buried(x)
    BY Zenon DEF Listed, Called, Buried
  <2>3. PendingSomewhere' /\ OnePlace' /\ PushesFit' /\ NewNowhere'
    BY <2>2, Zenon DEF RedisInv, PendingSomewhere, OnePlace, PushesFit, NewNowhere
  <2>4. CallsFit'
    BY Zenon DEF RedisInv, CallsFit, CallFits, Known
  <2> QED BY <2>1, <2>3, <2>4, Zenon DEF RedisInv
<1>2. ASSUME NEW w \in Workers, CallerDies(w) PROVE RedisInv'
  BY <1>1, <1>2, Zenon DEF CallerDies, RedisInv, RedisTypes
<1>3. CASE UNCHANGED redisVars
  BY <1>1, <1>3, Zenon DEF redisVars, RedisInv, RedisTypes
<1>4. ASSUME NEW w \in Workers, CommandStep(w) PROVE RedisInv'
  BY <1>4, DequeuePopRedis, DequeueGetRedis, DequeueSetRedis, AnswerGetRedis, AckDeleteRedis,
     NackWriteRedis, NackBuryRedis, NackRequeueRedis DEF CommandStep
<1> QED BY <1>2, <1>3, <1>4, EnqueueSetRedis, EnqueuePushRedis, Zenon DEF RedisNext, Stop

\* RedisInv holds throughout.
LEMMA AlwaysRedis == RedisSpec => []RedisInv
<1> QED BY InitRedis, NextRedis, PTL DEF RedisSpec

\* Even when the read-modify-writes of two workers on a repeated id interleave, an
\* item left pending once no call of RedisTaskQueue is in flight, and none has died,
\* has its id in the list.
THEOREM RedisPendingAlwaysQueued == RedisSpec => []RedisPendingIsQueued
<1>1. RedisInv => RedisPendingIsQueued
  <2> SUFFICES ASSUME RedisInv, Quiet, redisCrashed = {}, NEW t \in DOMAIN redisItems,
                      redisItems[t].status = "pending"
               PROVE  Listed(t)
    BY Zenon DEF RedisPendingIsQueued, Listed
  <2>1. t \in Tasks /\ producer[t] = "set"
    BY Zenon DEF RedisInv, RedisTypes, Quiet
  <2>2. \A w \in Workers : worker[w].at = "lpop"
    BY DEF Quiet, NoCall
  <2> QED BY <2>1, <2>2, Zenon DEF RedisInv, PendingSomewhere
<1> QED BY <1>1, AlwaysRedis, PTL

-----------------------------------------------------------------------------
\* RedisTaskQueue as the delivery service sees it.
RHeld == Held \ Repeated

RDone == redisAcked \ Repeated

RDead == {redisDead[k] : k \in DOMAIN redisDead} \ Repeated

RAttempts == [t \in Distinct |-> Attempts(t)]

CountedBy(t, c) ==
    IF c.at \in {"get", "set"} THEN redisItems[t].attempts + 1
    ELSE IF c.at \in {"bury", "requeue"} THEN c.read
    ELSE redisItems[t].attempts

\* A distinct id that a call has popped is counted by that call, any other by its item.
Counted ==
    /\ RHeld = {t \in Distinct : Called(t)}
    /\ \A t \in Distinct :
          /\ \A w \in Workers : worker[w].task = t => Attempts(t) = CountedBy(t, worker[w])
          /\ ~Called(t) => Attempts(t) = IF t \in DOMAIN redisItems THEN redisItems[t].attempts ELSE 0

\* RedisInv determines the attempts the service sees of each distinct id.
LEMMA AlwaysCounted == RedisInv => Counted
<1> SUFFICES ASSUME RedisInv PROVE Counted
  BY Zenon
<1>1. \A w \in Workers : worker[w].task \in Tasks \cup {NoTask}
  BY Zenon DEF RedisInv, RedisTypes, Call
<1>2. RHeld = {t \in Distinct : Called(t)}
  BY <1>1, QueueAssumption, Zenon DEF RHeld, Held, Called, Distinct
<1>3. \A t \in Distinct : t \in Held <=> Called(t)
  BY QueueAssumption, Zenon DEF Held, Called, Distinct
<1>4. ASSUME NEW t \in Distinct, NEW w \in Workers, worker[w].task = t
      PROVE  Attempts(t) = CountedBy(t, worker[w])
  <2>1. Holder(t) = w
    <3>1. \A v \in Workers : worker[v].task = t => v = w
      BY <1>4, Zenon DEF RedisInv, OnePlace
    <3> QED BY <1>4, <3>1, Zenon DEF Holder
  <2>2. t \in Held
    BY <1>3, <1>4, Zenon DEF Called
  <2>3. CASE worker[w].at \in {"get", "set"}
    BY <2>1, <2>2, <2>3, Zenon DEF Attempts, CountedBy
  <2>4. CASE worker[w].at \in {"bury", "requeue"}
    BY <2>1, <2>2, <2>4, Zenon DEF Attempts, CountedBy
  <2>5. CASE worker[w].at \notin {"get", "set", "bury", "requeue"}
    BY <2>1, <2>2, <2>5, Zenon DEF Attempts, CountedBy
  <2> QED BY <2>3, <2>4, <2>5, Zenon
<1>5. ASSUME NEW t \in Distinct, ~Called(t)
      PROVE  Attempts(t) = IF t \in DOMAIN redisItems THEN redisItems[t].attempts ELSE 0
  BY <1>3, <1>5, Zenon DEF Attempts
<1> QED BY <1>2, <1>4, <1>5, Zenon DEF Counted

\* A step concerns the id t only.
Concerns(t) ==
    /\ \A x : x # t => (x \in DOMAIN redisItems' <=> x \in DOMAIN redisItems)
    /\ \A x \in DOMAIN redisItems : x # t => redisItems'[x] = redisItems[x]
    /\ \A w \in Workers : \/ worker'[w] = worker[w]
                          \/ worker[w].task \in {t, NoTask} /\ worker'[w].task \in {t, NoTask}

\* Such a step leaves what the service sees of the other ids.
LEMMA OthersKept ==
    ASSUME RedisInv, Counted, Counted', NEW t \in Tasks, Concerns(t), NEW x \in Distinct, x # t
    PROVE  Attempts(x)' = Attempts(x) /\ (Called(x)' <=> Called(x))
<1> USE QueueAssumption
<1>1. x # NoTask
  BY Zenon DEF Distinct
<1>2. \A w \in Workers : worker'[w].task = x <=> worker[w].task = x
  BY <1>1, Zenon DEF Concerns
<1>3. Called(x)' <=> Called(x)
  BY <1>2, Zenon DEF Called
<1>4. CASE Called(x)
  <2>1. PICK w \in Workers : worker[w].task = x
    BY <1>4, Zenon DEF Called
  <2>2. PICK c : c = worker[w]
    BY Zenon
  <2>3. worker'[w] = c /\ worker'[w].task = x
    BY <1>1, <2>1, <2>2, Zenon DEF Concerns
  <2>4. Attempts(x) = CountedBy(x, c)
    BY <2>1, <2>2, Zenon DEF Counted
  <2>5. Attempts(x)' = CountedBy(x, c)'
    BY <2>3, Zenon DEF Counted, CountedBy
  <2>6. CountedBy(x, c)' = CountedBy(x, c)
    <3>1. CallFits(c) /\ c.at # "lpop" /\ c \in Call
      BY <2>1, <2>2, <1>1, Zenon DEF RedisInv, CallsFit, RedisTypes
    <3>2. c.task = x
      BY <2>1, <2>2, Zenon
    <3>3. c.at \notin {"bury", "requeue"} => x \in DOMAIN redisItems
      BY <3>1, <3>2, Zenon DEF CallFits, Known, Call
    <3>4. c.at \notin {"bury", "requeue"} => redisItems'[x] = redisItems[x]
      BY <3>3, Zenon DEF Concerns
    <3> QED BY <3>4, Zenon DEF CountedBy
  <2> QED BY <1>3, <2>4, <2>5, <2>6, Zenon
<1>5. CASE ~Called(x)
  <2>1. Attempts(x) = IF x \in DOMAIN redisItems THEN redisItems[x].attempts ELSE 0
    BY <1>5, Zenon DEF Counted
  <2>2. Attempts(x)' = IF x \in DOMAIN redisItems' THEN redisItems'[x].attempts ELSE 0
    BY <1>3, <1>5, Zenon DEF Counted
  <2> QED BY <1>3, <2>1, <2>2, Zenon DEF Concerns
<1> QED BY <1>3, <1>4, <1>5, Zenon

\* What the service sees of such a step.
LEMMA SeenOf ==
    ASSUME RedisInv, Counted, Counted', NEW t \in Tasks, Concerns(t)
    PROVE  /\ t \in Repeated => RHeld' = RHeld /\ RAttempts' = RAttempts
           /\ t \in Distinct =>
                 /\ \A n : Attempts(t)' = n => RAttempts' = [RAttempts EXCEPT ![t] = n]
                 /\ Attempts(t)' = Attempts(t) => RAttempts' = RAttempts
                 /\ Called(t)' /\ Called(t) => RHeld' = RHeld
                 /\ ~Called(t)' /\ ~Called(t) => RHeld' = RHeld
                 /\ Called(t)' /\ ~Called(t) => RHeld' = RHeld \cup {t}
                 /\ ~Called(t)' /\ Called(t) => RHeld' = RHeld \ {t}
<1>1. \A x \in Distinct : x # t => RAttempts'[x] = RAttempts[x] /\ (Called(x)' <=> Called(x))
  <2>1. \A x \in Distinct : x # t => Attempts(x)' = Attempts(x) /\ (Called(x)' <=> Called(x))
    BY OthersKept, Zenon
  <2> QED BY <2>1, Zenon DEF RAttempts
<1>2. RHeld = {x \in Distinct : Called(x)} /\ RHeld' = {x \in Distinct : Called(x)'}
  BY Zenon DEF Counted
<1>3. RAttempts = [x \in Distinct |-> RAttempts[x]] /\ RAttempts' = [x \in Distinct |-> RAttempts'[x]]
  BY Zenon DEF RAttempts
<1>4. ASSUME t \in Repeated PROVE RHeld' = RHeld /\ RAttempts' = RAttempts
  <2>1. \A x \in Distinct : x # t
    BY <1>4, Zenon DEF Distinct
  <2> QED BY <1>1, <1>2, <1>3, <2>1, Zenon
<1>5. ASSUME t \in Distinct
      PROVE  /\ Called(t)' /\ Called(t) => RHeld' = RHeld
             /\ ~Called(t)' /\ ~Called(t) => RHeld' = RHeld
             /\ Called(t)' /\ ~Called(t) => RHeld' = RHeld \cup {t}
             /\ ~Called(t)' /\ Called(t) => RHeld' = RHeld \ {t}
  BY <1>1, <1>2, <1>5, Zenon
<1>6. t \in Distinct => RAttempts[t] = Attempts(t) /\ RAttempts'[t] = Attempts(t)'
  BY Zenon DEF RAttempts
<1>7. ASSUME t \in Distinct, Attempts(t)' = Attempts(t) PROVE RAttempts' = RAttempts
  <2>1. \A x \in Distinct : RAttempts'[x] = RAttempts[x]
    BY <1>1, <1>6, <1>7, Zenon
  <2> QED BY <1>3, <2>1, Zenon
<1>8. ASSUME t \in Distinct, NEW n, Attempts(t)' = n PROVE RAttempts' = [RAttempts EXCEPT ![t] = n]
  <2>1. \A x \in Distinct : RAttempts'[x] = IF x = t THEN n ELSE RAttempts[x]
    BY <1>1, <1>6, <1>8, Zenon
  <2>2. [RAttempts EXCEPT ![t] = n] = [x \in Distinct |-> IF x = t THEN n ELSE RAttempts[x]]
    BY <1>3, <1>8, Zenon
  <2> QED BY <1>3, <2>1, <2>2, Zenon
<1> QED BY <1>4, <1>5, <1>7, <1>8, Zenon

-----------------------------------------------------------------------------
\* At the start the service holds nothing.
LEMMA InitRedisDelivery == FollowsList /\ RedisInit => RedisDelivery!DInit
<1> SUFFICES ASSUME FollowsList, RedisInit PROVE RedisDelivery!DInit
  BY Zenon
<1>1. DOMAIN redisItems = {} /\ DOMAIN redisDead = {} /\ redisAcked = {} /\ redisList = <<>>
  BY DEF RedisInit
<1>2. Counted /\ \A t \in Distinct : ~Called(t)
  <2>1. RedisInv
    BY InitRedis, Zenon
  <2>2. \A w \in Workers : worker[w].task = NoTask
    BY Zenon DEF RedisInit, NoCall
  <2> QED BY <2>1, <2>2, AlwaysCounted, QueueAssumption, Zenon DEF Called, Distinct
<1>3. RHeld = {} /\ RDone = {} /\ RDead = {}
  BY <1>1, <1>2, Zenon DEF Counted, RDone, RDead
<1>4. RAttempts = [t \in Distinct |-> 0]
  BY <1>1, <1>2, Zenon DEF Counted, RAttempts
<1>5. OfDistinct(redisList) = <<>>
  BY <1>1, Zenon DEF FollowsList
<1> QED BY <1>3, <1>4, <1>5, Zenon DEF RedisDelivery!DInit, RHeld, RDone, RDead, RAttempts

\* The service takes no step when nothing it sees changes.
LEMMA Unseen ==
    ASSUME RHeld' = RHeld, RDone' = RDone, RDead' = RDead, RAttempts' = RAttempts,
           OfDistinct(redisList)' = OfDistinct(redisList)
    PROVE  UNCHANGED RedisDelivery!dvars
BY Zenon DEF RedisDelivery!dvars, RHeld, RDone, RDead, RAttempts

\* The SET of an enqueue is not seen: the id is not in the list yet.
LEMMA EnqueueSetUnseen ==
    ASSUME RedisInv, Counted, Counted', NEW t \in Tasks, EnqueueSet(t)
    PROVE  UNCHANGED RedisDelivery!dvars
<1>1. /\ DOMAIN redisItems' = DOMAIN redisItems \cup {t}
      /\ redisItems'[t] = [status |-> "pending", attempts |-> 0]
      /\ \A x \in DOMAIN redisItems : x # t => redisItems'[x] = redisItems[x]
  BY PutItem, Zenon DEF EnqueueSet
<1>2. UNCHANGED <<redisList, redisDead, redisAcked, worker>>
  BY Zenon DEF EnqueueSet
<1>3. Concerns(t)
  BY <1>1, <1>2, Zenon DEF Concerns
<1>4. t \in Distinct => ~Called(t) /\ ~Called(t)' /\ Attempts(t) = 0 /\ Attempts(t)' = 0
  <2> SUFFICES ASSUME t \in Distinct
               PROVE  ~Called(t) /\ ~Called(t)' /\ Attempts(t) = 0 /\ Attempts(t)' = 0
    BY Zenon
  <2>1. redisEnqueued[t] \in 0 .. 2 /\ redisEnqueued[t] < 1
    BY Zenon DEF EnqueueSet, EnqueueLimit, RedisInv, RedisTypes, Distinct
  <2>2. t \notin DOMAIN redisItems /\ ~Called(t)
    BY <2>1 DEF RedisInv, NewNowhere
  <2>3. ~Called(t)'
    BY <1>2, <2>2, Zenon DEF Called
  <2>4. Attempts(t) = 0
    BY <2>2, Zenon DEF Counted
  <2>5. t \in DOMAIN redisItems' /\ redisItems'[t].attempts = 0
    BY <1>1
  <2>6. Attempts(t)' = 0
    BY <2>3, <2>5, Zenon DEF Counted
  <2> QED BY <2>2, <2>3, <2>4, <2>6, Zenon
<1>5. RHeld' = RHeld /\ RAttempts' = RAttempts
  BY <1>3, <1>4, SeenOf, Zenon DEF Distinct
<1>6. RDone' = RDone /\ RDead' = RDead /\ OfDistinct(redisList)' = OfDistinct(redisList)
  BY <1>2, Zenon DEF RDone, RDead
<1> QED BY <1>5, <1>6, Unseen, Zenon

\* The RPUSH of an enqueue is the submission.
LEMMA EnqueuePushSubmits ==
    ASSUME FollowsList, RedisInv, Counted, Counted', NEW t \in Tasks, EnqueuePush(t)
    PROVE  (t \in Distinct /\ RedisDelivery!Submit(t)) \/ UNCHANGED RedisDelivery!dvars
<1>1. /\ redisList \in Seq(Tasks) /\ redisList' = Append(redisList, t)
      /\ UNCHANGED <<redisItems, redisDead, redisAcked, worker>>
  BY Zenon DEF EnqueuePush, RedisInv, RedisTypes
<1>2. Concerns(t)
  BY <1>1, Zenon DEF Concerns
<1>3. RDone' = RDone /\ RDead' = RDead
  BY <1>1, Zenon DEF RDone, RDead
<1>4. CASE t \in Repeated
  <2>1. OfDistinct(redisList)' = OfDistinct(redisList)
    BY <1>1, <1>4, ListAppend, Zenon
  <2>2. RHeld' = RHeld /\ RAttempts' = RAttempts
    BY <1>2, <1>4, SeenOf, Zenon
  <2> QED BY <1>3, <2>1, <2>2, Unseen, Zenon
<1>5. CASE t \in Distinct
  <2>1. ~Listed(t) /\ ~Called(t) /\ t \notin redisAcked /\ ~Buried(t)
    BY <1>5, Zenon DEF EnqueuePush, RedisInv, PushesFit
  <2>2. ~Called(t)'
    BY <1>1, <2>1, Zenon DEF Called
  <2>3. Attempts(t)' = Attempts(t)
    BY <1>1, <1>5, <2>1, <2>2, Zenon DEF Counted
  <2>4. RHeld' = RHeld /\ RAttempts' = RAttempts
    BY <1>2, <1>5, <2>1, <2>2, <2>3, SeenOf, Zenon
  <2>5. OfDistinct(redisList)' = Append(OfDistinct(redisList), t)
    BY <1>1, <1>5, ListAppend, Zenon DEF Distinct
  <2>6. t \notin RHeld /\ t \notin RDone /\ t \notin RDead
    BY <2>1, Zenon DEF Counted, RDone, RDead, Buried
  <2>7. t \notin RedisDelivery!WaitingSet
    BY <1>1, <2>1, ListFrom DEF RedisDelivery!WaitingSet, Listed
  <2> QED BY <1>3, <1>5, <2>4, <2>5, <2>6, <2>7, Zenon
          DEF RedisDelivery!Submit, RHeld, RDone, RDead, RAttempts
<1> QED BY <1>4, <1>5, Zenon DEF Distinct

\* LPOP is the hand-out.
LEMMA DequeuePopTakes ==
    ASSUME FollowsList, RedisInv, Counted, Counted', NEW w \in Workers, DequeuePop(w)
    PROVE  RedisDelivery!Take \/ UNCHANGED RedisDelivery!dvars
<1>1. /\ redisList \in Seq(Tasks) /\ redisList # <<>> /\ redisList' = Tail(redisList)
      /\ UNCHANGED <<redisItems, redisDead, redisAcked>>
  BY Zenon DEF DequeuePop, RedisInv, RedisTypes
<1>2. PICK t \in Tasks : t = Head(redisList)
  BY <1>1
<1>3. PICK c : c = [at |-> "get", task |-> t, read |-> 0]
  BY Zenon
<1>4. worker'[w] = c /\ \A v \in Workers : v # w => worker'[v] = worker[v]
  BY <1>2, <1>3, Zenon DEF DequeuePop, RedisInv, RedisTypes
<1>5. worker[w].task = NoTask /\ c.task = t /\ c.at = "get"
  BY <1>3, Zenon DEF DequeuePop, At, RedisInv, RedisTypes
<1>6. Concerns(t)
  BY <1>1, <1>4, <1>5, Zenon DEF Concerns
<1>7. RDone' = RDone /\ RDead' = RDead
  BY <1>1, Zenon DEF RDone, RDead
<1>8. CASE t \in Repeated
  <2>1. OfDistinct(redisList)' = OfDistinct(redisList)
    BY <1>1, <1>2, <1>8, ListTail, Zenon
  <2>2. RHeld' = RHeld /\ RAttempts' = RAttempts
    BY <1>6, <1>8, SeenOf, Zenon
  <2> QED BY <1>7, <2>1, <2>2, Unseen, Zenon
<1>9. CASE t \in Distinct
  <2>1. Known(t, "pending") /\ ~Called(t)
    <3>1. t = redisList[1] /\ 1 \in DOMAIN redisList
      BY <1>1, <1>2
    <3>2. Listed(t)
      BY <3>1, Zenon DEF Listed
    <3> QED BY <1>9, <3>1, <3>2, Zenon DEF RedisInv, ListFits, OnePlace
  <2>2. Called(t)'
    BY <1>4, <1>5, Zenon DEF Called
  <2>3. Attempts(t) = redisItems[t].attempts
    BY <1>9, <2>1, Zenon DEF Counted, Known
  <2>4. Attempts(t)' = redisItems[t].attempts + 1
    <3>1. Attempts(t)' = CountedBy(t, worker[w])'
      BY <1>4, <1>5, <1>9, Zenon DEF Counted
    <3> QED BY <1>1, <1>4, <1>5, <3>1, Zenon DEF CountedBy
  <2>5. RAttempts[t] = redisItems[t].attempts
    BY <1>9, <2>3, Zenon DEF RAttempts
  <2>6. RHeld' = RHeld \cup {t} /\ RAttempts' = [RAttempts EXCEPT ![t] = RAttempts[t] + 1]
    BY <1>6, <1>9, <2>1, <2>2, <2>4, <2>5, SeenOf, Zenon
  <2>7. /\ OfDistinct(redisList) # <<>>
        /\ Head(OfDistinct(redisList)) = t
        /\ OfDistinct(redisList)' = Tail(OfDistinct(redisList))
    BY <1>1, <1>2, <1>9, ListTail, Zenon DEF Distinct
  <2> QED BY <1>7, <2>6, <2>7, Zenon DEF RedisDelivery!Take, RHeld, RDone, RDead, RAttempts
<1> QED BY <1>8, <1>9, Zenon DEF Distinct

\* A call that goes on is not seen, if it counts the attempts of its id as before.
LEMMA CallUnseen ==
    ASSUME RedisInv, Counted, Counted', NEW w \in Workers, NEW t \in Tasks, worker[w].task = t,
           NEW c, Becomes(w, c), c.task = t,
           \A x : x # t => (x \in DOMAIN redisItems' <=> x \in DOMAIN redisItems),
           \A x \in DOMAIN redisItems : x # t => redisItems'[x] = redisItems[x],
           UNCHANGED <<redisList, redisDead, redisAcked>>,
           t \in Distinct => CountedBy(t, c)' = CountedBy(t, worker[w])
    PROVE  UNCHANGED RedisDelivery!dvars
<1>1. worker'[w] = c /\ \A v \in Workers : v # w => worker'[v] = worker[v]
  BY Zenon DEF Becomes
<1>2. Concerns(t)
  BY <1>1, Zenon DEF Concerns
<1>3. Called(t) /\ Called(t)'
  BY <1>1, Zenon DEF Called
<1>4. t \in Distinct => Attempts(t)' = Attempts(t)
  <2>1. t \in Distinct => Attempts(t) = CountedBy(t, worker[w])
    BY Zenon DEF Counted
  <2>2. t \in Distinct => Attempts(t)' = CountedBy(t, c)'
    BY <1>1, Zenon DEF Counted, CountedBy
  <2> QED BY <2>1, <2>2, Zenon
<1>5. RHeld' = RHeld /\ RAttempts' = RAttempts
  BY <1>2, <1>3, <1>4, SeenOf, Zenon DEF Distinct
<1>6. RDone' = RDone /\ RDead' = RDead /\ OfDistinct(redisList)' = OfDistinct(redisList)
  BY Zenon DEF RDone, RDead
<1> QED BY <1>5, <1>6, Unseen, Zenon

\* A call gives up on an id whose item is gone: never a distinct one.
LEMMA GiveUpUnseen ==
    ASSUME RedisInv, Counted, Counted', NEW w \in Workers, Done(w),
           worker[w].at \in {"get", "work"}, worker[w].task \notin DOMAIN redisItems,
           UNCHANGED <<redisList, redisItems, redisDead, redisAcked>>
    PROVE  UNCHANGED RedisDelivery!dvars
<1>1. PICK t \in Tasks : t = worker[w].task
  BY Zenon DEF RedisInv, RedisTypes, Call
<1>2. t \in Repeated
  BY <1>1, Zenon DEF RedisInv, CallsFit, CallFits, Known, Distinct
<1>3. /\ \A v \in Workers : v # w => worker'[v] = worker[v]
      /\ worker'[w].task = NoTask
  BY DoneBecomes, Zenon DEF Becomes, RedisInv
<1>4. Concerns(t)
  BY <1>1, <1>3, Zenon DEF Concerns
<1>5. RHeld' = RHeld /\ RAttempts' = RAttempts
  BY <1>2, <1>4, SeenOf, Zenon
<1>6. RDone' = RDone /\ RDead' = RDead /\ OfDistinct(redisList)' = OfDistinct(redisList)
  BY Zenon DEF RDone, RDead
<1> QED BY <1>5, <1>6, Unseen, Zenon

\* The GET of a dequeue only fills the registers of its call.
LEMMA DequeueGetUnseen ==
    ASSUME RedisInv, Counted, Counted', NEW w \in Workers, DequeueGet(w)
    PROVE  UNCHANGED RedisDelivery!dvars
<1>1. /\ RedisTypes /\ worker[w].at = "get"
      /\ UNCHANGED <<redisList, redisItems, redisDead, redisAcked>>
  BY Zenon DEF DequeueGet, At, RedisInv
<1>2. PICK t \in Tasks : t = worker[w].task
  BY <1>1, Zenon DEF RedisTypes, Call
<1>3. CASE t \in DOMAIN redisItems /\ Reads(w, "set")
  <2>1. PICK c : c = [at |-> "set", task |-> t, read |-> redisItems[t].attempts]
    BY Zenon
  <2>2. Becomes(w, c)
    BY <1>1, <1>2, <1>3, <2>1, ReadsBecomes, Zenon
  <2>3. c.at = "set" /\ c.task = t
    BY <2>1, Zenon
  <2>4. CountedBy(t, c)' = CountedBy(t, worker[w])
    BY <1>1, <2>3, Zenon DEF CountedBy
  <2> QED BY <1>1, <1>2, <2>2, <2>3, <2>4, CallUnseen, Zenon
<1>4. CASE t \notin DOMAIN redisItems /\ Done(w)
  BY <1>1, <1>2, <1>4, GiveUpUnseen, Zenon
<1> QED BY <1>2, <1>3, <1>4, Zenon DEF DequeueGet

\* The SET of a dequeue writes down the attempt that LPOP began.
LEMMA DequeueSetUnseen ==
    ASSUME RedisInv, Counted, Counted', NEW w \in Workers, DequeueSet(w)
    PROVE  UNCHANGED RedisDelivery!dvars
<1>1. /\ RedisTypes /\ worker[w].at = "set"
      /\ UNCHANGED <<redisList, redisDead, redisAcked>>
  BY Zenon DEF DequeueSet, At, RedisInv
<1>2. PICK t \in Tasks : t = worker[w].task
  BY <1>1, Zenon DEF RedisTypes, Call
<1>3. PICK n \in Nat : n = worker[w].read
  BY <1>1, Zenon DEF RedisTypes, Call
<1>4. PICK c : c = [at |-> "work", task |-> t, read |-> n]
  BY Zenon
<1>5. Becomes(w, c)
  BY <1>1, <1>2, <1>3, <1>4, GotoBecomes, Zenon DEF DequeueSet
<1>6. /\ DOMAIN redisItems' = DOMAIN redisItems \cup {t}
      /\ redisItems'[t] = [status |-> "processing", attempts |-> n + 1]
      /\ \A x \in DOMAIN redisItems : x # t => redisItems'[x] = redisItems[x]
  <2>1. Put(t, "processing", n + 1)
    BY <1>2, <1>3, Zenon DEF DequeueSet
  <2> QED BY <2>1, PutItem, Zenon
<1>7. c.at = "work" /\ c.task = t
  BY <1>4, Zenon
<1>8. t \in Distinct => CountedBy(t, c)' = CountedBy(t, worker[w])
  <2>1. t \in Distinct => n = redisItems[t].attempts
    BY <1>1, <1>2, <1>3, Zenon DEF RedisInv, CallsFit, CallFits
  <2>2. CountedBy(t, c)' = n + 1
    BY <1>6, <1>7 DEF CountedBy
  <2>3. CountedBy(t, worker[w]) = redisItems[t].attempts + 1
    BY <1>1, Zenon DEF CountedBy
  <2> QED BY <2>1, <2>2, <2>3, Zenon
<1> QED BY <1>1, <1>2, <1>5, <1>6, <1>7, <1>8, CallUnseen, Zenon

\* The GET of an ack or a nack only fills the registers of its call.
LEMMA AnswerGetUnseen ==
    ASSUME RedisInv, Counted, Counted', NEW w \in Workers, AnswerGet(w)
    PROVE  UNCHANGED RedisDelivery!dvars
<1>1. /\ RedisTypes /\ worker[w].at = "work"
      /\ UNCHANGED <<redisList, redisItems, redisDead, redisAcked>>
  BY Zenon DEF AnswerGet, At, RedisInv
<1>2. PICK t \in Tasks : t = worker[w].task
  BY <1>1, Zenon DEF RedisTypes, Call
<1>3. ASSUME NEW command \in {"ack", "nack"}, t \in DOMAIN redisItems, Reads(w, command)
      PROVE  UNCHANGED RedisDelivery!dvars
  <2>1. PICK c : c = [at |-> command, task |-> t, read |-> redisItems[t].attempts]
    BY Zenon
  <2>2. Becomes(w, c)
    BY <1>1, <1>2, <1>3, <2>1, ReadsBecomes, Zenon
  <2>3. c.at = command /\ c.task = t
    BY <2>1, Zenon
  <2>4. CountedBy(t, c)' = CountedBy(t, worker[w])
    BY <1>1, <2>3, Zenon DEF CountedBy
  <2> QED BY <1>1, <1>2, <2>2, <2>3, <2>4, CallUnseen, Zenon
<1>4. CASE t \notin DOMAIN redisItems /\ Done(w)
  BY <1>1, <1>2, <1>4, GiveUpUnseen, Zenon
<1> QED BY <1>2, <1>3, <1>4, Zenon DEF AnswerGet

\* The write of a nack comes before the RPUSH that decides: the call still holds the id.
LEMMA NackWriteUnseen ==
    ASSUME RedisInv, Counted, Counted', NEW w \in Workers, NackWrite(w)
    PROVE  UNCHANGED RedisDelivery!dvars
<1>1. /\ RedisTypes /\ worker[w].at = "nack"
      /\ UNCHANGED <<redisList, redisDead, redisAcked>>
  BY Zenon DEF NackWrite, At, RedisInv
<1>2. PICK t \in Tasks : t = worker[w].task
  BY <1>1, Zenon DEF RedisTypes, Call
<1>3. PICK n \in Nat : n = worker[w].read
  BY <1>1, Zenon DEF RedisTypes, Call
<1>4. t \in Distinct => CountedBy(t, worker[w]) = n
  <2>1. t \in Distinct => n = redisItems[t].attempts
    BY <1>1, <1>2, <1>3, Zenon DEF RedisInv, CallsFit, CallFits
  <2> QED BY <1>1, <2>1, Zenon DEF CountedBy
<1>5. ASSUME NEW command \in {"bury", "requeue"}, Goto(w, command)
      PROVE  \E c : /\ Becomes(w, c) /\ c.task = t
                    /\ t \in Distinct => CountedBy(t, c)' = CountedBy(t, worker[w])
  <2>1. PICK c : c = [at |-> command, task |-> t, read |-> n]
    BY Zenon
  <2>2. Becomes(w, c)
    BY <1>1, <1>2, <1>3, <1>5, <2>1, GotoBecomes, Zenon
  <2>3. c.at = command /\ c.task = t /\ c.read = n
    BY <2>1, Zenon
  <2>4. CountedBy(t, c)' = n
    BY <2>3, Zenon DEF CountedBy
  <2> QED BY <1>4, <2>2, <2>3, <2>4, Zenon
<1>6. PICK c : /\ Becomes(w, c) /\ c.task = t
               /\ t \in Distinct => CountedBy(t, c)' = CountedBy(t, worker[w])
  BY <1>5, Zenon DEF NackWrite
<1>7. /\ \A x : x # t => (x \in DOMAIN redisItems' <=> x \in DOMAIN redisItems)
      /\ \A x \in DOMAIN redisItems : x # t => redisItems'[x] = redisItems[x]
  <2>1. CASE Delete(t)
    BY <2>1, DeleteItem, Zenon
  <2>2. CASE Put(t, "pending", n)
    BY <2>2, PutItem, Zenon
  <2> QED BY <1>2, <1>3, <2>1, <2>2, Zenon DEF NackWrite
<1> QED BY <1>1, <1>2, <1>6, <1>7, CallUnseen, Zenon

\* What the service sees of the end of a call.
LEMMA EndSeen ==
    ASSUME RedisInv, Counted, Counted', NEW w \in Workers, NEW t \in Tasks, worker[w].task = t,
           Done(w), worker[w].at # "lpop",
           \A x : x # t => (x \in DOMAIN redisItems' <=> x \in DOMAIN redisItems),
           \A x \in DOMAIN redisItems : x # t => redisItems'[x] = redisItems[x]
    PROVE  /\ t \in Repeated => RHeld' = RHeld /\ RAttempts' = RAttempts
           /\ t \in Distinct =>
                 /\ t \in RHeld /\ RHeld' = RHeld \ {t}
                 /\ RAttempts[t] = CountedBy(t, worker[w])
                 /\ \A n : n = (IF t \in DOMAIN redisItems' THEN redisItems'[t].attempts ELSE 0) =>
                       RAttempts' = [RAttempts EXCEPT ![t] = n]
<1>1. /\ \A v \in Workers : v # w => worker'[v] = worker[v]
      /\ worker'[w].task = NoTask
  BY DoneBecomes, Zenon DEF Becomes, RedisInv
<1>2. Concerns(t)
  BY <1>1, Zenon DEF Concerns
<1>3. t \in Repeated => RHeld' = RHeld /\ RAttempts' = RAttempts
  BY <1>2, SeenOf, Zenon
<1>4. ASSUME t \in Distinct
      PROVE  /\ t \in RHeld /\ RHeld' = RHeld \ {t}
             /\ RAttempts[t] = CountedBy(t, worker[w])
             /\ \A n : n = (IF t \in DOMAIN redisItems' THEN redisItems'[t].attempts ELSE 0) =>
                   RAttempts' = [RAttempts EXCEPT ![t] = n]
  <2>1. Called(t) /\ ~Called(t)'
    <3>1. Called(t)
      BY Zenon DEF Called
    <3>2. \A x \in Distinct : x = worker[w].task => ~Called(x)' /\ ~Listed(x)
      BY CallEnds, Zenon
    <3> QED BY <1>4, <3>1, <3>2, Zenon
  <2>2. Attempts(t)' = IF t \in DOMAIN redisItems' THEN redisItems'[t].attempts ELSE 0
    BY <1>4, <2>1, Zenon DEF Counted
  <2>3. t \in RHeld /\ RAttempts[t] = CountedBy(t, worker[w])
    BY <1>4, <2>1, Zenon DEF Counted, RAttempts
  <2>4. /\ RHeld' = RHeld \ {t}
        /\ \A n : Attempts(t)' = n => RAttempts' = [RAttempts EXCEPT ![t] = n]
    BY <1>2, <1>4, <2>1, SeenOf, Zenon
  <2> QED BY <2>2, <2>3, <2>4, Zenon
<1> QED BY <1>3, <1>4, Zenon

\* The DEL of an ack is the acknowledgement.
LEMMA AckDeleteAcknowledges ==
    ASSUME RedisInv, Counted, Counted', NEW w \in Workers, AckDelete(w)
    PROVE  \/ \E t \in Distinct : RedisDelivery!Acknowledge(t)
           \/ UNCHANGED RedisDelivery!dvars
<1>1. /\ RedisTypes /\ worker[w].at = "ack" /\ Done(w)
      /\ UNCHANGED <<redisList, redisDead>>
  BY Zenon DEF AckDelete, At, RedisInv
<1>2. PICK t \in Tasks : t = worker[w].task
  BY <1>1, Zenon DEF RedisTypes, Call
<1>3. /\ DOMAIN redisItems' = DOMAIN redisItems \ {t}
      /\ \A x \in DOMAIN redisItems' : redisItems'[x] = redisItems[x]
  BY <1>2, DeleteItem, Zenon DEF AckDelete
<1>4. redisAcked' = redisAcked \cup {t}
  BY <1>2, Zenon DEF AckDelete
<1>5. /\ t \in Repeated => RHeld' = RHeld /\ RAttempts' = RAttempts
      /\ t \in Distinct => t \in RHeld /\ RHeld' = RHeld \ {t} /\ RAttempts' = [RAttempts EXCEPT ![t] = 0]
  BY <1>1, <1>2, <1>3, EndSeen, Zenon
<1>6. RDead' = RDead /\ OfDistinct(redisList)' = OfDistinct(redisList)
  BY <1>1, Zenon DEF RDead
<1>7. CASE t \in Repeated
  <2>1. RDone' = RDone
    BY <1>4, <1>7, Zenon DEF RDone
  <2> QED BY <1>5, <1>6, <1>7, <2>1, Unseen, Zenon
<1>8. CASE t \in Distinct
  <2>1. RDone' = RDone \cup {t}
    BY <1>4, <1>8, Zenon DEF RDone, Distinct
  <2>2. RedisDelivery!Acknowledge(t)
    BY <1>5, <1>6, <1>8, <2>1, Zenon DEF RedisDelivery!Acknowledge, RHeld, RDone, RDead, RAttempts
  <2> QED BY <1>8, <2>2, Zenon
<1> QED BY <1>7, <1>8, Zenon DEF Distinct

\* The RPUSH to the dead letters is the burial.
LEMMA NackBuryBuries ==
    ASSUME RedisInv, Counted, Counted', NEW w \in Workers, NackBury(w)
    PROVE  \/ \E t \in Distinct : RedisDelivery!Bury(t)
           \/ UNCHANGED RedisDelivery!dvars
<1>1. /\ RedisTypes /\ worker[w].at = "bury" /\ Done(w)
      /\ UNCHANGED <<redisList, redisItems, redisAcked>>
  BY Zenon DEF NackBury, At, RedisInv
<1>2. PICK t \in Tasks : t = worker[w].task
  BY <1>1, Zenon DEF RedisTypes, Call
<1>3. \A x : x \in {redisDead'[k] : k \in DOMAIN redisDead'} <=>
             x \in {redisDead[k] : k \in DOMAIN redisDead} \/ x = t
  <2>1. redisDead \in Seq(Tasks) /\ redisDead' = Append(redisDead, t)
    BY <1>1, <1>2, Zenon DEF NackBury, RedisTypes
  <2>2. /\ redisDead'[Len(redisDead) + 1] = t
        /\ \A k \in DOMAIN redisDead : redisDead'[k] = redisDead[k]
        /\ DOMAIN redisDead' = DOMAIN redisDead \cup {Len(redisDead) + 1}
    BY <2>1
  <2> QED BY <2>2, Zenon
<1>4. t \in Distinct => /\ t \notin DOMAIN redisItems' /\ MaxRetries <= worker[w].read
                        /\ CountedBy(t, worker[w]) = worker[w].read
  BY <1>1, <1>2, Zenon DEF RedisInv, CallsFit, CallFits, CountedBy
<1>5. /\ t \in Repeated => RHeld' = RHeld /\ RAttempts' = RAttempts
      /\ t \in Distinct =>
            /\ t \in RHeld /\ RHeld' = RHeld \ {t} /\ RAttempts' = [RAttempts EXCEPT ![t] = 0]
            /\ RAttempts[t] = CountedBy(t, worker[w])
  BY <1>1, <1>2, <1>4, EndSeen, Zenon
<1>6. RDone' = RDone /\ OfDistinct(redisList)' = OfDistinct(redisList)
  BY <1>1, Zenon DEF RDone
<1>7. CASE t \in Repeated
  <2>1. RDead' = RDead
    BY <1>3, <1>7, Zenon DEF RDead
  <2> QED BY <1>5, <1>6, <1>7, <2>1, Unseen, Zenon
<1>8. CASE t \in Distinct
  <2>1. RDead' = RDead \cup {t}
    BY <1>3, <1>8, Zenon DEF RDead, Distinct
  <2>2. RAttempts[t] >= MaxRetries
    <3>1. worker[w].read \in Nat
      BY <1>1, Zenon DEF RedisTypes, Call
    <3> QED BY <1>4, <1>5, <1>8, <3>1, QueueAssumption, Zenon
  <2>3. RedisDelivery!Bury(t)
    BY <1>5, <1>6, <1>8, <2>1, <2>2, Zenon DEF RedisDelivery!Bury, RHeld, RDone, RDead, RAttempts
  <2> QED BY <1>8, <2>3, Zenon
<1> QED BY <1>7, <1>8, Zenon DEF Distinct

\* The RPUSH back to the list is the retry.
LEMMA NackRequeueRetries ==
    ASSUME FollowsList, RedisInv, Counted, Counted', NEW w \in Workers, NackRequeue(w)
    PROVE  \/ \E t \in Distinct : RedisDelivery!Retry(t)
           \/ UNCHANGED RedisDelivery!dvars
<1>1. /\ RedisTypes /\ worker[w].at = "requeue" /\ Done(w)
      /\ UNCHANGED <<redisItems, redisDead, redisAcked>>
  BY Zenon DEF NackRequeue, At, RedisInv
<1>2. PICK t \in Tasks : t = worker[w].task
  BY <1>1, Zenon DEF RedisTypes, Call
<1>3. redisList \in Seq(Tasks) /\ redisList' = Append(redisList, t)
  BY <1>1, <1>2, Zenon DEF NackRequeue, RedisTypes
<1>4. t \in Distinct => /\ t \in DOMAIN redisItems' /\ worker[w].read < MaxRetries
                        /\ CountedBy(t, worker[w]) = worker[w].read
                        /\ worker[w].read = redisItems'[t].attempts
  BY <1>1, <1>2, Zenon DEF RedisInv, RedisTypes, CallsFit, CallFits, CountedBy, Known
<1>5. /\ t \in Repeated => RHeld' = RHeld /\ RAttempts' = RAttempts
      /\ t \in Distinct =>
            /\ t \in RHeld /\ RHeld' = RHeld \ {t}
            /\ RAttempts' = [RAttempts EXCEPT ![t] = worker[w].read]
            /\ RAttempts[t] = worker[w].read
  BY <1>1, <1>2, <1>4, EndSeen, Zenon
<1>6. RDone' = RDone /\ RDead' = RDead
  BY <1>1, Zenon DEF RDone, RDead
<1>7. CASE t \in Repeated
  <2>1. OfDistinct(redisList)' = OfDistinct(redisList)
    BY <1>3, <1>7, ListAppend, Zenon
  <2> QED BY <1>5, <1>6, <1>7, <2>1, Unseen, Zenon
<1>8. CASE t \in Distinct
  <2>1. OfDistinct(redisList)' = Append(OfDistinct(redisList), t)
    BY <1>3, <1>8, ListAppend, Zenon DEF Distinct
  <2>2. RAttempts' = RAttempts
    BY <1>5, <1>8, Zenon DEF RAttempts
  <2>3. RedisDelivery!Retry(t)
    BY <1>4, <1>5, <1>6, <1>8, <2>1, <2>2, Zenon DEF RedisDelivery!Retry, RHeld, RDone, RDead, RAttempts
  <2> QED BY <1>8, <2>3, Zenon
<1> QED BY <1>7, <1>8, Zenon DEF Distinct

\* Every command is a step of the delivery service, or leaves it as it is.
LEMMA NextRedisDelivery ==
    FollowsList /\ RedisInv /\ Counted /\ Counted' /\ [RedisNext]_redisVars =>
        [RedisDelivery!DNext]_RedisDelivery!dvars
<1> SUFFICES ASSUME FollowsList, RedisInv, Counted, Counted', [RedisNext]_redisVars
             PROVE  [RedisDelivery!DNext]_RedisDelivery!dvars
  BY Zenon
<1>1. CASE UNCHANGED <<redisList, redisItems, redisDead, redisAcked, worker>>
  <2>1. UNCHANGED <<RHeld, RDone, RDead, OfDistinct(redisList)>>
    BY <1>1, Zenon DEF RHeld, Held, RDone, RDead
  <2>2. RAttempts' = RAttempts
    BY <1>1 DEF RAttempts, Attempts, Held, Holder
  <2> QED BY <2>1, <2>2, Unseen, Zenon
<1>2. ASSUME NEW w \in Workers, CallerDies(w) PROVE [RedisDelivery!DNext]_RedisDelivery!dvars
  BY <1>1, <1>2, Zenon DEF CallerDies
<1>3. CASE UNCHANGED redisVars
  BY <1>1, <1>3, Zenon DEF redisVars
<1>4. ASSUME NEW w \in Workers, CommandStep(w) PROVE [RedisDelivery!DNext]_RedisDelivery!dvars
  BY <1>4, DequeuePopTakes, DequeueGetUnseen, DequeueSetUnseen, AnswerGetUnseen,
     AckDeleteAcknowledges, NackWriteUnseen, NackBuryBuries, NackRequeueRetries
     DEF CommandStep, RedisDelivery!DNext
<1>5. ASSUME NEW t \in Tasks, EnqueueSet(t) \/ EnqueuePush(t)
      PROVE  [RedisDelivery!DNext]_RedisDelivery!dvars
  BY <1>5, EnqueueSetUnseen, EnqueuePushSubmits, Zenon DEF RedisDelivery!DNext
<1> QED BY <1>2, <1>3, <1>4, <1>5, Zenon DEF RedisNext, Stop

-----------------------------------------------------------------------------
\* The Redis queue's types, from its invariant.
LEMMA RedisTyped ==
    ASSUME CountingFacts PROVE RedisInv /\ RedisCopiesInv => RedisTypeOK
<1> SUFFICES ASSUME RedisInv, RedisCopiesInv PROVE RedisTypeOK
  BY Zenon
<1>1. RedisTypes
  BY Zenon DEF RedisInv
<1>2. ASSUME NEW t \in DOMAIN redisItems
      PROVE  redisItems[t] \in [status : {"pending", "processing"}, attempts : 0 .. AttemptLimit(t)]
  <2>1. t \in Tasks /\ redisItems[t] \in [status : {"pending", "processing"}, attempts : Nat]
    BY <1>1, <1>2, Zenon DEF RedisTypes, Item
  <2>2. RedisCopiesOf(t)
    BY <2>1, Zenon DEF RedisCopiesInv
  <2>3. PICK l, p, c, b, e : Numbered(t, l, p, c, b, e) /\ NumbersFit(t, l, p, c, b, e)
    BY <1>1, <2>1, <2>2, NumbersOf
  <2>4. /\ Counts(redisItems[t].attempts, l + p + b, e) /\ Within(l + p, c, e, EnqueueLimit(t))
        /\ l \in Nat /\ p \in Nat /\ b \in Nat /\ c \in Nat /\ e \in Nat
    BY <1>2, <2>3 DEF NumbersFit, Numbered
  <2>5. e <= EnqueueLimit(t) /\ l + p + b \in Nat /\ redisItems[t].attempts \in Nat
    BY <2>1, <2>4 DEF Within
  <2>6. redisItems[t].attempts \in 0 .. AttemptLimit(t)
    BY <2>1, <2>4, <2>5, CountsWithin, Zenon
  <2> QED BY <2>1, <2>6, Zenon
<1>3. worker \in [Workers ->
          [at : {"lpop", "get", "set", "work", "ack", "nack", "bury", "requeue"},
           task : Tasks \cup {NoTask}, read : 0 .. MaxRetries + 1]]
  <2>1. worker \in [Workers -> Call] /\ \A w \in Workers : worker[w].read <= MaxRetries + 1
    BY <1>1, Zenon DEF RedisTypes, RedisCopiesInv
  <2>2. ASSUME NEW w \in Workers
        PROVE  worker[w] \in
                  [at : {"lpop", "get", "set", "work", "ack", "nack", "bury", "requeue"},
                   task : Tasks \cup {NoTask}, read : 0 .. MaxRetries + 1]
    <3>1. worker[w] \in Call /\ worker[w].read <= MaxRetries + 1
      BY <2>1, Zenon
    <3> QED BY <3>1, QueueAssumption DEF Call
  <2> QED BY <2>1, <2>2, Zenon
<1> QED BY <1>1, <1>2, <1>3, Zenon DEF RedisTypes, RedisTypeOK
=============================================================================
