--------------------------- MODULE SchedulerProofs ---------------------------
(***************************************************************************)
(* The distributed lock and the two task queues, for any tasks, workers    *)
(* and clients and any max_retries.  First the copies of an id that is     *)
(* enqueued twice on Redis: the two share one item, yet its attempts stay  *)
(* bounded.  Then the lock; the in-memory queue, whose invariant says, of  *)
(* the ids enqueued once, that one place at a time holds them; its copies; *)
(* and its steps as steps of TaskDelivery.                                 *)
(***************************************************************************)
EXTENDS InMemoryTaskQueue, DistributedLock, RedisTaskQueue, FiniteSets, TLAPS

-----------------------------------------------------------------------------
(* RedisTaskQueue: its types, and what single commands do.                 *)

Known(t, status) == t \in DOMAIN redisItems /\ redisItems[t].status = status

Item == [status : {"pending", "processing"}, attempts : Nat]

Call == [at : {"lpop", "get", "set", "work", "ack", "nack", "bury", "requeue"},
         task : Tasks \cup {NoTask}, read : Nat]

RedisTypes ==
    /\ redisList \in Seq(Tasks)
    /\ DOMAIN redisItems \subseteq Tasks
    /\ \A t \in DOMAIN redisItems :
          /\ redisItems[t] \in Item
          /\ redisItems[t].status = "pending" => redisItems[t].attempts < MaxRetries
    /\ redisDead \in Seq(Tasks)
    /\ redisAcked \subseteq Tasks
    /\ producer \in [Tasks -> {"set", "rpush"}]
    /\ redisEnqueued \in [Tasks -> 0 .. 2]
    /\ worker \in [Workers -> Call]
    /\ \A w \in Workers : worker[w].at = "lpop" <=> worker[w].task = NoTask
    /\ redisCrashed \subseteq Workers

\* What a SET of an item's key leaves.
LEMMA PutItem ==
    ASSUME NEW t, NEW status, NEW attempts, Put(t, status, attempts)
    PROVE  /\ DOMAIN redisItems' = DOMAIN redisItems \cup {t}
           /\ redisItems'[t] = [status |-> status, attempts |-> attempts]
           /\ \A x \in DOMAIN redisItems : x # t => redisItems'[x] = redisItems[x]
BY Zenon DEF Put

\* What a DEL of an item's key leaves.
LEMMA DeleteItem ==
    ASSUME NEW t, Delete(t)
    PROVE  /\ DOMAIN redisItems' = DOMAIN redisItems \ {t}
           /\ \A x \in DOMAIN redisItems' : redisItems'[x] = redisItems[x]
BY Zenon DEF Delete

\* A step of one worker's call.
Becomes(w, c) ==
    /\ worker' \in [Workers -> Call]
    /\ worker'[w] = c
    /\ \A v \in Workers : v # w => worker'[v] = worker[v]

\* A command that moves its call on, and leaves the rest of its registers.
LEMMA GotoBecomes ==
    ASSUME RedisTypes, NEW w \in Workers,
           NEW command \in {"set", "work", "ack", "nack", "bury", "requeue"}, Goto(w, command)
    PROVE  Becomes(w, [at |-> command, task |-> worker[w].task, read |-> worker[w].read])
<1>1. worker \in [Workers -> Call] /\ worker[w] \in Call
  BY Zenon DEF RedisTypes
<1>2. [worker[w] EXCEPT !.at = command] = [at |-> command, task |-> worker[w].task, read |-> worker[w].read]
  BY <1>1 DEF Call
<1>3. [worker[w] EXCEPT !.at = command] \in Call
  BY <1>1, Zenon DEF Call
<1>4. worker' = [worker EXCEPT ![w] = [worker[w] EXCEPT !.at = command]]
  BY <1>1, Zenon DEF Goto
<1> QED BY <1>1, <1>2, <1>3, <1>4, Zenon DEF Becomes

\* A GET that finds the item, and takes its attempt count.
LEMMA ReadsBecomes ==
    ASSUME RedisTypes, NEW w \in Workers, worker[w].task \in DOMAIN redisItems,
           NEW command \in {"set", "ack", "nack"}, Reads(w, command)
    PROVE  Becomes(w, [at |-> command, task |-> worker[w].task,
                       read |-> redisItems[worker[w].task].attempts])
<1> DEFINE n == redisItems[worker[w].task].attempts
           c == [at |-> command, task |-> worker[w].task, read |-> n]
<1>1. worker \in [Workers -> Call] /\ worker[w] \in Call
  BY Zenon DEF RedisTypes
<1>2. n \in Nat
  BY Zenon DEF RedisTypes, Item
<1>3. c \in Call
  BY <1>1, <1>2, Zenon DEF Call
<1>4. worker' = [worker EXCEPT ![w] = c]
  <2> HIDE DEF n
  <2>1. [worker[w] EXCEPT !.at = command, !.read = n] = [at |-> command, task |-> worker[w].task, read |-> n]
    <3>1. [worker[w] EXCEPT !.at = command] =
             [at |-> command, task |-> worker[w].task, read |-> worker[w].read]
      BY <1>1 DEF Call
    <3>2. [[at |-> command, task |-> worker[w].task, read |-> worker[w].read] EXCEPT !.read = n] =
             [at |-> command, task |-> worker[w].task, read |-> n]
      OBVIOUS
    <3> QED BY <3>1, <3>2, Zenon
  <2>2. worker' = [worker EXCEPT ![w].at = command, ![w].read = n]
    BY Zenon DEF Reads, n
  <2>3. [worker EXCEPT ![w].at = command, ![w].read = n] =
           [worker EXCEPT ![w] = [worker[w] EXCEPT !.at = command, !.read = n]]
    BY <1>1, Zenon
  <2> QED BY <2>1, <2>2, <2>3, Zenon
<1> HIDE DEF c
<1>5. Becomes(w, c)
  BY <1>1, <1>3, <1>4, Zenon DEF Becomes
<1> QED BY <1>5, Zenon DEF c

\* The last command of a call: the worker is ready for another dequeue.
LEMMA DoneBecomes ==
    ASSUME RedisTypes, NEW w \in Workers, Done(w)
    PROVE  Becomes(w, NoCall) /\ NoCall.at = "lpop" /\ NoCall.task = NoTask
<1>1. worker \in [Workers -> Call] /\ NoCall \in Call
  BY Zenon DEF RedisTypes, NoCall, Call
<1>2. worker' = [worker EXCEPT ![w] = NoCall]
  BY Zenon DEF Done
<1>3. NoCall.at = "lpop" /\ NoCall.task = NoTask
  BY Zenon DEF NoCall
<1> HIDE DEF NoCall
<1> QED BY <1>1, <1>2, <1>3, Zenon DEF Becomes

\* The attempts that an item is given are the ones it has.
LEMMA ItemAttempts == ASSUME NEW s, NEW a PROVE [status |-> s, attempts |-> a].attempts = a
OBVIOUS

-----------------------------------------------------------------------------
(* Copies of an id in a list, and what a queue may have counted for it.    *)
(* Used for both queues.                                                   *)

\* The positions of an id in a list.
Places(ids, t) == {k \in DOMAIN ids : ids[k] = t}

\* What counting says of the places of an id in a list and of sets of calls.  The steps below
\* are proved from it; DeliveryProofs proves it.
CountingFacts ==
    /\ IsFiniteSet({}) /\ Cardinality({}) = 0
    /\ \A S, T : IsFiniteSet(S) /\ (\A w : w \in T => w \in S) =>
          IsFiniteSet(T) /\ Cardinality(T) \in Nat /\ Cardinality(T) <= Cardinality(S)
    /\ \A S, T, w : IsFiniteSet(S) /\ (\A v : v # w => (v \in S <=> v \in T)) =>
          /\ IsFiniteSet(T) /\ Cardinality(S) \in Nat /\ Cardinality(T) \in Nat
          /\ (w \in S <=> w \in T) => Cardinality(T) = Cardinality(S)
          /\ w \in S /\ w \notin T => Cardinality(S) = Cardinality(T) + 1
          /\ w \notin S /\ w \in T => Cardinality(T) = Cardinality(S) + 1
    /\ \A ids \in Seq(Tasks) : \A t :
          IsFiniteSet(Places(ids, t)) /\ Cardinality(Places(ids, t)) \in Nat
    /\ \A ids \in Seq(Tasks) : \A t : \A x \in Tasks :
          /\ x = t => Cardinality(Places(Append(ids, x), t)) = Cardinality(Places(ids, t)) + 1
          /\ x # t => Cardinality(Places(Append(ids, x), t)) = Cardinality(Places(ids, t))
    /\ \A ids \in Seq(Tasks) : \A t : ids # <<>> =>
          /\ Head(ids) = t => Cardinality(Places(ids, t)) = Cardinality(Places(Tail(ids), t)) + 1
          /\ Head(ids) # t => Cardinality(Places(ids, t)) = Cardinality(Places(Tail(ids), t))

\* Its parts, to cite one at a time.
LEMMA NoneCount == ASSUME CountingFacts PROVE IsFiniteSet({}) /\ Cardinality({}) = 0
BY Zenon DEF CountingFacts

LEMMA PartCount ==
    ASSUME CountingFacts, NEW S, NEW T, IsFiniteSet(S), \A w : w \in T => w \in S
    PROVE  IsFiniteSet(T) /\ Cardinality(T) \in Nat /\ Cardinality(T) <= Cardinality(S)
BY Zenon DEF CountingFacts

LEMMA FiniteCount == ASSUME CountingFacts, NEW S, IsFiniteSet(S) PROVE Cardinality(S) \in Nat
<1>1. \A w : w \in S => w \in S
  BY Zenon
<1> QED BY <1>1, PartCount, Zenon

\* How the cardinality of a set changes when one element enters or leaves it.
LEMMA CountMoves ==
    ASSUME CountingFacts, NEW S, NEW T, NEW w, NEW n, IsFiniteSet(S), Cardinality(S) = n,
           \A v : v # w => (v \in S <=> v \in T)
    PROVE  /\ IsFiniteSet(T) /\ n \in Nat /\ Cardinality(T) \in Nat
           /\ (w \in S <=> w \in T) => Cardinality(T) = n
           /\ w \in S /\ w \notin T => n = Cardinality(T) + 1
           /\ w \notin S /\ w \in T => Cardinality(T) = n + 1
BY Zenon DEF CountingFacts

\* They are finitely many.
LEMMA PlacesNumber ==
    ASSUME CountingFacts, NEW ids \in Seq(Tasks), NEW t
    PROVE  IsFiniteSet(Places(ids, t)) /\ Cardinality(Places(ids, t)) \in Nat
BY Zenon DEF CountingFacts

\* An id appended gets one more place.
LEMMA PlacesAppend ==
    ASSUME CountingFacts, NEW ids \in Seq(Tasks), NEW x \in Tasks, NEW t
    PROVE  /\ x = t => Cardinality(Places(Append(ids, x), t)) = Cardinality(Places(ids, t)) + 1
           /\ x # t => Cardinality(Places(Append(ids, x), t)) = Cardinality(Places(ids, t))
BY SMT DEF CountingFacts

\* The id taken from the head loses one place; no other id does.
LEMMA PlacesTail ==
    ASSUME CountingFacts, NEW ids \in Seq(Tasks), ids # <<>>, NEW t
    PROVE  /\ Head(ids) = t => Cardinality(Places(ids, t)) = Cardinality(Places(Tail(ids), t)) + 1
           /\ Head(ids) # t => Cardinality(Places(ids, t)) = Cardinality(Places(Tail(ids), t))
BY Zenon DEF CountingFacts

\* What a queue of q copies, h hands and e enqueues may have counted.
Within(q, h, e, limit) == q + h <= e /\ e <= limit

\* An item that has used its attempts has lost a copy for good, and it counts once more
\* than max_retries only when both copies of its id are gone from the queue.
Counts(a, q, e) ==
    /\ a >= MaxRetries => q < e
    /\ a > MaxRetries => a = MaxRetries + 1 /\ q = 0 /\ e = 2

\* Copies that leave the queue or a hand keep both facts.
LEMMA FewerCopies ==
    ASSUME NEW q \in Nat, NEW h \in Nat, NEW e \in Nat, NEW limit \in Nat,
           NEW q1 \in Nat, NEW h1 \in Nat, Within(q, h, e, limit), q1 <= q, h1 <= h
    PROVE  /\ Within(q1, h1, e, limit)
           /\ \A a \in Nat : Counts(a, q, e) => Counts(a, q1, e)
BY QueueAssumption DEF Within, Counts

\* So does a copy that a nack moves from a hand back to the queue.
LEMMA CopyMoves ==
    ASSUME NEW q \in Nat, NEW h \in Nat, NEW e \in Nat, NEW limit \in Nat,
           NEW h1 \in Nat, Within(q, h, e, limit), h1 + 1 = h
    PROVE  /\ Within(q + 1, h1, e, limit)
           /\ \A a \in Nat : a < MaxRetries => Counts(a, q + 1, e)
BY QueueAssumption DEF Within, Counts

-----------------------------------------------------------------------------
(* RedisTaskQueue with copies.  The read-modify-writes of two calls        *)
(* interleave, yet the attempts stay bounded: the count passes max_retries *)
(* only by the last copy of an id that had two.                            *)

\* The calls that have popped an id.
Calls(t) == {w \in Workers : worker[w].task = t}

\* A call that may still give its id back to the list or count an attempt.
GoesBack(c) == c.at \in {"get", "set", "requeue"} \/ (c.at = "nack" /\ c.read < MaxRetries)

CallsBack(t) == {w \in Workers : worker[w].task = t /\ GoesBack(worker[w])}

Pushing(t) == IF producer[t] = "rpush" THEN 1 ELSE 0

\* The copies of an id that may still be dequeued.
Returning(t) == Cardinality(Places(redisList, t)) + Pushing(t) + Cardinality(CallsBack(t))

\* An id is listed, about to be pushed or popped at most as often as it was enqueued.
RedisCopiesOf(t) ==
    /\ IsFiniteSet(Calls(t))
    /\ Within(Cardinality(Places(redisList, t)) + Pushing(t), Cardinality(Calls(t)),
              redisEnqueued[t], EnqueueLimit(t))
    /\ t \in DOMAIN redisItems => Counts(redisItems[t].attempts, Returning(t), redisEnqueued[t])

\* A dequeue that has read max_retries is the only one that may still count.
LastRead(t) ==
    /\ Returning(t) = 1 /\ redisEnqueued[t] = 2
    /\ t \in DOMAIN redisItems => redisItems[t].attempts >= MaxRetries

\* A dequeue about to write an attempt count above max_retries.
Reading(w, t) == worker[w].task = t /\ worker[w].at = "set" /\ worker[w].read >= MaxRetries

ReadFits(w, t) == Reading(w, t) => worker[w].read = MaxRetries /\ LastRead(t)

\* What the calls on one id can have read and can still write, together.
RedisCopiesInv ==
    /\ \A t \in Tasks : RedisCopiesOf(t)
    /\ \A w \in Workers : worker[w].read <= MaxRetries + 1
    /\ \A w \in Workers, t \in Tasks : ReadFits(w, t)

\* How many calls may give an id back, out of those that have popped it.
LEMMA BackCounts ==
    ASSUME CountingFacts, NEW t, IsFiniteSet(Calls(t))
    PROVE  /\ Cardinality(Calls(t)) \in Nat /\ Cardinality(CallsBack(t)) \in Nat
           /\ IsFiniteSet(CallsBack(t))
           /\ Cardinality(CallsBack(t)) <= Cardinality(Calls(t))
           /\ \A w \in Calls(t) : ~GoesBack(worker[w]) => Cardinality(CallsBack(t)) < Cardinality(Calls(t))
           /\ \A w \in CallsBack(t) : Cardinality(CallsBack(t)) >= 1
           /\ \A v, w \in CallsBack(t) : v # w => Cardinality(CallsBack(t)) >= 2
<1>1. \A w : w \in CallsBack(t) => w \in Calls(t)
  BY Zenon DEF CallsBack, Calls
<1>2. /\ IsFiniteSet(CallsBack(t)) /\ Cardinality(CallsBack(t)) \in Nat
      /\ Cardinality(CallsBack(t)) <= Cardinality(Calls(t))
  BY <1>1, PartCount, Zenon
<1>3. Cardinality(Calls(t)) \in Nat
  BY FiniteCount, Zenon
<1>4. ASSUME NEW S, IsFiniteSet(S), NEW w \in S
      PROVE  /\ IsFiniteSet(S \ {w}) /\ Cardinality(S \ {w}) \in Nat
             /\ Cardinality(S) = Cardinality(S \ {w}) + 1
  <2>1. (\A v : v # w => (v \in S <=> v \in S \ {w})) /\ w \notin S \ {w}
    BY Zenon
  <2> DEFINE T == S \ {w}
  <2> HIDE DEF T
  <2>2. \A v : v # w => (v \in S <=> v \in T)
    BY <2>1, Zenon DEF T
  <2>5. w \notin T
    BY Zenon DEF T
  <2>4. IsFiniteSet(T) /\ Cardinality(T) \in Nat /\ Cardinality(S) = Cardinality(T) + 1
    BY <1>4, <2>2, <2>5, CountMoves
  <2> QED BY <2>4, Zenon DEF T
<1>5. ASSUME NEW w \in Calls(t), ~GoesBack(worker[w])
      PROVE  Cardinality(CallsBack(t)) < Cardinality(Calls(t))
  <2>1. \A v : v \in CallsBack(t) => v \in Calls(t) \ {w}
    BY <1>5, Zenon DEF CallsBack, Calls
  <2>2. /\ IsFiniteSet(Calls(t) \ {w}) /\ Cardinality(Calls(t) \ {w}) \in Nat
        /\ Cardinality(Calls(t)) = Cardinality(Calls(t) \ {w}) + 1
    BY <1>4, Zenon
  <2>3. Cardinality(CallsBack(t)) <= Cardinality(Calls(t) \ {w})
    BY <2>1, <2>2, PartCount, Zenon
  <2> QED BY <1>2, <2>2, <2>3
<1>6. ASSUME NEW w \in CallsBack(t) PROVE Cardinality(CallsBack(t)) >= 1
  <2>1. /\ Cardinality(CallsBack(t) \ {w}) \in Nat
        /\ Cardinality(CallsBack(t)) = Cardinality(CallsBack(t) \ {w}) + 1
    BY <1>2, <1>4, Zenon
  <2> QED BY <2>1
<1>7. ASSUME NEW v \in CallsBack(t), NEW w \in CallsBack(t), v # w
      PROVE  Cardinality(CallsBack(t)) >= 2
  <2> DEFINE S == CallsBack(t) \ {w}
  <2>1. /\ IsFiniteSet(S) /\ Cardinality(S) \in Nat
        /\ Cardinality(CallsBack(t)) = Cardinality(S) + 1
    BY <1>2, <1>4, Zenon
  <2>2. v \in S
    BY <1>7, Zenon
  <2> HIDE DEF S
  <2>3. Cardinality(S \ {v}) \in Nat /\ Cardinality(S) = Cardinality(S \ {v}) + 1
    BY <1>4, <2>1, <2>2, Zenon
  <2> QED BY <2>1, <2>3
<1> QED BY <1>2, <1>3, <1>5, <1>6, <1>7, Zenon

\* The numbers of an id: its places in the list, the push of its enqueue, the calls that
\* have popped it and the ones of them that may give it back, and its enqueues.
Numbered(t, l, p, c, b, e) ==
    /\ l \in Nat /\ p \in Nat /\ c \in Nat /\ b \in Nat /\ e \in Nat
    /\ Cardinality(Places(redisList, t)) = l
    /\ Pushing(t) = p
    /\ IsFiniteSet(Calls(t)) /\ Cardinality(Calls(t)) = c
    /\ Cardinality(CallsBack(t)) = b
    /\ redisEnqueued[t] = e

\* RedisCopiesOf, of these numbers.
NumbersFit(t, l, p, c, b, e) ==
    /\ Within(l + p, c, e, EnqueueLimit(t))
    /\ t \in DOMAIN redisItems => Counts(redisItems[t].attempts, l + p + b, e)

\* Every id has its numbers,
LEMMA NumbersOf ==
    ASSUME CountingFacts, RedisTypes, NEW t \in Tasks, RedisCopiesOf(t)
    PROVE  \E l, p, c, b, e : /\ Numbered(t, l, p, c, b, e) /\ NumbersFit(t, l, p, c, b, e)
                              /\ b <= c /\ l + p + b = Returning(t)
<1> DEFINE l == Cardinality(Places(redisList, t))
           p == Pushing(t)
           c == Cardinality(Calls(t))
           b == Cardinality(CallsBack(t))
           e == redisEnqueued[t]
<1>1. IsFiniteSet(Calls(t))
  BY Zenon DEF RedisCopiesOf
<1>2. c \in Nat /\ b \in Nat /\ b <= c
  BY <1>1, BackCounts, Zenon
<1>3. l \in Nat
  BY PlacesNumber, Zenon DEF RedisTypes
<1>4. p \in Nat /\ e \in Nat
  BY DEF Pushing, RedisTypes
<1>5. Numbered(t, l, p, c, b, e)
  BY <1>1, <1>2, <1>3, <1>4, Zenon DEF Numbered
<1>6. NumbersFit(t, l, p, c, b, e)
  BY Zenon DEF RedisCopiesOf, NumbersFit, Returning
<1>7. l + p + b = Returning(t)
  BY Zenon DEF Returning
<1> QED BY <1>2, <1>5, <1>6, <1>7, Zenon

\* and numbers that fit say what RedisCopiesOf does.
LEMMA OfNumbers ==
    ASSUME NEW t \in Tasks, NEW l, NEW p, NEW c, NEW b, NEW e,
           Numbered(t, l, p, c, b, e)', NumbersFit(t, l, p, c, b, e)'
    PROVE  RedisCopiesOf(t)' /\ Returning(t)' = l + p + b
<1>1. Returning(t)' = l + p + b
  BY Zenon DEF Numbered, Returning
<1>2. RedisCopiesOf(t)'
  BY <1>1, Zenon DEF Numbered, NumbersFit, RedisCopiesOf
<1> QED BY <1>1, <1>2, Zenon

\* What a worker's command does to the numbers of calls of an id.
LEMMA CallNumbers ==
    ASSUME CountingFacts, NEW w \in Workers, NEW x, Becomes(w, x), NEW t, NEW c, NEW b,
           IsFiniteSet(Calls(t)), Cardinality(Calls(t)) = c, Cardinality(CallsBack(t)) = b
    PROVE  /\ IsFiniteSet(Calls(t)') /\ Cardinality(Calls(t)') \in Nat /\ Cardinality(CallsBack(t)') \in Nat
           /\ (worker[w].task = t <=> x.task = t) => Cardinality(Calls(t)') = c
           /\ worker[w].task = t /\ x.task # t => c = Cardinality(Calls(t)') + 1
           /\ worker[w].task # t /\ x.task = t => Cardinality(Calls(t)') = c + 1
           /\ (worker[w].task = t /\ GoesBack(worker[w]) <=> x.task = t /\ GoesBack(x)) =>
                 Cardinality(CallsBack(t)') = b
           /\ worker[w].task = t /\ GoesBack(worker[w]) /\ ~(x.task = t /\ GoesBack(x)) =>
                 b = Cardinality(CallsBack(t)') + 1
           /\ ~(worker[w].task = t /\ GoesBack(worker[w])) /\ x.task = t /\ GoesBack(x) =>
                 Cardinality(CallsBack(t)') = b + 1
<1>1. /\ \A v : v # w => (v \in Calls(t) <=> v \in Calls(t)')
      /\ w \in Calls(t) <=> worker[w].task = t
      /\ w \in Calls(t)' <=> x.task = t
  BY Zenon DEF Calls, Becomes
<1>2. /\ \A v : v # w => (v \in CallsBack(t) <=> v \in CallsBack(t)')
      /\ w \in CallsBack(t) <=> worker[w].task = t /\ GoesBack(worker[w])
      /\ w \in CallsBack(t)' <=> x.task = t /\ GoesBack(x)
  BY Zenon DEF CallsBack, Becomes, GoesBack
<1>3. IsFiniteSet(CallsBack(t))
  BY BackCounts, Zenon
<1>4. /\ IsFiniteSet(Calls(t)') /\ Cardinality(Calls(t)') \in Nat
      /\ (w \in Calls(t) <=> w \in Calls(t)') => Cardinality(Calls(t)') = c
      /\ w \in Calls(t) /\ w \notin Calls(t)' => c = Cardinality(Calls(t)') + 1
      /\ w \notin Calls(t) /\ w \in Calls(t)' => Cardinality(Calls(t)') = c + 1
  BY <1>1, CountMoves
<1>5. /\ Cardinality(CallsBack(t)') \in Nat
      /\ (w \in CallsBack(t) <=> w \in CallsBack(t)') => Cardinality(CallsBack(t)') = b
      /\ w \in CallsBack(t) /\ w \notin CallsBack(t)' => b = Cardinality(CallsBack(t)') + 1
      /\ w \notin CallsBack(t) /\ w \in CallsBack(t)' => Cardinality(CallsBack(t)') = b + 1
  BY <1>2, <1>3, CountMoves
<1> QED BY <1>1, <1>2, <1>4, <1>5, Zenon

\* The calls of an id, and the ones of them that may give it back.
CallsCount(t, c, b) == IsFiniteSet(Calls(t)) /\ Cardinality(Calls(t)) = c /\ Cardinality(CallsBack(t)) = b

\* CallNumbers of a command on another id,
LEMMA CallsOther ==
    ASSUME CountingFacts, NEW w \in Workers, NEW x, Becomes(w, x), NEW t, NEW c, NEW b, CallsCount(t, c, b),
           worker[w].task # t, x.task # t
    PROVE  IsFiniteSet(Calls(t)') /\ Cardinality(Calls(t)') = c /\ Cardinality(CallsBack(t)') = b
<1>1. IsFiniteSet(Calls(t)) /\ Cardinality(Calls(t)) = c /\ Cardinality(CallsBack(t)) = b
  BY Zenon DEF CallsCount
<1> QED BY <1>1, CallNumbers

\* of one that takes the id,
LEMMA CallsEnter ==
    ASSUME CountingFacts, NEW w \in Workers, NEW x, Becomes(w, x), NEW t, NEW c, NEW b, CallsCount(t, c, b),
           worker[w].task # t, x.task = t, GoesBack(x)
    PROVE  IsFiniteSet(Calls(t)') /\ Cardinality(Calls(t)') = c + 1 /\ Cardinality(CallsBack(t)') = b + 1
<1>1. IsFiniteSet(Calls(t)) /\ Cardinality(Calls(t)) = c /\ Cardinality(CallsBack(t)) = b
  BY Zenon DEF CallsCount
<1> QED BY <1>1, CallNumbers

\* and of one that leaves it.
LEMMA CallsLeave ==
    ASSUME CountingFacts, NEW w \in Workers, NEW x, Becomes(w, x), NEW t, NEW c, NEW b, CallsCount(t, c, b),
           worker[w].task = t, GoesBack(worker[w]), x.task # t
    PROVE  /\ IsFiniteSet(Calls(t)') /\ Cardinality(Calls(t)') \in Nat /\ Cardinality(CallsBack(t)') \in Nat
           /\ c = Cardinality(Calls(t)') + 1 /\ b = Cardinality(CallsBack(t)') + 1
<1>1. IsFiniteSet(Calls(t)) /\ Cardinality(Calls(t)) = c /\ Cardinality(CallsBack(t)) = b
  BY Zenon DEF CallsCount
<1> QED BY <1>1, CallNumbers

\* The call that has popped an id keeps it or leaves it.
LEMMA CallsFewer ==
    ASSUME CountingFacts, NEW w \in Workers, NEW x, Becomes(w, x), NEW t, NEW c \in Nat, NEW b,
           CallsCount(t, c, b), worker[w].task = t
    PROVE  \E c1 \in Nat : IsFiniteSet(Calls(t)') /\ Cardinality(Calls(t)') = c1 /\ c1 <= c
<1>1. IsFiniteSet(Calls(t)) /\ Cardinality(Calls(t)) = c /\ Cardinality(CallsBack(t)) = b
  BY Zenon DEF CallsCount
<1>2. PICK c1 \in Nat : IsFiniteSet(Calls(t)') /\ Cardinality(Calls(t)') = c1 /\ (c = c1 \/ c = c1 + 1)
  BY <1>1, CallNumbers
<1>3. c1 <= c
  BY <1>2
<1> QED BY <1>2, <1>3, Zenon

\* A dequeue that has read max_retries is the only call that may give its id back.
LEMMA Alone ==
    ASSUME CountingFacts, RedisTypes, RedisCopiesInv, NEW t \in Tasks, NEW v \in Workers, Reading(v, t),
           NEW l, NEW p, NEW c, NEW b, NEW e, Numbered(t, l, p, c, b, e)
    PROVE  /\ worker[v].read = MaxRetries
           /\ l = 0 /\ p = 0 /\ b = 1 /\ e = 2
           /\ t \in DOMAIN redisItems => redisItems[t].attempts >= MaxRetries
           /\ \A w \in Workers : worker[w].task = t /\ GoesBack(worker[w]) => w = v
<1>1. worker[v].read = MaxRetries /\ LastRead(t)
  BY Zenon DEF RedisCopiesInv, ReadFits
<1>2. l + p + b = 1 /\ e = 2 /\ l \in Nat /\ p \in Nat /\ b \in Nat
  BY <1>1, Zenon DEF LastRead, Returning, Numbered
<1>3. v \in CallsBack(t) /\ IsFiniteSet(Calls(t)) /\ Cardinality(CallsBack(t)) = b
  BY Zenon DEF Reading, CallsBack, GoesBack, Numbered
<1>4. b >= 1 /\ \A w \in CallsBack(t) : w # v => b >= 2
  BY <1>3, BackCounts, Zenon
<1>5. \A w \in Workers : worker[w].task = t /\ GoesBack(worker[w]) => w \in CallsBack(t)
  BY Zenon DEF CallsBack
<1>6. l = 0 /\ p = 0 /\ b = 1
  BY <1>2, <1>4
<1>7. \A w \in CallsBack(t) : w = v
  BY <1>4, <1>6
<1> QED BY <1>1, <1>2, <1>5, <1>6, <1>7, Zenon DEF LastRead

\* A command that neither creates the item nor counts an attempt.
SameItem(t) ==
    t \in DOMAIN redisItems' => t \in DOMAIN redisItems /\ redisItems'[t].attempts = redisItems[t].attempts

\* A command leaves the other ids as they are.
LEMMA CommandCopies ==
    ASSUME CountingFacts, RedisTypes, RedisCopiesInv, NEW w \in Workers, NEW x \in Call, Becomes(w, x),
           NEW id \in Tasks, worker[w].task \in {id, NoTask}, x.task \in {id, NoTask},
           x.read <= MaxRetries + 1, UNCHANGED <<producer, redisEnqueued>>,
           \A t \in Tasks : t # id =>
              SameItem(t) /\ Cardinality(Places(redisList, t))' = Cardinality(Places(redisList, t)),
           RedisCopiesOf(id)', \A v \in Workers : ReadFits(v, id)'
    PROVE  RedisCopiesInv'
<1>1. \A v \in Workers : v # w => worker'[v] = worker[v]
  BY Zenon DEF Becomes
<1>2. worker'[w] = x
  BY Zenon DEF Becomes
<1>3. ASSUME NEW t \in Tasks, t # id
      PROVE  RedisCopiesOf(t)' /\ \A v \in Workers : ReadFits(v, t)'
  <2>1. PICK l, p, c, b, e : /\ Numbered(t, l, p, c, b, e) /\ NumbersFit(t, l, p, c, b, e)
                             /\ b <= c /\ l + p + b = Returning(t)
    BY NumbersOf, Zenon DEF RedisCopiesInv
  <2>2. worker[w].task # t /\ x.task # t
    BY <1>3, QueueAssumption
  <2>3. IsFiniteSet(Calls(t)') /\ Cardinality(Calls(t)') = c /\ Cardinality(CallsBack(t)') = b
    <3>1. CallsCount(t, c, b)
      BY <2>1, Zenon DEF Numbered, CallsCount
    <3> QED BY <2>2, <3>1, CallsOther
  <2>4. Numbered(t, l, p, c, b, e)'
    BY <1>3, <2>1, <2>3, Zenon DEF Numbered, Pushing
  <2>5. NumbersFit(t, l, p, c, b, e)'
    BY <1>3, <2>1, Zenon DEF NumbersFit, SameItem
  <2>6. RedisCopiesOf(t)' /\ Returning(t)' = Returning(t)
    BY <2>1, <2>4, <2>5, OfNumbers
  <2>7. LastRead(t) => LastRead(t)'
    BY <1>3, <2>6, Zenon DEF LastRead, SameItem
  <2>8. ASSUME NEW v \in Workers PROVE ReadFits(v, t)'
    <3>1. CASE v = w
      BY <1>2, <2>2, <3>1, Zenon DEF ReadFits, Reading
    <3>2. CASE v # w
      BY <1>1, <2>7, <3>2, Zenon DEF ReadFits, Reading, RedisCopiesInv
    <3> QED BY <3>1, <3>2, Zenon
  <2> QED BY <2>6, <2>8, Zenon
<1>4. \A v \in Workers : worker'[v].read <= MaxRetries + 1
  BY <1>1, <1>2, Zenon DEF RedisCopiesInv
<1>5. \A t \in Tasks : RedisCopiesOf(t)'
  BY <1>3, Zenon
<1>6. \A v \in Workers, t \in Tasks : ReadFits(v, t)'
  BY <1>3, Zenon
<1> QED BY <1>4, <1>5, <1>6, Zenon DEF RedisCopiesInv

\* A call that is past its LPOP has an id.
LEMMA AtTask ==
    ASSUME RedisTypes, NEW w \in Workers, worker[w].at # "lpop"
    PROVE  worker[w].task \in Tasks
BY Zenon DEF RedisTypes, Call

\* A command on the id its call has popped, which leaves the list as it is.
LEMMA CallCopies ==
    ASSUME CountingFacts, RedisTypes, RedisCopiesInv, NEW w \in Workers, NEW x \in Call, Becomes(w, x),
           NEW id \in Tasks, worker[w].task = id, x.task \in {id, NoTask},
           x.read <= MaxRetries + 1, UNCHANGED <<redisList, producer, redisEnqueued>>,
           \A t \in Tasks : t # id => SameItem(t),
           NEW l, NEW p, NEW c, NEW b, NEW e, Numbered(id, l, p, c, b, e),
           Within(l + p, c, e, EnqueueLimit(id)),
           NEW b1 \in Nat, Cardinality(CallsBack(id)') = b1,
           id \in DOMAIN redisItems' => Counts(redisItems'[id].attempts, l + p + b1, e),
           \/ GoesBack(worker[w])
           \/ b1 = b /\ SameItem(id)
           \/ id \in DOMAIN redisItems /\ redisItems[id].attempts < MaxRetries,
           ReadFits(w, id)'
    PROVE  RedisCopiesInv'
<1>1. \A v \in Workers : v # w => worker'[v] = worker[v]
  BY Zenon DEF Becomes
<1>2. PICK c1 \in Nat : IsFiniteSet(Calls(id)') /\ Cardinality(Calls(id)') = c1 /\ c1 <= c /\ c \in Nat
  <2>1. CallsCount(id, c, b) /\ c \in Nat
    BY Zenon DEF Numbered, CallsCount
  <2> QED BY <2>1, CallsFewer, Zenon
<1>3. Numbered(id, l, p, c1, b1, e)'
  BY <1>2, Zenon DEF Numbered, Pushing
<1>4. NumbersFit(id, l, p, c1, b1, e)'
  <2>1. Within(l + p, c1, e, EnqueueLimit(id))
    <3>1. l \in Nat /\ p \in Nat /\ e \in Nat
      BY Zenon DEF Numbered
    <3> QED BY <1>2, <3>1 DEF Within
  <2> QED BY <2>1, Zenon DEF NumbersFit, EnqueueLimit
<1>5. RedisCopiesOf(id)' /\ Returning(id)' = l + p + b1
  BY <1>3, <1>4, OfNumbers
<1>6. ASSUME NEW v \in Workers, v # w, Reading(v, id)'
      PROVE  worker'[v].read = MaxRetries /\ LastRead(id)'
  <2>1. Reading(v, id)
    BY <1>1, <1>6, Zenon DEF Reading
  <2>2. /\ worker[v].read = MaxRetries /\ l = 0 /\ p = 0 /\ b = 1 /\ e = 2
        /\ id \in DOMAIN redisItems => redisItems[id].attempts >= MaxRetries
        /\ ~GoesBack(worker[w])
    BY <1>6, <2>1, Alone
  <2>3. ~(id \in DOMAIN redisItems /\ redisItems[id].attempts < MaxRetries)
    <3>1. id \in DOMAIN redisItems => redisItems[id].attempts \in Nat
      BY Zenon DEF RedisTypes, Item
    <3> QED BY <2>2, <3>1, QueueAssumption
  <2>4. b1 = b /\ SameItem(id)
    BY <2>2, <2>3, Zenon
  <2>5. Returning(id)' = 1 /\ redisEnqueued'[id] = 2
    BY <1>3, <1>5, <2>2, <2>4 DEF Numbered
  <2> QED BY <1>1, <1>6, <2>2, <2>4, <2>5, Zenon DEF LastRead, SameItem
<1>7. \A v \in Workers : ReadFits(v, id)'
  BY <1>5, <1>6, Zenon DEF ReadFits
<1> QED BY <1>5, <1>7, CommandCopies, Zenon

\* The numbers of the id that a call has popped.
CallOf(w, id, l, p, c, b, e) ==
    /\ worker[w].task = id
    /\ l \in Nat /\ p \in Nat /\ c \in Nat /\ b \in Nat /\ e \in Nat
    /\ Numbered(id, l, p, c, b, e)
    /\ Within(l + p, c, e, EnqueueLimit(id)) /\ b <= c /\ e <= 2
    /\ id \in DOMAIN redisItems => /\ redisItems[id].attempts \in 0 .. MaxRetries + 1
                                   /\ Counts(redisItems[id].attempts, l + p + b, e)
    /\ GoesBack(worker[w]) => b >= 1

\* What the invariant says of these numbers.
LEMMA NumbersOfCall ==
    ASSUME CountingFacts, RedisTypes, RedisCopiesInv, NEW w \in Workers, worker[w].at # "lpop"
    PROVE  \E id \in Tasks : \E l, p, c, b, e : CallOf(w, id, l, p, c, b, e)
<1>1. PICK id \in Tasks : worker[w].task = id
  BY AtTask, Zenon
<1>2. PICK l, p, c, b, e : /\ Numbered(id, l, p, c, b, e) /\ NumbersFit(id, l, p, c, b, e)
                           /\ b <= c /\ l + p + b = Returning(id)
  BY NumbersOf, Zenon DEF RedisCopiesInv
<1>3. l \in Nat /\ p \in Nat /\ c \in Nat /\ b \in Nat /\ e \in Nat
  BY <1>2, Zenon DEF Numbered
<1>4. Within(l + p, c, e, EnqueueLimit(id)) /\ e <= 2
  BY <1>2, <1>3 DEF NumbersFit, Within, EnqueueLimit
<1>5. id \in DOMAIN redisItems => /\ redisItems[id].attempts \in 0 .. MaxRetries + 1
                                  /\ Counts(redisItems[id].attempts, l + p + b, e)
  <2>1. SUFFICES ASSUME id \in DOMAIN redisItems
                 PROVE  /\ redisItems[id].attempts \in 0 .. MaxRetries + 1
                        /\ Counts(redisItems[id].attempts, l + p + b, e)
    BY Zenon
  <2>2. redisItems[id].attempts \in Nat /\ Counts(redisItems[id].attempts, l + p + b, e)
    BY <1>2, <2>1, Zenon DEF NumbersFit, RedisTypes, Item
  <2> QED BY <2>2, QueueAssumption DEF Counts
<1>6. GoesBack(worker[w]) => b >= 1
  <2>1. GoesBack(worker[w]) => w \in CallsBack(id)
    BY <1>1, Zenon DEF CallsBack
  <2> QED BY <1>2, <2>1, BackCounts, Zenon DEF Numbered
<1>7. CallOf(w, id, l, p, c, b, e)
  BY <1>1, <1>2, <1>3, <1>4, <1>5, <1>6, Zenon DEF CallOf
<1> QED BY <1>7, Zenon

\* What becomes of the calls that may give the id back: a number,
LEMMA BackNumber ==
    ASSUME CountingFacts, NEW w \in Workers, NEW x, Becomes(w, x),
           NEW id, NEW l, NEW p, NEW c, NEW b, NEW e, CallOf(w, id, l, p, c, b, e)
    PROVE  Cardinality(CallsBack(id)') \in Nat
<1>1. /\ IsFiniteSet(Calls(id)) /\ Cardinality(Calls(id)) = c /\ Cardinality(CallsBack(id)) = b
      /\ worker[w].task = id
  BY Zenon DEF CallOf, Numbered
<1> QED BY <1>1, CallNumbers, Zenon

\* the same when the call is among them before and after,
LEMMA BackStays ==
    ASSUME CountingFacts, NEW w \in Workers, NEW x, Becomes(w, x),
           NEW id, NEW l, NEW p, NEW c, NEW b, NEW e, CallOf(w, id, l, p, c, b, e),
           GoesBack(worker[w]), x.task = id, GoesBack(x)
    PROVE  Cardinality(CallsBack(id)') = b
<1>1. /\ IsFiniteSet(Calls(id)) /\ Cardinality(Calls(id)) = c /\ Cardinality(CallsBack(id)) = b
      /\ worker[w].task = id
  BY Zenon DEF CallOf, Numbered
<1> QED BY <1>1, CallNumbers

\* and when it is neither before nor after,
LEMMA BackNone ==
    ASSUME CountingFacts, NEW w \in Workers, NEW x, Becomes(w, x),
           NEW id, NEW l, NEW p, NEW c, NEW b, NEW e, CallOf(w, id, l, p, c, b, e),
           ~GoesBack(worker[w]), x.task # id \/ ~GoesBack(x)
    PROVE  Cardinality(CallsBack(id)') = b
<1>1. /\ IsFiniteSet(Calls(id)) /\ Cardinality(Calls(id)) = c /\ Cardinality(CallsBack(id)) = b
      /\ worker[w].task = id
  BY Zenon DEF CallOf, Numbered
<1> QED BY <1>1, CallNumbers

\* and one less when it leaves them.
LEMMA BackLeaves ==
    ASSUME CountingFacts, NEW w \in Workers, NEW x, Becomes(w, x),
           NEW id, NEW l, NEW p, NEW c, NEW b, NEW e, CallOf(w, id, l, p, c, b, e),
           GoesBack(worker[w]), x.task # id \/ ~GoesBack(x)
    PROVE  Cardinality(CallsBack(id)') \in Nat /\ b = Cardinality(CallsBack(id)') + 1
<1>1. /\ IsFiniteSet(Calls(id)) /\ Cardinality(Calls(id)) = c /\ Cardinality(CallsBack(id)) = b
      /\ worker[w].task = id
  BY Zenon DEF CallOf, Numbered
<1> QED BY <1>1, CallNumbers

\* The GET of a dequeue: the call reads the attempts, or gives up.
LEMMA DequeueGetCopies ==
    ASSUME CountingFacts, RedisTypes, RedisCopiesInv, NEW w \in Workers, DequeueGet(w)
    PROVE  RedisCopiesInv'
<1>1. worker[w].at = "get" /\ UNCHANGED <<redisList, redisItems, producer, redisEnqueued>>
  BY Zenon DEF DequeueGet, At
<1>2. PICK id \in Tasks : \E l, p, c, b, e : CallOf(w, id, l, p, c, b, e)
  BY <1>1, NumbersOfCall, Zenon
<1>3. PICK l, p, c, b, e : CallOf(w, id, l, p, c, b, e)
  BY <1>2, Zenon
<1>4. worker[w].task = id /\ GoesBack(worker[w]) /\ \A t \in Tasks : SameItem(t)
  BY <1>1, <1>3, Zenon DEF CallOf, GoesBack, SameItem
<1>5. /\ l \in Nat /\ p \in Nat /\ b \in Nat /\ e \in Nat /\ b >= 1 /\ e <= 2
      /\ Numbered(id, l, p, c, b, e) /\ Within(l + p, c, e, EnqueueLimit(id))
  BY <1>3, <1>4, Zenon DEF CallOf
<1>6. CASE id \in DOMAIN redisItems /\ Reads(w, "set")
  <2>1. PICK a \in 0 .. MaxRetries + 1 : a = redisItems[id].attempts /\ Counts(a, l + p + b, e)
    BY <1>3, <1>6, Zenon DEF CallOf
  <2>2. PICK x \in Call : x = [at |-> "set", task |-> id, read |-> a] /\ Becomes(w, x)
    <3>1. Becomes(w, [at |-> "set", task |-> id, read |-> a])
      BY <1>4, <1>6, <2>1, ReadsBecomes, Zenon
    <3>2. [at |-> "set", task |-> id, read |-> a] \in Call
      BY <2>1, QueueAssumption DEF Call
    <3> QED BY <3>1, <3>2, Zenon
  <2>3. x.task = id /\ x.at = "set" /\ x.read = a /\ GoesBack(x)
    BY <2>2, Zenon DEF GoesBack
  <2>4. Cardinality(CallsBack(id)') = b
    BY <1>3, <1>4, <2>2, <2>3, BackStays, Zenon
  <2>5. a >= MaxRetries => a = MaxRetries /\ l + p + b = 1 /\ e = 2
    BY <1>5, <2>1, QueueAssumption DEF Counts
  <2>6. Returning(id)' = l + p + b /\ redisEnqueued'[id] = e
    BY <1>1, <1>5, <2>4, Zenon DEF Returning, Numbered, Pushing
  <2>7. worker'[w].read = a
    BY <2>2, <2>3, Zenon DEF Becomes
  <2>8. ReadFits(w, id)'
    BY <1>1, <2>1, <2>5, <2>6, <2>7, Zenon DEF ReadFits, Reading, LastRead
  <2>9. x.read <= MaxRetries + 1
    BY <2>1, <2>3, QueueAssumption
  <2>10. id \in DOMAIN redisItems' => Counts(redisItems'[id].attempts, l + p + b, e)
    BY <1>1, <2>1, Zenon
  <2> QED BY <1>1, <1>4, <1>5, <2>2, <2>3, <2>4, <2>8, <2>9, <2>10, CallCopies, Zenon
<1>7. CASE id \notin DOMAIN redisItems /\ Done(w)
  <2>1. PICK x \in Call : x = NoCall /\ Becomes(w, x)
    BY <1>7, DoneBecomes, Zenon DEF NoCall, Call
  <2>2. x.task = NoTask /\ x.read = 0 /\ x.at = "lpop" /\ ~GoesBack(x) /\ x.task # id
    BY <2>1, QueueAssumption, Zenon DEF NoCall, GoesBack
  <2>3. PICK b1 \in Nat : Cardinality(CallsBack(id)') = b1
    BY <1>3, <2>1, BackNumber, Zenon
  <2>4. ReadFits(w, id)'
    BY <2>1, <2>2, Zenon DEF ReadFits, Reading, Becomes
  <2>5. x.read <= MaxRetries + 1
    BY <2>2, QueueAssumption
  <2> QED BY <1>1, <1>4, <1>5, <1>7, <2>1, <2>2, <2>3, <2>4, <2>5, CallCopies, Zenon
<1> QED BY <1>4, <1>6, <1>7, Zenon DEF DequeueGet

\* The SET of a dequeue: the attempt read before is written back, one more.
LEMMA DequeueSetCopies ==
    ASSUME CountingFacts, RedisTypes, RedisCopiesInv, NEW w \in Workers, DequeueSet(w)
    PROVE  RedisCopiesInv'
<1>1. worker[w].at = "set" /\ UNCHANGED <<redisList, producer, redisEnqueued>>
  BY Zenon DEF DequeueSet, At
<1>2. PICK id \in Tasks : \E l, p, c, b, e : CallOf(w, id, l, p, c, b, e)
  BY <1>1, NumbersOfCall, Zenon
<1>3. PICK l, p, c, b, e : CallOf(w, id, l, p, c, b, e)
  BY <1>2, Zenon
<1>4. worker[w].task = id /\ GoesBack(worker[w])
  BY <1>1, <1>3, Zenon DEF CallOf, GoesBack
<1>5. /\ l \in Nat /\ p \in Nat /\ b \in Nat /\ c \in Nat /\ e \in Nat /\ b >= 1 /\ e <= 2 /\ b <= c
      /\ Numbered(id, l, p, c, b, e) /\ Within(l + p, c, e, EnqueueLimit(id))
  BY <1>3, <1>4, Zenon DEF CallOf
<1>6. PICK n \in 0 .. MaxRetries + 1 : n = worker[w].read
  <2>1. worker[w].read \in Nat /\ worker[w].read <= MaxRetries + 1
    BY Zenon DEF RedisTypes, Call, RedisCopiesInv
  <2> QED BY <2>1, QueueAssumption
<1>7. PICK x \in Call : x = [at |-> "work", task |-> id, read |-> n] /\ Becomes(w, x)
  <2>1. Becomes(w, [at |-> "work", task |-> id, read |-> n])
    BY <1>4, <1>6, GotoBecomes, Zenon DEF DequeueSet
  <2>2. [at |-> "work", task |-> id, read |-> n] \in Call
    BY <1>6, QueueAssumption DEF Call
  <2> QED BY <2>1, <2>2, Zenon
<1>8. x.task = id /\ x.at = "work" /\ x.read = n /\ ~GoesBack(x)
  BY <1>7, Zenon DEF GoesBack
<1>9. PICK b1 \in Nat : Cardinality(CallsBack(id)') = b1 /\ b1 + 1 = b
  <2>1. Cardinality(CallsBack(id)') \in Nat /\ b = Cardinality(CallsBack(id)') + 1
    <3>1. Becomes(w, x) /\ GoesBack(worker[w]) /\ ~GoesBack(x)
      BY <1>4, <1>7, <1>8, Zenon
    <3> QED BY <1>3, <3>1, BackLeaves, Zenon
  <2> QED BY <2>1, Zenon
<1>10. redisItems'[id].attempts = n + 1 /\ \A t \in Tasks : t # id => SameItem(t)
  <2>1. Put(id, "processing", n + 1)
    BY <1>4, <1>6, Zenon DEF DequeueSet
  <2>2. /\ DOMAIN redisItems' = DOMAIN redisItems \cup {id}
        /\ redisItems'[id] = [status |-> "processing", attempts |-> n + 1]
        /\ \A t \in DOMAIN redisItems : t # id => redisItems'[t] = redisItems[t]
    BY <2>1, PutItem, Zenon
  <2>3. redisItems'[id].attempts = n + 1
    <3>1. redisItems'[id] = [status |-> "processing", attempts |-> n + 1]
      BY <2>2, Zenon
    <3> QED BY <3>1, ItemAttempts, Zenon
  <2> QED BY <2>2, <2>3, Zenon DEF SameItem
<1>11. n >= MaxRetries => n = MaxRetries /\ l + p + b = 1 /\ e = 2
  <2>1. n >= MaxRetries => Reading(w, id)
    BY <1>1, <1>4, <1>6, Zenon DEF Reading
  <2> QED BY <1>5, <1>6, <2>1, Alone
<1>12. Counts(n + 1, l + p + b1, e)
  BY <1>5, <1>6, <1>9, <1>11, QueueAssumption DEF Counts, Within
<1>13. ReadFits(w, id)'
  BY <1>7, <1>8, Zenon DEF ReadFits, Reading, Becomes
<1>14. x.read <= MaxRetries + 1
  BY <1>6, <1>8, QueueAssumption
<1>15. id \in DOMAIN redisItems' => Counts(redisItems'[id].attempts, l + p + b1, e)
  BY <1>10, <1>12, Zenon
<1> QED BY <1>1, <1>4, <1>5, <1>7, <1>8, <1>9, <1>10, <1>13, <1>14, <1>15, CallCopies, Zenon

\* The end of a call: the id is left, and its item as it is or gone.
LEMMA DoneCopies ==
    ASSUME CountingFacts, RedisTypes, RedisCopiesInv, NEW w \in Workers, Done(w),
           worker[w].at \in {"work", "ack", "bury"},
           UNCHANGED <<redisList, producer, redisEnqueued>>, \A t \in Tasks : SameItem(t)
    PROVE  RedisCopiesInv'
<1>2. PICK id \in Tasks : \E l, p, c, b, e : CallOf(w, id, l, p, c, b, e)
  BY NumbersOfCall, Zenon
<1>3. PICK l, p, c, b, e : CallOf(w, id, l, p, c, b, e)
  BY <1>2, Zenon
<1>4. worker[w].task = id /\ ~GoesBack(worker[w])
  BY <1>3, Zenon DEF CallOf, GoesBack
<1>5. b \in Nat /\ Numbered(id, l, p, c, b, e) /\ Within(l + p, c, e, EnqueueLimit(id))
  BY <1>3, Zenon DEF CallOf
<1>6. PICK x \in Call : x = NoCall /\ Becomes(w, x)
  BY DoneBecomes, Zenon DEF NoCall, Call
<1>7. x.task = NoTask /\ x.read = 0 /\ x.at = "lpop" /\ ~GoesBack(x) /\ x.task # id
  BY <1>6, QueueAssumption, Zenon DEF NoCall, GoesBack
<1>8. Cardinality(CallsBack(id)') = b
  BY <1>3, <1>4, <1>6, <1>7, BackNone, Zenon
<1>9. ReadFits(w, id)'
  BY <1>6, <1>7, Zenon DEF ReadFits, Reading, Becomes
<1>10. x.read <= MaxRetries + 1
  BY <1>7, QueueAssumption
<1>11. id \in DOMAIN redisItems' => Counts(redisItems'[id].attempts, l + p + b, e)
  BY <1>3, Zenon DEF CallOf, SameItem
<1> QED BY <1>4, <1>5, <1>6, <1>7, <1>8, <1>9, <1>10, <1>11, CallCopies, Zenon

\* The GET of an ack or a nack: the call reads the attempts, or gives up.
LEMMA AnswerGetCopies ==
    ASSUME CountingFacts, RedisTypes, RedisCopiesInv, NEW w \in Workers, AnswerGet(w)
    PROVE  RedisCopiesInv'
<1>1. worker[w].at = "work" /\ UNCHANGED <<redisList, redisItems, producer, redisEnqueued>>
  BY Zenon DEF AnswerGet, At
<1>2. PICK id \in Tasks : \E l, p, c, b, e : CallOf(w, id, l, p, c, b, e)
  BY <1>1, NumbersOfCall, Zenon
<1>3. PICK l, p, c, b, e : CallOf(w, id, l, p, c, b, e)
  BY <1>2, Zenon
<1>4. worker[w].task = id /\ ~GoesBack(worker[w]) /\ \A t \in Tasks : SameItem(t)
  BY <1>1, <1>3, Zenon DEF CallOf, GoesBack, SameItem
<1>5. /\ l \in Nat /\ p \in Nat /\ b \in Nat /\ e \in Nat
      /\ Numbered(id, l, p, c, b, e) /\ Within(l + p, c, e, EnqueueLimit(id))
  BY <1>3, Zenon DEF CallOf
<1>6. ASSUME NEW command \in {"ack", "nack"}, id \in DOMAIN redisItems, Reads(w, command)
      PROVE  RedisCopiesInv'
  <2>1. PICK a \in 0 .. MaxRetries + 1 : a = redisItems[id].attempts /\ Counts(a, l + p + b, e)
    BY <1>3, <1>6, Zenon DEF CallOf
  <2>2. PICK x \in Call : x = [at |-> command, task |-> id, read |-> a] /\ Becomes(w, x)
    <3>1. Becomes(w, [at |-> command, task |-> id, read |-> a])
      BY <1>4, <1>6, <2>1, ReadsBecomes, Zenon
    <3>2. [at |-> command, task |-> id, read |-> a] \in Call
      BY <2>1, QueueAssumption DEF Call
    <3> QED BY <3>1, <3>2, Zenon
  <2>3. x.task = id /\ x.at = command /\ x.read = a
    BY <2>2, Zenon
  <2>4. PICK b1 \in Nat : /\ Cardinality(CallsBack(id)') = b1
                          /\ b1 = b \/ a < MaxRetries
    <3>1. GoesBack(x) => a < MaxRetries
      BY <2>3, Zenon DEF GoesBack
    <3>2. Cardinality(CallsBack(id)') \in Nat /\ (~GoesBack(x) => Cardinality(CallsBack(id)') = b)
      BY <1>3, <1>4, <2>2, BackNumber, BackNone, Zenon
    <3> QED BY <3>1, <3>2, Zenon
  <2>5. Counts(a, l + p + b1, e)
    <3>1. a < MaxRetries => ~(a >= MaxRetries) /\ ~(a > MaxRetries)
      BY <2>1, QueueAssumption
    <3> QED BY <2>1, <2>4, <3>1, Zenon DEF Counts
  <2>6. ReadFits(w, id)'
    BY <2>2, <2>3, Zenon DEF ReadFits, Reading, Becomes
  <2>7. x.read <= MaxRetries + 1
    BY <2>1, <2>3, QueueAssumption
  <2>8. id \in DOMAIN redisItems' => Counts(redisItems'[id].attempts, l + p + b1, e)
    BY <1>1, <2>1, <2>5, Zenon
  <2>9. (b1 = b /\ SameItem(id)) \/ (id \in DOMAIN redisItems /\ redisItems[id].attempts < MaxRetries)
    BY <1>4, <1>6, <2>1, <2>4, Zenon
  <2> QED BY <1>1, <1>4, <1>5, <2>2, <2>3, <2>4, <2>6, <2>7, <2>8, <2>9, CallCopies, Zenon
<1>7. CASE Done(w)
  BY <1>1, <1>4, <1>7, DoneCopies, Zenon
<1> QED BY <1>4, <1>6, <1>7, Zenon DEF AnswerGet

\* The DELETE of an ack.
LEMMA AckDeleteCopies ==
    ASSUME CountingFacts, RedisTypes, RedisCopiesInv, NEW w \in Workers, AckDelete(w)
    PROVE  RedisCopiesInv'
<1>1. \A t \in Tasks : SameItem(t)
  <2>1. /\ DOMAIN redisItems' = DOMAIN redisItems \ {worker[w].task}
        /\ \A x \in DOMAIN redisItems' : redisItems'[x] = redisItems[x]
    BY DeleteItem, Zenon DEF AckDelete
  <2> QED BY <2>1, Zenon DEF SameItem
<1> QED BY <1>1, DoneCopies, Zenon DEF AckDelete, At

\* The RPUSH of a nack to the dead letters.
LEMMA NackBuryCopies ==
    ASSUME CountingFacts, RedisTypes, RedisCopiesInv, NEW w \in Workers, NackBury(w)
    PROVE  RedisCopiesInv'
<1>1. \A t \in Tasks : SameItem(t)
  BY Zenon DEF NackBury, SameItem
<1> QED BY <1>1, DoneCopies, Zenon DEF NackBury, At

\* The command of a nack on the item: DELETE when it has used its attempts, else SET.
LEMMA NackWriteCopies ==
    ASSUME CountingFacts, RedisTypes, RedisCopiesInv, NEW w \in Workers, NackWrite(w)
    PROVE  RedisCopiesInv'
<1>1. worker[w].at = "nack" /\ UNCHANGED <<redisList, producer, redisEnqueued>>
  BY Zenon DEF NackWrite, At
<1>2. PICK id \in Tasks : \E l, p, c, b, e : CallOf(w, id, l, p, c, b, e)
  BY <1>1, NumbersOfCall, Zenon
<1>3. PICK l, p, c, b, e : CallOf(w, id, l, p, c, b, e)
  BY <1>2, Zenon
<1>4. worker[w].task = id
  BY <1>3, Zenon DEF CallOf
<1>5. /\ l \in Nat /\ p \in Nat /\ b \in Nat /\ e \in Nat
      /\ Numbered(id, l, p, c, b, e) /\ Within(l + p, c, e, EnqueueLimit(id))
  BY <1>3, Zenon DEF CallOf
<1>6. PICK n \in 0 .. MaxRetries + 1 : n = worker[w].read
  <2>1. worker[w].read \in Nat /\ worker[w].read <= MaxRetries + 1
    BY Zenon DEF RedisTypes, Call, RedisCopiesInv
  <2> QED BY <2>1, QueueAssumption
<1>7. ASSUME NEW command \in {"bury", "requeue"}, Goto(w, command)
      PROVE  \E x \in Call : x = [at |-> command, task |-> id, read |-> n] /\ Becomes(w, x)
  <2>1. Becomes(w, [at |-> command, task |-> id, read |-> n])
    BY <1>4, <1>6, <1>7, GotoBecomes, Zenon
  <2>2. [at |-> command, task |-> id, read |-> n] \in Call
    BY <1>6, QueueAssumption DEF Call
  <2> QED BY <2>1, <2>2, Zenon
<1>8. CASE n >= MaxRetries /\ Delete(id) /\ Goto(w, "bury")
  <2>1. PICK x \in Call : x = [at |-> "bury", task |-> id, read |-> n] /\ Becomes(w, x)
    BY <1>7, <1>8, Zenon
  <2>2. x.task = id /\ x.at = "bury" /\ x.read = n /\ ~GoesBack(x)
    BY <2>1, Zenon DEF GoesBack
  <2>3. ~GoesBack(worker[w])
    BY <1>1, <1>6, <1>8, QueueAssumption DEF GoesBack
  <2>4. Cardinality(CallsBack(id)') = b
    BY <1>3, <2>1, <2>2, <2>3, BackNone, Zenon
  <2>5. id \notin DOMAIN redisItems' /\ \A t \in Tasks : SameItem(t)
    <3>1. /\ DOMAIN redisItems' = DOMAIN redisItems \ {id}
          /\ \A t \in DOMAIN redisItems' : redisItems'[t] = redisItems[t]
      BY <1>8, DeleteItem, Zenon
    <3> QED BY <3>1, Zenon DEF SameItem
  <2>6. ReadFits(w, id)'
    BY <2>1, <2>2, Zenon DEF ReadFits, Reading, Becomes
  <2>7. x.read <= MaxRetries + 1
    BY <1>6, <2>2, QueueAssumption
  <2> QED BY <1>1, <1>4, <1>5, <2>1, <2>2, <2>4, <2>5, <2>6, <2>7, CallCopies, Zenon
<1>9. CASE n < MaxRetries /\ Put(id, "pending", n) /\ Goto(w, "requeue")
  <2>1. PICK x \in Call : x = [at |-> "requeue", task |-> id, read |-> n] /\ Becomes(w, x)
    BY <1>7, <1>9, Zenon
  <2>2. x.task = id /\ x.at = "requeue" /\ x.read = n /\ GoesBack(x)
    BY <2>1, Zenon DEF GoesBack
  <2>3. GoesBack(worker[w])
    BY <1>1, <1>6, <1>9, Zenon DEF GoesBack
  <2>4. Cardinality(CallsBack(id)') = b
    BY <1>3, <2>1, <2>2, <2>3, BackStays, Zenon
  <2>5. /\ DOMAIN redisItems' = DOMAIN redisItems \cup {id}
        /\ redisItems'[id] = [status |-> "pending", attempts |-> n]
        /\ \A t \in DOMAIN redisItems : t # id => redisItems'[t] = redisItems[t]
    BY <1>9, PutItem, Zenon
  <2>6. \A t \in Tasks : t # id => SameItem(t)
    BY <2>5, Zenon DEF SameItem
  <2>7. Counts(redisItems'[id].attempts, l + p + b, e)
    <3>1. redisItems'[id].attempts = n
      <4>1. redisItems'[id] = [status |-> "pending", attempts |-> n]
        BY <2>5, Zenon
      <4> QED BY <4>1, ItemAttempts, Zenon
    <3>2. ~(n >= MaxRetries) /\ ~(n > MaxRetries)
      BY <1>6, <1>9, QueueAssumption
    <3> QED BY <3>1, <3>2, Zenon DEF Counts
  <2>8. ReadFits(w, id)'
    BY <2>1, <2>2, Zenon DEF ReadFits, Reading, Becomes
  <2>9. x.read <= MaxRetries + 1
    BY <1>6, <2>2, QueueAssumption
  <2> QED BY <1>1, <1>4, <1>5, <2>1, <2>2, <2>3, <2>4, <2>6, <2>7, <2>8, <2>9, CallCopies, Zenon
<1> QED BY <1>4, <1>6, <1>8, <1>9, Zenon DEF NackWrite

\* An LPOP: the id moves from the list to a call that may give it back.
LEMMA DequeuePopCopies ==
    ASSUME CountingFacts, RedisTypes, RedisCopiesInv, NEW w \in Workers, DequeuePop(w)
    PROVE  RedisCopiesInv'
<1>1. /\ worker[w].at = "lpop" /\ redisList # <<>> /\ redisList' = Tail(redisList)
      /\ UNCHANGED <<redisItems, producer, redisEnqueued>>
      /\ worker' = [worker EXCEPT ![w] = [at |-> "get", task |-> Head(redisList), read |-> 0]]
  BY Zenon DEF DequeuePop, At
<1>2. redisList \in Seq(Tasks) /\ worker[w].task = NoTask /\ worker \in [Workers -> Call]
  BY <1>1, Zenon DEF RedisTypes
<1>3. PICK id \in Tasks : id = Head(redisList)
  BY <1>1, <1>2
<1>4. PICK x \in Call : x = [at |-> "get", task |-> id, read |-> 0] /\ Becomes(w, x)
  <2>1. PICK x : x = [at |-> "get", task |-> id, read |-> 0]
    BY Zenon
  <2>2. x \in Call /\ worker' = [worker EXCEPT ![w] = x]
    BY <1>1, <1>3, <2>1, Zenon DEF Call
  <2>3. Becomes(w, x)
    BY <1>2, <2>2, Zenon DEF Becomes
  <2> QED BY <2>1, <2>2, <2>3, Zenon
<1>5. x.task = id /\ x.at = "get" /\ x.read = 0 /\ GoesBack(x) /\ worker[w].task # id
  BY <1>2, <1>4, QueueAssumption, Zenon DEF GoesBack
<1>6. PICK l, p, c, b, e : /\ Numbered(id, l, p, c, b, e) /\ NumbersFit(id, l, p, c, b, e)
                           /\ b <= c /\ l + p + b = Returning(id)
  BY NumbersOf, Zenon DEF RedisCopiesInv
<1>7. l \in Nat /\ p \in Nat /\ c \in Nat /\ b \in Nat /\ e \in Nat /\ SameItem(id)
  BY <1>1, <1>6, Zenon DEF Numbered, SameItem
<1>8. ASSUME NEW t \in Tasks
      PROVE  /\ id = t => Cardinality(Places(redisList, t)) = Cardinality(Places(redisList, t))' + 1
             /\ id # t => Cardinality(Places(redisList, t)) = Cardinality(Places(redisList, t))'
             /\ Cardinality(Places(redisList, t))' \in Nat
  <2>1. Cardinality(Places(Tail(redisList), t)) \in Nat /\ Cardinality(Places(redisList, t)) \in Nat
    <3>1. Tail(redisList) \in Seq(Tasks)
      BY <1>1, <1>2
    <3> QED BY <1>2, <3>1, PlacesNumber, Zenon
  <2> QED BY <1>1, <1>2, <1>3, <2>1, PlacesTail, Zenon
<1>9. PICK l1 \in Nat : Cardinality(Places(redisList, id))' = l1 /\ l = l1 + 1
  BY <1>6, <1>8, Zenon DEF Numbered
<1>10. IsFiniteSet(Calls(id)') /\ Cardinality(Calls(id)') = c + 1 /\ Cardinality(CallsBack(id)') = b + 1
  <2>1. CallsCount(id, c, b)
    BY <1>6, Zenon DEF Numbered, CallsCount
  <2> QED BY <1>4, <1>5, <2>1, CallsEnter, Zenon
<1>11. Numbered(id, l1, p, c + 1, b + 1, e)'
  BY <1>1, <1>6, <1>7, <1>9, <1>10 DEF Numbered, Pushing
<1>12. NumbersFit(id, l1, p, c + 1, b + 1, e)'
  <2>1. l1 + p + (b + 1) = l + p + b /\ (l1 + p) + (c + 1) = (l + p) + c
    BY <1>7, <1>9
  <2>2. Within(l1 + p, c + 1, e, EnqueueLimit(id))
    BY <1>6, <2>1, Zenon DEF NumbersFit, Within
  <2>3. id \in DOMAIN redisItems => Counts(redisItems[id].attempts, l1 + p + (b + 1), e)
    BY <1>6, <2>1, Zenon DEF NumbersFit
  <2> QED BY <1>1, <2>2, <2>3, Zenon DEF NumbersFit, EnqueueLimit
<1>13. RedisCopiesOf(id)'
  BY <1>11, <1>12, OfNumbers, Zenon
<1>14. ASSUME NEW v \in Workers PROVE ReadFits(v, id)'
  <2>1. CASE v = w
    BY <1>4, <1>5, <2>1, Zenon DEF ReadFits, Reading, Becomes
  <2>2. CASE v # w
    <3>1. Reading(v, id)' => Reading(v, id)
      BY <1>4, <2>2, Zenon DEF Reading, Becomes
    <3>2. ~Reading(v, id)
      <4>1. Reading(v, id) => l = 0
        BY <1>6, Alone, Zenon
      <4> QED BY <1>9, <4>1
    <3> QED BY <3>1, <3>2, Zenon DEF ReadFits
  <2> QED BY <2>1, <2>2, Zenon
<1>15. \A t \in Tasks : t # id =>
          SameItem(t) /\ Cardinality(Places(redisList, t))' = Cardinality(Places(redisList, t))
  BY <1>1, <1>8, Zenon DEF SameItem
<1>16. x.read <= MaxRetries + 1
  BY <1>5, QueueAssumption
<1> QED BY <1>1, <1>2, <1>4, <1>5, <1>13, <1>14, <1>15, <1>16, CommandCopies, Zenon

\* The RPUSH of a nack: the id moves back to the list.
LEMMA NackRequeueCopies ==
    ASSUME CountingFacts, RedisTypes, RedisCopiesInv, NEW w \in Workers, NackRequeue(w)
    PROVE  RedisCopiesInv'
<1>1. /\ worker[w].at = "requeue" /\ redisList' = Append(redisList, worker[w].task) /\ Done(w)
      /\ UNCHANGED <<redisItems, producer, redisEnqueued>> /\ redisList \in Seq(Tasks)
  BY Zenon DEF NackRequeue, At, RedisTypes
<1>2. PICK id \in Tasks : \E l, p, c, b, e : CallOf(w, id, l, p, c, b, e)
  BY <1>1, NumbersOfCall, Zenon
<1>3. PICK l, p, c, b, e : CallOf(w, id, l, p, c, b, e)
  BY <1>2, Zenon
<1>4. worker[w].task = id /\ GoesBack(worker[w])
  BY <1>1, <1>3, Zenon DEF CallOf, GoesBack
<1>5. /\ l \in Nat /\ p \in Nat /\ c \in Nat /\ b \in Nat /\ e \in Nat /\ b >= 1
      /\ Numbered(id, l, p, c, b, e) /\ Within(l + p, c, e, EnqueueLimit(id)) /\ b <= c
      /\ id \in DOMAIN redisItems => Counts(redisItems[id].attempts, l + p + b, e)
  BY <1>3, <1>4, Zenon DEF CallOf
<1>6. PICK x \in Call : x = NoCall /\ Becomes(w, x)
  BY <1>1, DoneBecomes, Zenon DEF NoCall, Call
<1>7. x.task = NoTask /\ x.read = 0 /\ x.at = "lpop" /\ ~GoesBack(x) /\ x.task # id
  BY <1>6, QueueAssumption, Zenon DEF NoCall, GoesBack
<1>8. ASSUME NEW t \in Tasks
      PROVE  /\ id = t => Cardinality(Places(redisList, t))' = Cardinality(Places(redisList, t)) + 1
             /\ id # t => Cardinality(Places(redisList, t))' = Cardinality(Places(redisList, t))
  BY <1>1, <1>4, PlacesAppend, Zenon
<1>9. Cardinality(Places(redisList, id))' = l + 1
  BY <1>5, <1>8, Zenon DEF Numbered
<1>10. PICK c1 \in Nat, b1 \in Nat :
          /\ IsFiniteSet(Calls(id)') /\ Cardinality(Calls(id)') = c1 /\ c = c1 + 1
          /\ Cardinality(CallsBack(id)') = b1 /\ b = b1 + 1
  <2>1. CallsCount(id, c, b)
    BY <1>5, Zenon DEF Numbered, CallsCount
  <2>2. /\ IsFiniteSet(Calls(id)') /\ Cardinality(Calls(id)') \in Nat /\ Cardinality(CallsBack(id)') \in Nat
        /\ c = Cardinality(Calls(id)') + 1 /\ b = Cardinality(CallsBack(id)') + 1
    <3>1. Becomes(w, x) /\ worker[w].task = id /\ GoesBack(worker[w]) /\ x.task # id
      BY <1>4, <1>6, <1>7, Zenon
    <3> QED BY <2>1, <3>1, CallsLeave, Zenon
  <2> QED BY <2>2, Zenon
<1>11. Numbered(id, l + 1, p, c1, b1, e)'
  BY <1>1, <1>5, <1>9, <1>10 DEF Numbered, Pushing
<1>12. NumbersFit(id, l + 1, p, c1, b1, e)'
  <2>1. l + 1 + p + b1 = l + p + b /\ (l + 1 + p) + c1 = (l + p) + c
    BY <1>5, <1>10
  <2>2. Within(l + 1 + p, c1, e, EnqueueLimit(id))
    BY <1>5, <2>1, Zenon DEF Within
  <2>3. id \in DOMAIN redisItems => Counts(redisItems[id].attempts, l + 1 + p + b1, e)
    BY <1>5, <2>1, Zenon
  <2> QED BY <1>1, <2>2, <2>3, Zenon DEF NumbersFit, EnqueueLimit
<1>13. RedisCopiesOf(id)'
  BY <1>11, <1>12, OfNumbers, Zenon
<1>14. ASSUME NEW v \in Workers PROVE ReadFits(v, id)'
  <2>1. CASE v = w
    BY <1>6, <1>7, <2>1, Zenon DEF ReadFits, Reading, Becomes
  <2>2. CASE v # w
    <3>1. Reading(v, id)' => Reading(v, id)
      BY <1>6, <2>2, Zenon DEF Reading, Becomes
    <3>2. ~Reading(v, id)
      <4>1. Reading(v, id) => v = w
        BY <1>4, <1>5, Alone, Zenon
      <4> QED BY <2>2, <4>1, Zenon
    <3> QED BY <3>1, <3>2, Zenon DEF ReadFits
  <2> QED BY <2>1, <2>2, Zenon
<1>15. \A t \in Tasks : t # id =>
          SameItem(t) /\ Cardinality(Places(redisList, t))' = Cardinality(Places(redisList, t))
  BY <1>1, <1>8, Zenon DEF SameItem
<1>16. x.read <= MaxRetries + 1
  BY <1>7, QueueAssumption
<1> QED BY <1>1, <1>4, <1>6, <1>7, <1>13, <1>14, <1>15, <1>16, CommandCopies, Zenon

\* A command of an enqueue leaves the calls and the other ids as they are.
LEMMA EnqueueCopies ==
    ASSUME CountingFacts, RedisTypes, RedisCopiesInv, NEW id \in Tasks, UNCHANGED worker,
           \A t \in Tasks : t # id =>
              /\ SameItem(t) /\ Cardinality(Places(redisList, t))' = Cardinality(Places(redisList, t))
              /\ producer'[t] = producer[t] /\ redisEnqueued'[t] = redisEnqueued[t],
           RedisCopiesOf(id)', \A v \in Workers : Reading(v, id) => LastRead(id)'
    PROVE  RedisCopiesInv'
<1>1. ASSUME NEW t \in Tasks, t # id
      PROVE  RedisCopiesOf(t)' /\ (LastRead(t) => LastRead(t)')
  <2>1. PICK l, p, c, b, e : /\ Numbered(t, l, p, c, b, e) /\ NumbersFit(t, l, p, c, b, e)
                             /\ b <= c /\ l + p + b = Returning(t)
    BY NumbersOf, Zenon DEF RedisCopiesInv
  <2>2. Calls(t)' = Calls(t) /\ CallsBack(t)' = CallsBack(t)
    BY Zenon DEF Calls, CallsBack, GoesBack
  <2>3. Numbered(t, l, p, c, b, e)'
    BY <1>1, <2>1, <2>2, Zenon DEF Numbered, Pushing
  <2>4. NumbersFit(t, l, p, c, b, e)'
    BY <1>1, <2>1, Zenon DEF NumbersFit, SameItem
  <2>5. RedisCopiesOf(t)' /\ Returning(t)' = Returning(t)
    <3>1. RedisCopiesOf(t)' /\ Returning(t)' = l + p + b
      BY <2>3, <2>4, OfNumbers
    <3> QED BY <2>1, <3>1, Zenon
  <2>6. LastRead(t) => LastRead(t)'
    BY <1>1, <2>5, Zenon DEF LastRead, SameItem
  <2> QED BY <2>5, <2>6, Zenon
<1>2. \A t \in Tasks : RedisCopiesOf(t)'
  BY <1>1, Zenon
<1>3. ASSUME NEW v \in Workers, NEW t \in Tasks PROVE ReadFits(v, t)'
  <2>1. Reading(v, t)' => Reading(v, t) /\ worker[v].read = MaxRetries /\ LastRead(t)
    BY Zenon DEF Reading, RedisCopiesInv, ReadFits
  <2>2. Reading(v, t)' => LastRead(t)'
    BY <1>1, <2>1, Zenon
  <2> QED BY <2>1, <2>2, Zenon DEF ReadFits
<1>4. \A v \in Workers : worker'[v].read <= MaxRetries + 1
  BY Zenon DEF RedisCopiesInv
<1> QED BY <1>2, <1>3, <1>4, Zenon DEF RedisCopiesInv

\* The SET of an enqueue.
LEMMA EnqueueSetCopies ==
    ASSUME CountingFacts, RedisTypes, RedisCopiesInv, NEW id \in Tasks, EnqueueSet(id)
    PROVE  RedisCopiesInv'
<1>1. /\ producer[id] = "set" /\ redisEnqueued[id] < EnqueueLimit(id)
      /\ redisEnqueued' = [redisEnqueued EXCEPT ![id] = @ + 1]
      /\ producer' = [producer EXCEPT ![id] = "rpush"] /\ UNCHANGED <<redisList, worker>>
  BY Zenon DEF EnqueueSet
<1>2. /\ DOMAIN redisItems' = DOMAIN redisItems \cup {id}
      /\ redisItems'[id] = [status |-> "pending", attempts |-> 0]
      /\ \A t \in DOMAIN redisItems : t # id => redisItems'[t] = redisItems[t]
  BY PutItem, Zenon DEF EnqueueSet
<1>3. producer \in [Tasks -> {"set", "rpush"}] /\ redisEnqueued \in [Tasks -> 0 .. 2]
  BY Zenon DEF RedisTypes
<1>4. PICK l, p, c, b, e : /\ Numbered(id, l, p, c, b, e) /\ NumbersFit(id, l, p, c, b, e)
                           /\ b <= c /\ l + p + b = Returning(id)
  BY NumbersOf, Zenon DEF RedisCopiesInv
<1>5. /\ l \in Nat /\ p = 0 /\ c \in Nat /\ b \in Nat /\ e \in Nat /\ e < EnqueueLimit(id)
      /\ EnqueueLimit(id) \in {1, 2}
  BY <1>1, <1>4, Zenon DEF Numbered, Pushing, EnqueueLimit
<1>6. Calls(id)' = Calls(id) /\ CallsBack(id)' = CallsBack(id)
  BY <1>1, Zenon DEF Calls, CallsBack, GoesBack
<1>7. Numbered(id, l, 1, c, b, e + 1)'
  <2>1. Pushing(id)' = 1 /\ redisEnqueued'[id] = e + 1
    BY <1>1, <1>3, <1>4, Zenon DEF Pushing, Numbered
  <2> QED BY <1>1, <1>4, <1>5, <1>6, <2>1 DEF Numbered
<1>8. NumbersFit(id, l, 1, c, b, e + 1)'
  <2>1. Within(l + 1, c, e + 1, EnqueueLimit(id))
    BY <1>4, <1>5 DEF NumbersFit, Within
  <2>2. redisItems'[id].attempts = 0
    <3>1. redisItems'[id] = [status |-> "pending", attempts |-> 0]
      BY <1>2, Zenon
    <3> QED BY <3>1, ItemAttempts, Zenon
  <2>3. Counts(0, l + 1 + b, e + 1)
    BY QueueAssumption DEF Counts
  <2> QED BY <2>1, <2>2, <2>3, Zenon DEF NumbersFit, EnqueueLimit
<1>9. RedisCopiesOf(id)'
  BY <1>7, <1>8, OfNumbers, Zenon
<1>10. \A v \in Workers : ~Reading(v, id)
  <2>1. \A v \in Workers : Reading(v, id) => e = 2
    BY <1>4, Alone
  <2> QED BY <1>5, <2>1
<1>11. \A t \in Tasks : t # id =>
          /\ SameItem(t) /\ Cardinality(Places(redisList, t))' = Cardinality(Places(redisList, t))
          /\ producer'[t] = producer[t] /\ redisEnqueued'[t] = redisEnqueued[t]
  BY <1>1, <1>2, <1>3, Zenon DEF SameItem
<1> QED BY <1>1, <1>9, <1>10, <1>11, EnqueueCopies, Zenon

\* The RPUSH of an enqueue.
LEMMA EnqueuePushCopies ==
    ASSUME CountingFacts, RedisTypes, RedisCopiesInv, NEW id \in Tasks, EnqueuePush(id)
    PROVE  RedisCopiesInv'
<1>1. /\ producer[id] = "rpush" /\ redisList' = Append(redisList, id)
      /\ producer' = [producer EXCEPT ![id] = "set"]
      /\ UNCHANGED <<redisItems, redisEnqueued, worker>>
  BY Zenon DEF EnqueuePush
<1>2. producer \in [Tasks -> {"set", "rpush"}] /\ redisList \in Seq(Tasks)
  BY Zenon DEF RedisTypes
<1>3. PICK l, p, c, b, e : /\ Numbered(id, l, p, c, b, e) /\ NumbersFit(id, l, p, c, b, e)
                           /\ b <= c /\ l + p + b = Returning(id)
  BY NumbersOf, Zenon DEF RedisCopiesInv
<1>4. l \in Nat /\ p = 1 /\ c \in Nat /\ b \in Nat /\ e \in Nat
  BY <1>1, <1>3, Zenon DEF Numbered, Pushing
<1>5. Calls(id)' = Calls(id) /\ CallsBack(id)' = CallsBack(id)
  BY <1>1, Zenon DEF Calls, CallsBack, GoesBack
<1>6. ASSUME NEW t \in Tasks
      PROVE  /\ id = t => Cardinality(Places(redisList, t))' = Cardinality(Places(redisList, t)) + 1
             /\ id # t => Cardinality(Places(redisList, t))' = Cardinality(Places(redisList, t))
  BY <1>1, <1>2, PlacesAppend, Zenon
<1>7. Numbered(id, l + 1, 0, c, b, e)'
  <2>1. Pushing(id)' = 0 /\ Cardinality(Places(redisList, id))' = l + 1
    BY <1>1, <1>2, <1>3, <1>6, Zenon DEF Pushing, Numbered
  <2> QED BY <1>1, <1>3, <1>4, <1>5, <2>1 DEF Numbered
<1>8. NumbersFit(id, l + 1, 0, c, b, e)' /\ l + 1 + 0 + b = l + p + b
  <2>1. l + 1 + 0 + b = l + p + b /\ l + 1 + 0 = l + p
    BY <1>4
  <2> QED BY <1>1, <1>3, <2>1, Zenon DEF NumbersFit, EnqueueLimit
<1>9. RedisCopiesOf(id)'
  BY <1>7, <1>8, OfNumbers, Zenon
<1>10. \A v \in Workers : ~Reading(v, id)
  <2>1. \A v \in Workers : Reading(v, id) => p = 0
    BY <1>3, Alone
  <2> QED BY <1>4, <2>1
<1>11. \A t \in Tasks : t # id =>
          /\ SameItem(t) /\ Cardinality(Places(redisList, t))' = Cardinality(Places(redisList, t))
          /\ producer'[t] = producer[t] /\ redisEnqueued'[t] = redisEnqueued[t]
  BY <1>1, <1>2, <1>6, Zenon DEF SameItem
<1> QED BY <1>1, <1>9, <1>10, <1>11, EnqueueCopies, Zenon

\* No copies at the start.
LEMMA InitRedisCopies ==
    ASSUME CountingFacts PROVE RedisInit => RedisCopiesInv
<1> SUFFICES ASSUME RedisInit PROVE RedisCopiesInv
  BY Zenon
<1>1. \A w \in Workers : worker[w] = NoCall /\ worker[w].at = "lpop" /\ worker[w].task = NoTask /\ worker[w].read = 0
  BY Zenon DEF RedisInit, NoCall
<1>2. ASSUME NEW t \in Tasks PROVE RedisCopiesOf(t)
  <2>1. Calls(t) = {} /\ CallsBack(t) = {} /\ Places(redisList, t) = {} /\ Pushing(t) = 0
    BY <1>1, QueueAssumption DEF Calls, CallsBack, Places, Pushing, RedisInit
  <2>2. IsFiniteSet({}) /\ Cardinality({}) = 0
    BY NoneCount, Zenon
  <2>3. redisEnqueued[t] = 0 /\ DOMAIN redisItems = {} /\ EnqueueLimit(t) \in {1, 2}
    BY Zenon DEF RedisInit, EnqueueLimit
  <2> QED BY <2>1, <2>2, <2>3 DEF RedisCopiesOf, Within
<1>3. \A w \in Workers, t \in Tasks : ReadFits(w, t)
  BY <1>1, Zenon DEF ReadFits, Reading
<1> QED BY <1>1, <1>2, <1>3, QueueAssumption DEF RedisCopiesInv

\* Every command keeps the numbers of every id within its enqueues.
LEMMA NextRedisCopies ==
    ASSUME CountingFacts PROVE RedisTypes /\ RedisCopiesInv /\ [RedisNext]_redisVars => RedisCopiesInv'
<1> SUFFICES ASSUME RedisTypes, RedisCopiesInv, [RedisNext]_redisVars PROVE RedisCopiesInv'
  BY Zenon
<1>1. ASSUME UNCHANGED <<redisList, redisItems, producer, redisEnqueued, worker>>
      PROVE  RedisCopiesInv'
  <2>1. \A t : Calls(t)' = Calls(t) /\ CallsBack(t)' = CallsBack(t) /\ Pushing(t)' = Pushing(t)
    BY <1>1, Zenon DEF Calls, CallsBack, GoesBack, Pushing
  <2>2. \A t : Returning(t)' = Returning(t)
    BY <1>1, <2>1, Zenon DEF Returning
  <2>3. \A t \in Tasks : RedisCopiesOf(t)'
    BY <1>1, <2>1, <2>2, Zenon DEF RedisCopiesInv, RedisCopiesOf, EnqueueLimit
  <2>4. \A w \in Workers, t \in Tasks : ReadFits(w, t)'
    BY <1>1, <2>2, Zenon DEF RedisCopiesInv, ReadFits, Reading, LastRead
  <2> QED BY <1>1, <2>3, <2>4, Zenon DEF RedisCopiesInv
<1>2. ASSUME NEW t \in Tasks, EnqueueSet(t) \/ EnqueuePush(t) PROVE RedisCopiesInv'
  BY <1>2, EnqueueSetCopies, EnqueuePushCopies, Zenon
<1>3. ASSUME NEW w \in Workers, CommandStep(w) PROVE RedisCopiesInv'
  BY <1>3, DequeuePopCopies, DequeueGetCopies, DequeueSetCopies, AnswerGetCopies, AckDeleteCopies,
     NackWriteCopies, NackBuryCopies, NackRequeueCopies, Zenon DEF CommandStep
<1>4. ASSUME NEW w \in Workers, CallerDies(w) PROVE RedisCopiesInv'
  BY <1>1, <1>4, Zenon DEF CallerDies
<1>5. CASE Stop \/ UNCHANGED redisVars
  BY <1>1, <1>5, Zenon DEF Stop, redisVars
<1> QED BY <1>2, <1>3, <1>4, <1>5, Zenon DEF RedisNext

-----------------------------------------------------------------------------
\* DistributedLock.

\* Only a client past its acquire has a grant.  A client that will not compare
\* the holder again has a grant that is valid, and a Redis key is one.
GrantsKnown ==
    /\ \A c \in valid : client[c] \in {"in", "deleting", "dead"}
    /\ overran = {} => \A c \in Clients : Uncompared(c) => c \in valid
    /\ backend = "redis" /\ entry # NoClient => entry \in valid

LockInv == LockTypeOK /\ GrantHonoured /\ GrantsKnown

\* The initial state has no entry and no grant.
LEMMA InitLock == LockInit => LockInv
BY LockAssumption, Zenon DEF LockInit, LockInv, LockTypeOK, GrantHonoured, GrantsKnown, Uncompared

\* Every step of a client, and every expiry, keeps the grants honoured.
LEMMA NextLock == LockInv /\ [LockNext]_lockVars => LockInv'
<1> SUFFICES ASSUME LockInv, [LockNext]_lockVars PROVE LockInv'
  BY Zenon
<1> USE LockAssumption DEF LockInv, LockTypeOK, GrantHonoured, GrantsKnown, Uncompared
<1>1. ASSUME NEW c \in Clients, Acquire(c) PROVE LockInv'
  BY <1>1, Zenon DEF Acquire, Move
<1>2. ASSUME NEW c \in Clients, Grant(c) PROVE LockInv'
  <2>1. overran = {} => valid = {}
    BY <1>2, Zenon DEF Grant
  <2> QED BY <1>2, <2>1, Zenon DEF Grant, Move
<1>3. ASSUME NEW c \in Clients, GiveUp(c) PROVE LockInv'
  BY <1>3, Zenon DEF GiveUp, Move
<1>4. ASSUME NEW c \in Clients, Release(c) PROVE LockInv'
  <2>1. CASE entry # NoClient /\ IsHolder(c) /\ entry' = NoClient /\ stale' = FALSE
    <3>1. overran = {} => valid \subseteq {c}
      BY <1>4, <2>1, Zenon DEF IsHolder, Release, Move
    <3> QED BY <1>4, <2>1, <3>1, Zenon DEF Release, Move
  <2>2. CASE UNCHANGED <<entry, stale>>
    BY <1>4, <2>2, Zenon DEF Release, Move
  <2> QED BY <1>4, <2>1, <2>2, Zenon DEF Release
<1>5. ASSUME NEW c \in Clients, ReleaseGet(c) PROVE LockInv'
  <2>1. CASE entry = c /\ Move(c, "in", "deleting") /\ UNCHANGED valid
    BY <1>5, <2>1, Zenon DEF ReleaseGet, Move
  <2>2. CASE entry # c /\ Move(c, "in", "out") /\ valid' = valid \ {c}
    BY <1>5, <2>2, Zenon DEF ReleaseGet, Move
  <2> QED BY <1>5, <2>1, <2>2, Zenon DEF ReleaseGet
<1>6. ASSUME NEW c \in Clients, ReleaseDelete(c) PROVE LockInv'
  <2>1. overran = {} => valid \subseteq {c}
    BY <1>6, Zenon DEF ReleaseDelete, Move
  <2>2. ~stale
    BY <1>6, Zenon DEF ReleaseDelete
  <2> QED BY <1>6, <2>1, <2>2, Zenon DEF ReleaseDelete, Move
<1>7. ASSUME NEW c \in Clients, Die(c) PROVE LockInv'
  BY <1>7, Zenon DEF Die
<1>8. ASSUME NEW c \in Clients, Expire(c) PROVE LockInv'
  <2>1. LockTypeOK'
    <3>1. overran' \subseteq Clients /\ valid' \subseteq Clients
      BY <1>8, Zenon DEF Expire
    <3>2. CASE entry = c /\ backend = "redis" /\ entry' = NoClient /\ UNCHANGED stale
      BY <1>8, <3>1, <3>2, Zenon DEF Expire
    <3>3. CASE entry = c /\ backend = "memory" /\ stale' = TRUE /\ UNCHANGED entry
      BY <1>8, <3>1, <3>3, Zenon DEF Expire
    <3>4. CASE entry # c /\ UNCHANGED <<entry, stale>>
      BY <1>8, <3>1, <3>4, Zenon DEF Expire
    <3> QED BY <1>8, <3>2, <3>3, <3>4, Zenon DEF Expire
  <2>2. overran' = {} => overran = {} /\ ~Uncompared(c)
    BY <1>8, Zenon DEF Expire
  <2>3. GrantHonoured'
    BY <1>8, <2>2, Zenon DEF Expire
  <2>4. GrantsKnown'
    BY <1>8, <2>2, Zenon DEF Expire
  <2> QED BY <2>1, <2>3, <2>4, Zenon
<1>9. CASE IsLocked
  BY <1>9, Zenon DEF IsLocked
<1>10. CASE UNCHANGED lockVars
  BY <1>10, Zenon DEF lockVars
<1> QED
  BY <1>1, <1>2, <1>3, <1>4, <1>5, <1>6, <1>7, <1>8, <1>9, <1>10, Zenon DEF LockNext

\* No release or acquire of another client takes a valid grant away, so at most
\* one client has one (acquire and release of both lock classes), as long as no
\* TTL has run out under a release that no longer compares the holder.
THEOREM GrantsAlwaysHonoured == LockSpec => []GrantHonoured
<1>1. LockInit => LockInv
  BY InitLock, Zenon
<1>2. LockInv /\ [LockNext]_lockVars => LockInv'
  BY NextLock, Zenon
<1>3. LockInv => GrantHonoured
  BY Zenon DEF LockInv
<1> QED BY <1>1, <1>2, <1>3, PTL DEF LockSpec

\* The entry, the clients and the grants keep their types, and an entry a TTL has left
\* behind in InMemoryLock is never the entry of a grant that is still valid.
THEOREM LockTyped == LockSpec => []LockTypeOK
<1>1. LockInv => LockTypeOK
  BY Zenon DEF LockInv
<1> QED BY <1>1, InitLock, NextLock, PTL DEF LockSpec

-----------------------------------------------------------------------------
\* InMemoryTaskQueue: the places an id can be in, the queue, _items and a worker's
\* hand, fit the item's status.

QueueTypes ==
    /\ queue \in Seq(Tasks)
    /\ DOMAIN items \subseteq Tasks
    /\ \A t \in DOMAIN items :
          /\ items[t] \in [status : {"pending", "processing"}, attempts : Nat]
          /\ items[t].status = "pending" => items[t].attempts < MaxRetries
          /\ t \in Distinct => items[t].attempts <= MaxRetries
    /\ deadLetter \in Seq(Tasks)
    /\ acked \subseteq Tasks
    /\ enqueued \in [Tasks -> 0 .. 2]
    /\ hand \in [Workers -> Tasks \cup {NoTask}]
    /\ crashed \subseteq Workers

\* The id of a distinct task in the queue is that of a pending item, and is there
\* once.
QueueOfPending ==
    /\ \A k \in DOMAIN queue : queue[k] \in Distinct =>
          queue[k] \in DOMAIN items /\ items[queue[k]].status = "pending"
    /\ \A k, l \in DOMAIN queue : queue[k] \in Distinct /\ queue[k] = queue[l] => k = l

\* A distinct task in a hand is an item in processing, which no other hand holds.
HandsOfProcessing ==
    /\ \A w \in Workers : hand[w] \in Distinct =>
          hand[w] \in DOMAIN items /\ items[hand[w]].status = "processing"
    /\ \A v, w \in Workers : hand[v] \in Distinct /\ hand[v] = hand[w] => v = w

\* A distinct id that was never enqueued is nowhere.
NewIsNowhere ==
    \A t \in Distinct : enqueued[t] = 0 =>
        t \notin DOMAIN items /\ t \notin acked /\ \A k \in DOMAIN deadLetter : deadLetter[k] # t

QueueInv ==
    /\ QueueTypes
    /\ QueueOfPending
    /\ HandsOfProcessing
    /\ NewIsNowhere
    /\ PendingIsQueued
    /\ raised \subseteq Repeated

\* A new queue is empty.
LEMMA InitQueue == Init => QueueInv
<1> SUFFICES ASSUME Init PROVE QueueInv
  BY Zenon
<1>1. DOMAIN items = {} /\ DOMAIN queue = {} /\ DOMAIN deadLetter = {}
  BY DEF Init
<1>2. QueueTypes
  <2>1. queue \in Seq(Tasks) /\ deadLetter \in Seq(Tasks)
    BY DEF Init
  <2>2. enqueued \in [Tasks -> 0 .. 2]
    BY DEF Init
  <2>3. hand \in [Workers -> Tasks \cup {NoTask}]
    BY Zenon DEF Init
  <2>4. acked \subseteq Tasks /\ crashed \subseteq Workers
    BY Zenon DEF Init
  <2> QED BY <1>1, <2>1, <2>2, <2>3, <2>4, Zenon DEF QueueTypes
<1>3. HandsOfProcessing
  BY QueueAssumption, Zenon DEF Init, HandsOfProcessing, Distinct
<1>4. raised \subseteq Repeated /\ acked = {}
  BY Zenon DEF Init
<1> QED
  BY <1>1, <1>2, <1>3, <1>4, Zenon DEF QueueInv, QueueOfPending, NewIsNowhere, PendingIsQueued

\* enqueue of a distinct id that is new, or of a repeated one.
LEMMA EnqueueQueue ==
    ASSUME QueueInv, NEW t \in Tasks, Enqueue(t)
    PROVE  QueueInv'
<1> USE QueueAssumption DEF QueueInv
<1>1. t \in Distinct => enqueued[t] = 0 /\ t \notin DOMAIN items
  BY DEF Enqueue, EnqueueLimit, QueueTypes, NewIsNowhere, Distinct
<1>2. /\ DOMAIN items' = DOMAIN items \cup {t}
      /\ items'[t] = [status |-> "pending", attempts |-> 0]
      /\ \A x \in DOMAIN items : x # t => items'[x] = items[x]
  BY Zenon DEF Enqueue
<1>3. /\ queue' \in Seq(Tasks)
      /\ queue'[Len(queue) + 1] = t
      /\ \A k \in DOMAIN queue : queue'[k] = queue[k]
      /\ DOMAIN queue' = DOMAIN queue \cup {Len(queue) + 1}
  BY DEF Enqueue, QueueTypes
<1>4. QueueTypes'
  <2>1. enqueued[t] \in 0 .. 2 /\ EnqueueLimit(t) \in {1, 2}
    BY Zenon DEF EnqueueLimit, QueueTypes
  <2>2. enqueued[t] + 1 \in 0 .. 2
    BY <2>1 DEF Enqueue
  <2>3. enqueued' \in [Tasks -> 0 .. 2]
    BY <2>2, Zenon DEF Enqueue, QueueTypes
  <2>4. /\ items'[t] \in [status : {"pending", "processing"}, attempts : Nat]
        /\ items'[t].attempts < MaxRetries /\ items'[t].attempts <= MaxRetries
    <3>1. items'[t] = [status |-> "pending", attempts |-> 0]
      BY <1>2, Zenon
    <3> QED BY <3>1
  <2>5. \A x \in DOMAIN items' :
          /\ items'[x] \in [status : {"pending", "processing"}, attempts : Nat]
          /\ items'[x].status = "pending" => items'[x].attempts < MaxRetries
          /\ x \in Distinct => items'[x].attempts <= MaxRetries
    BY <1>2, <2>4, Zenon DEF QueueTypes
  <2>6. DOMAIN items' \subseteq Tasks
    BY <1>2, Zenon DEF QueueTypes
  <2> QED BY <1>3, <2>3, <2>5, <2>6, Zenon DEF Enqueue, QueueTypes
<1>5. QueueOfPending'
  <2>1. t \in Distinct => \A k \in DOMAIN queue : queue[k] # t
    BY <1>1, Zenon DEF QueueOfPending
  <2> QED BY <1>2, <1>3, <2>1 DEF QueueOfPending
<1>6. HandsOfProcessing'
  BY <1>1, <1>2, Zenon DEF Enqueue, HandsOfProcessing
<1>7. NewIsNowhere'
  BY <1>2 DEF Enqueue, NewIsNowhere, QueueTypes, Distinct
<1>8. PendingIsQueued'
  BY <1>2, <1>3, Zenon DEF PendingIsQueued
<1> QED BY <1>4, <1>5, <1>6, <1>7, <1>8, Zenon DEF Enqueue

\* dequeue of the oldest id.
LEMMA DequeueQueue ==
    ASSUME QueueInv, NEW w \in Workers, Dequeue(w)
    PROVE  QueueInv'
<1> USE QueueAssumption DEF QueueInv
<1> DEFINE t == Head(queue)
<1>1. /\ t \in Tasks /\ t = queue[1] /\ 1 \in DOMAIN queue
      /\ t \in DOMAIN items /\ items[t].attempts \in Nat
      /\ t \in Distinct => items[t].status = "pending" /\ items[t].attempts < MaxRetries
  BY DEF Dequeue, QueueTypes, QueueOfPending
<1>2. /\ DOMAIN items' = DOMAIN items
      /\ items'[t] = [status |-> "processing", attempts |-> items[t].attempts + 1]
      /\ \A x \in DOMAIN items : x # t => items'[x] = items[x]
  BY <1>1, Zenon DEF Dequeue
<1>3. /\ queue' \in Seq(Tasks)
      /\ \A k \in DOMAIN queue' : k + 1 \in DOMAIN queue /\ queue'[k] = queue[k + 1]
      /\ \A k \in DOMAIN queue : k # 1 => k - 1 \in DOMAIN queue' /\ queue'[k - 1] = queue[k]
  BY DEF Dequeue, QueueTypes
<1>4. hand' = [hand EXCEPT ![w] = t] /\ t # NoTask
  BY <1>1, Zenon DEF Dequeue
<1>5. QueueTypes'
  <2>1. /\ items'[t] \in [status : {"pending", "processing"}, attempts : Nat]
        /\ items'[t].status # "pending"
        /\ t \in Distinct => items'[t].attempts <= MaxRetries
    BY <1>1, <1>2
  <2> QED BY <1>1, <1>2, <1>3, <1>4, <2>1 DEF Dequeue, QueueTypes
<1>6. QueueOfPending'
  <2>1. ASSUME NEW k \in DOMAIN queue', queue'[k] \in Distinct
        PROVE  queue'[k] # t /\ queue'[k] \in DOMAIN items /\ items[queue'[k]].status = "pending"
    <3>1. k \in Nat /\ k + 1 # 1 /\ k + 1 \in DOMAIN queue /\ queue'[k] = queue[k + 1]
      BY <1>3
    <3> QED BY <1>1, <2>1, <3>1, Zenon DEF QueueOfPending
  <2>2. ASSUME NEW k \in DOMAIN queue', NEW l \in DOMAIN queue',
               queue'[k] \in Distinct, queue'[k] = queue'[l]
        PROVE  k = l
    BY <1>3, <2>2 DEF QueueOfPending
  <2> QED BY <1>2, <2>1, <2>2, Zenon DEF QueueOfPending
<1>7. HandsOfProcessing'
  <2>1. t \in Distinct => \A v \in Workers : hand[v] # t
    BY <1>1, <1>4, Zenon DEF HandsOfProcessing
  <2>2. hand'[w] = t /\ \A v \in Workers : v # w => hand'[v] = hand[v]
    BY <1>4, Zenon DEF QueueTypes
  <2>3. t \in DOMAIN items' /\ items'[t].status = "processing"
    BY <1>1, <1>2
  <2>4. ASSUME NEW v \in Workers, hand'[v] \in Distinct
        PROVE  hand'[v] \in DOMAIN items' /\ items'[hand'[v]].status = "processing"
    BY <1>2, <2>1, <2>2, <2>3, <2>4, Zenon DEF HandsOfProcessing
  <2>5. \A u, v \in Workers : hand'[u] \in Distinct /\ hand'[u] = hand'[v] => u = v
    BY <2>1, <2>2, Zenon DEF HandsOfProcessing
  <2> QED BY <2>4, <2>5, Zenon DEF HandsOfProcessing
<1>8. NewIsNowhere'
  BY <1>2, Zenon DEF Dequeue, NewIsNowhere
<1>9. PendingIsQueued'
  <2>1. ASSUME NEW x \in DOMAIN items', items'[x].status = "pending"
        PROVE  \E k \in DOMAIN queue' : queue'[k] = x
    <3>1. x # t /\ x \in DOMAIN items /\ items[x].status = "pending"
      BY <1>2, <2>1
    <3>2. PICK k \in DOMAIN queue : queue[k] = x
      BY <3>1, Zenon DEF PendingIsQueued
    <3> QED BY <1>1, <1>3, <3>1, <3>2, Zenon
  <2> QED BY <2>1, Zenon DEF PendingIsQueued
<1> QED BY <1>5, <1>6, <1>7, <1>8, <1>9, Zenon DEF Dequeue

\* A dequeue that raises has popped the id of a repeated task.
LEMMA RaiseQueue ==
    ASSUME QueueInv, NEW w \in Workers, DequeueRaises(w)
    PROVE  QueueInv'
<1> USE DEF QueueInv
<1> DEFINE t == Head(queue)
<1>1. t \in Tasks /\ t = queue[1] /\ 1 \in DOMAIN queue /\ t \notin DOMAIN items
  BY DEF DequeueRaises, QueueTypes
<1>2. t \in Repeated
  BY <1>1, Zenon DEF QueueOfPending, Distinct
<1>3. /\ queue' \in Seq(Tasks)
      /\ \A k \in DOMAIN queue' : k + 1 \in DOMAIN queue /\ queue'[k] = queue[k + 1]
      /\ \A k \in DOMAIN queue : k # 1 => k - 1 \in DOMAIN queue' /\ queue'[k - 1] = queue[k]
  BY DEF DequeueRaises, QueueTypes
<1>4. QueueTypes'
  BY <1>3, Zenon DEF DequeueRaises, QueueTypes
<1>5. QueueOfPending'
  BY <1>3 DEF DequeueRaises, QueueOfPending
<1>6. PendingIsQueued'
  <2>1. ASSUME NEW x \in DOMAIN items, items[x].status = "pending"
        PROVE  \E k \in DOMAIN queue' : queue'[k] = x
    <3>1. PICK k \in DOMAIN queue : queue[k] = x
      BY <2>1, Zenon DEF PendingIsQueued
    <3>2. k # 1
      BY <1>1, <3>1, Zenon
    <3> QED BY <1>3, <3>1, <3>2, Zenon
  <2> QED BY <2>1, Zenon DEF DequeueRaises, PendingIsQueued
<1>7. raised' \subseteq Repeated
  BY <1>2, Zenon DEF DequeueRaises
<1> QED BY <1>4, <1>5, <1>6, <1>7, Zenon DEF DequeueRaises, HandsOfProcessing, NewIsNowhere

\* ack removes the item of the id in hand.
LEMMA AckQueue ==
    ASSUME QueueInv, NEW w \in Workers, NEW t \in Tasks, Ack(w, t)
    PROVE  QueueInv'
<1> USE QueueAssumption DEF QueueInv
<1>1. /\ t # NoTask /\ hand[w] = t /\ t \in DOMAIN items
      /\ t \in Distinct => items[t].status = "processing"
  BY Zenon DEF Ack, Holding, HandsOfProcessing
<1>2. /\ DOMAIN items' = DOMAIN items \ {t}
      /\ \A x \in DOMAIN items \ {t} : items'[x] = items[x]
  BY Zenon DEF Ack, Without
<1>3. hand' = [hand EXCEPT ![w] = NoTask] /\ NoTask \notin Distinct
  BY Zenon DEF Ack, LetGo, Distinct
<1>4. QueueTypes'
  BY <1>2, <1>3, Zenon DEF Ack, QueueTypes
<1>5. QueueOfPending'
  BY <1>1, <1>2, Zenon DEF Ack, QueueOfPending
<1>6. HandsOfProcessing'
  BY <1>1, <1>2, <1>3, Zenon DEF HandsOfProcessing, QueueTypes
<1>7. NewIsNowhere'
  BY <1>1, <1>2, Zenon DEF Ack, NewIsNowhere
<1>8. PendingIsQueued'
  BY <1>2, Zenon DEF Ack, PendingIsQueued
<1> QED BY <1>4, <1>5, <1>6, <1>7, <1>8, Zenon DEF Ack

\* nack buries the item, or puts its id back in the queue.
LEMMA NackQueue ==
    ASSUME QueueInv, NEW w \in Workers, NEW t \in Tasks, Nack(w, t)
    PROVE  QueueInv'
<1> USE QueueAssumption DEF QueueInv
<1>1. /\ t # NoTask /\ hand[w] = t /\ t \in DOMAIN items
      /\ t \in Distinct => items[t].status = "processing"
  BY Zenon DEF Nack, Holding, HandsOfProcessing
<1>2. hand' = [hand EXCEPT ![w] = NoTask] /\ NoTask \notin Distinct
  BY Zenon DEF Nack, LetGo, Distinct
<1>3. CASE /\ items[t].attempts >= MaxRetries
           /\ items' = Without(items, t)
           /\ deadLetter' = Append(deadLetter, t)
           /\ UNCHANGED queue
  <2>1. /\ DOMAIN items' = DOMAIN items \ {t}
        /\ \A x \in DOMAIN items \ {t} : items'[x] = items[x]
    BY <1>3, Zenon DEF Without
  <2>2. QueueTypes'
    BY <1>2, <1>3, <2>1 DEF Nack, QueueTypes
  <2>3. QueueOfPending'
    BY <1>1, <1>3, <2>1, Zenon DEF QueueOfPending
  <2>4. HandsOfProcessing'
    BY <1>1, <1>2, <2>1, Zenon DEF HandsOfProcessing, QueueTypes
  <2>5. NewIsNowhere'
    <3>1. \A k \in DOMAIN deadLetter' :
             deadLetter'[k] = t \/ (k \in DOMAIN deadLetter /\ deadLetter'[k] = deadLetter[k])
      BY <1>3 DEF QueueTypes
    <3> QED BY <1>1, <2>1, <3>1 DEF Nack, NewIsNowhere
  <2>6. PendingIsQueued'
    BY <1>3, <2>1, Zenon DEF PendingIsQueued
  <2> QED BY <2>2, <2>3, <2>4, <2>5, <2>6, Zenon DEF Nack
<1>4. CASE /\ items[t].attempts < MaxRetries
           /\ items' = [items EXCEPT ![t].status = "pending"]
           /\ queue' = Append(queue, t)
           /\ UNCHANGED deadLetter
  <2>1. /\ DOMAIN items' = DOMAIN items
        /\ items'[t] = [items[t] EXCEPT !.status = "pending"]
        /\ \A x \in DOMAIN items : x # t => items'[x] = items[x]
    BY <1>1, <1>4, Zenon
  <2>2. items[t] \in [status : {"pending", "processing"}, attempts : Nat]
    BY <1>1, Zenon DEF QueueTypes
  <2>3. /\ items'[t].status = "pending"
        /\ items'[t].attempts = items[t].attempts
        /\ items'[t] \in [status : {"pending", "processing"}, attempts : Nat]
    BY <2>1, <2>2, Zenon
  <2>4. /\ queue' \in Seq(Tasks)
        /\ queue'[Len(queue) + 1] = t
        /\ \A k \in DOMAIN queue : queue'[k] = queue[k]
        /\ DOMAIN queue' = DOMAIN queue \cup {Len(queue) + 1}
    BY <1>4 DEF QueueTypes
  <2>5. QueueTypes'
    BY <1>2, <1>4, <2>1, <2>3, <2>4, Zenon DEF Nack, QueueTypes
  <2>6. QueueOfPending'
    <3>1. t \in Distinct => \A k \in DOMAIN queue : queue[k] # t
      BY <1>1, Zenon DEF QueueOfPending
    <3> QED BY <1>1, <2>1, <2>3, <2>4, <3>1 DEF QueueOfPending
  <2>7. HandsOfProcessing'
    BY <1>1, <1>2, <2>1 DEF HandsOfProcessing, QueueTypes
  <2>8. NewIsNowhere'
    BY <1>4, <2>1, Zenon DEF Nack, NewIsNowhere
  <2>9. PendingIsQueued'
    BY <2>1, <2>4, Zenon DEF PendingIsQueued
  <2> QED BY <2>5, <2>6, <2>7, <2>8, <2>9, Zenon DEF Nack
<1> QED BY <1>3, <1>4, Zenon DEF Nack

\* The answer of a worker whose item is gone: the item was a repeated task's.
LEMMA UnknownQueue ==
    ASSUME QueueInv, NEW w \in Workers, NEW t \in Tasks, AnswerUnknown(w, t)
    PROVE  QueueInv' /\ t \in Repeated
<1> USE QueueAssumption DEF QueueInv
<1>1. hand' = [hand EXCEPT ![w] = NoTask] /\ NoTask \notin Distinct
  BY Zenon DEF AnswerUnknown, LetGo, Distinct
<1>2. t \in Repeated
  BY Zenon DEF AnswerUnknown, Holding, HandsOfProcessing, Distinct
<1>3. HandsOfProcessing'
  BY <1>1, Zenon DEF AnswerUnknown, HandsOfProcessing, QueueTypes
<1>4. QueueTypes'
  BY <1>1, Zenon DEF AnswerUnknown, QueueTypes
<1> QED BY <1>2, <1>3, <1>4, Zenon DEF AnswerUnknown, QueueOfPending, NewIsNowhere, PendingIsQueued

\* Every step keeps the invariant.
LEMMA NextQueue == QueueInv /\ [Next]_vars => QueueInv'
<1> SUFFICES ASSUME QueueInv, [Next]_vars PROVE QueueInv'
  BY Zenon
<1>1. ASSUME NEW w \in Workers, Crash(w) PROVE QueueInv'
  BY <1>1, Zenon DEF Crash, QueueInv, QueueTypes, QueueOfPending, HandsOfProcessing, NewIsNowhere,
              PendingIsQueued
<1>2. CASE UNCHANGED vars
  BY <1>2, Zenon DEF vars, QueueInv, QueueTypes, QueueOfPending, HandsOfProcessing, NewIsNowhere,
              PendingIsQueued
<1>3. ASSUME NEW w \in Workers, WorkerStep(w) PROVE QueueInv'
  BY <1>3, DequeueQueue, RaiseQueue, AckQueue, NackQueue, UnknownQueue, Zenon DEF WorkerStep
<1> QED BY <1>1, <1>2, <1>3, EnqueueQueue, Zenon DEF Next, Idle

\* The invariant holds in every reachable state.
LEMMA AlwaysQueue == Spec => []QueueInv
<1>1. Init => QueueInv
  BY InitQueue, Zenon
<1>2. QueueInv /\ [Next]_vars => QueueInv'
  BY NextQueue, Zenon
<1> QED BY <1>1, <1>2, PTL DEF Spec

-----------------------------------------------------------------------------
\* Whatever happens to ids that are enqueued twice, no task that is enqueued once
\* is in two workers' hands or unknown to the queue while it is held, and its
\* dequeue never raises.
THEOREM OneHolderAlways == Spec => []OneHolderPerTask
<1>1. QueueInv => OneHolderPerTask
  BY Zenon DEF QueueInv, OneHolderPerTask, HandsOfProcessing
<1> QED BY <1>1, AlwaysQueue, PTL

\* No order of enqueue, dequeue, ack and nack leaves a pending item, of any id,
\* without its id in the queue.
THEOREM PendingAlwaysQueued == Spec => []PendingIsQueued
<1>1. QueueInv => PendingIsQueued
  BY Zenon DEF QueueInv
<1> QED BY <1>1, AlwaysQueue, PTL

-----------------------------------------------------------------------------
(* InMemoryTaskQueue with copies.                                          *)

\* The workers that hold an id.
Hands(t) == {w \in Workers : hand[w] = t}

\* An id is queued and in hands at most as often as it was enqueued.
CopiesOf(t) ==
    /\ IsFiniteSet(Hands(t))
    /\ Within(Cardinality(Places(queue, t)), Cardinality(Hands(t)), enqueued[t], EnqueueLimit(t))
    /\ t \in DOMAIN items => Counts(items[t].attempts, Cardinality(Places(queue, t)), enqueued[t])

CopiesInv == \A t \in Tasks : CopiesOf(t)

\* The numbers of an id: its places in the queue, the hands on it and its enqueues.
HandNumbers(t, q, h, e) ==
    /\ q \in Nat /\ h \in Nat /\ e \in Nat
    /\ Cardinality(Places(queue, t)) = q
    /\ IsFiniteSet(Hands(t)) /\ Cardinality(Hands(t)) = h
    /\ enqueued[t] = e
    /\ Within(q, h, e, EnqueueLimit(t))
    /\ t \in DOMAIN items => items[t].attempts \in Nat /\ Counts(items[t].attempts, q, e)

\* Every id has its numbers,
LEMMA HandNumbersOf ==
    ASSUME CountingFacts, QueueTypes, NEW t \in Tasks, CopiesOf(t)
    PROVE  \E q, h, e : HandNumbers(t, q, h, e)
<1>1. queue \in Seq(Tasks) /\ enqueued \in [Tasks -> 0 .. 2]
  BY Zenon DEF QueueTypes
<1>2. enqueued[t] \in Nat
  BY <1>1
<1>3. t \in DOMAIN items => items[t].attempts \in Nat
  BY Zenon DEF QueueTypes
<1>4. Cardinality(Places(queue, t)) \in Nat /\ Cardinality(Hands(t)) \in Nat
  BY <1>1, PlacesNumber, FiniteCount, Zenon DEF CopiesOf
<1>5. HandNumbers(t, Cardinality(Places(queue, t)), Cardinality(Hands(t)), enqueued[t])
  BY <1>2, <1>3, <1>4, Zenon DEF CopiesOf, HandNumbers
<1> QED BY <1>5, Zenon

\* and numbers that fit after a step say what CopiesOf does.
LEMMA CopiesBecome ==
    ASSUME NEW t \in Tasks, NEW q, NEW h, NEW e,
           Cardinality(Places(queue', t)) = q, IsFiniteSet(Hands(t)'), Cardinality(Hands(t)') = h,
           enqueued'[t] = e, Within(q, h, e, EnqueueLimit(t)),
           t \in DOMAIN items' => Counts(items'[t].attempts, q, e)
    PROVE  CopiesOf(t)'
BY Zenon DEF CopiesOf

\* A call that leaves an id no more places and no more hands.
LEMMA FewerHands ==
    ASSUME NEW t \in Tasks, NEW q, NEW h, NEW e, HandNumbers(t, q, h, e),
           NEW q1 \in Nat, NEW h1 \in Nat, q1 <= q, h1 <= h,
           Cardinality(Places(queue', t)) = q1, IsFiniteSet(Hands(t)'), Cardinality(Hands(t)') = h1,
           enqueued'[t] = enqueued[t],
           t \in DOMAIN items' => t \in DOMAIN items /\ items'[t].attempts = items[t].attempts
    PROVE  CopiesOf(t)'
<1>1. q \in Nat /\ h \in Nat /\ e \in Nat /\ enqueued[t] = e /\ Within(q, h, e, EnqueueLimit(t))
  BY Zenon DEF HandNumbers
<1>2. EnqueueLimit(t) \in Nat
  BY Zenon DEF EnqueueLimit
<1>3. Within(q1, h1, e, EnqueueLimit(t)) /\ \A a \in Nat : Counts(a, q, e) => Counts(a, q1, e)
  BY <1>1, <1>2, FewerCopies, Zenon
<1>4. t \in DOMAIN items' => Counts(items'[t].attempts, q1, e)
  BY <1>3, Zenon DEF HandNumbers
<1> QED BY <1>1, <1>3, <1>4, CopiesBecome, Zenon

\* A number is at most itself and at most its successor.
LEMMA AtMost == ASSUME NEW n \in Nat PROVE n <= n /\ n <= n + 1
OBVIOUS

\* A call that touches neither the queue, nor the items, nor a hand.
LEMMA SameCopies ==
    ASSUME UNCHANGED <<queue, items, enqueued, hand>>, NEW t \in Tasks, CopiesOf(t)
    PROVE  CopiesOf(t)'
BY Zenon DEF CopiesOf, Hands

\* A new queue holds no copies.
LEMMA InitCopies ==
    ASSUME CountingFacts PROVE Init => CopiesInv
<1> SUFFICES ASSUME Init, NEW t \in Tasks PROVE CopiesOf(t)
  BY Zenon DEF CopiesInv
<1>1. Places(queue, t) = {}
  BY DEF Init, Places
<1>2. Hands(t) = {}
  BY QueueAssumption, Zenon DEF Init, Hands
<1>3. enqueued[t] = 0 /\ t \notin DOMAIN items
  BY Zenon DEF Init
<1>4. IsFiniteSet({}) /\ Cardinality({}) = 0
  BY NoneCount, Zenon
<1>5. Within(0, 0, 0, EnqueueLimit(t))
  BY DEF Within, EnqueueLimit
<1> QED BY <1>1, <1>2, <1>3, <1>4, <1>5, Zenon DEF CopiesOf

\* An id enqueued once more, its attempts forgotten.
LEMMA NewCopy ==
    ASSUME NEW q \in Nat, NEW h \in Nat, NEW e \in Nat, NEW limit \in Nat,
           Within(q, h, e, limit), e < limit
    PROVE  Within(q + 1, h, e + 1, limit) /\ Counts(0, q + 1, e + 1)
BY QueueAssumption DEF Within, Counts

\* enqueue: the id appended gets a place, and its item starts afresh.
LEMMA EnqueueKeepsCopies ==
    ASSUME CountingFacts, QueueTypes, NEW t \in Tasks, CopiesOf(t), NEW u \in Tasks, Enqueue(u)
    PROVE  CopiesOf(t)'
<1>1. PICK q, h, e : HandNumbers(t, q, h, e)
  BY HandNumbersOf, Zenon
<1>2. /\ enqueued[u] < EnqueueLimit(u) /\ enqueued' = [enqueued EXCEPT ![u] = @ + 1]
      /\ items' = [x \in DOMAIN items \cup {u} |->
                     IF x = u THEN [status |-> "pending", attempts |-> 0] ELSE items[x]]
      /\ queue' = Append(queue, u) /\ hand' = hand
  BY Zenon DEF Enqueue
<1>3. /\ q \in Nat /\ h \in Nat /\ e \in Nat /\ enqueued[t] = e /\ Within(q, h, e, EnqueueLimit(t))
      /\ Cardinality(Places(queue, t)) = q
  BY <1>1, Zenon DEF HandNumbers
<1>4. IsFiniteSet(Hands(t)') /\ Cardinality(Hands(t)') = h
  BY <1>1, <1>2, Zenon DEF HandNumbers, Hands
<1>5. queue \in Seq(Tasks) /\ enqueued \in [Tasks -> 0 .. 2]
  BY Zenon DEF QueueTypes
<1>6. CASE t = u
  <2>1. Cardinality(Places(queue', t)) = q + 1
    BY <1>2, <1>3, <1>5, <1>6, PlacesAppend, Zenon
  <2>2. enqueued'[t] = e + 1
    BY <1>2, <1>3, <1>5, <1>6, Zenon
  <2>3. items'[t] = [status |-> "pending", attempts |-> 0]
    BY <1>2, <1>6, Zenon
  <2>4. items'[t].attempts = 0
    BY <2>3, ItemAttempts, Zenon
  <2>5. EnqueueLimit(t) \in Nat
    BY Zenon DEF EnqueueLimit
  <2>6. Within(q + 1, h, e + 1, EnqueueLimit(t)) /\ Counts(0, q + 1, e + 1)
    BY <1>2, <1>3, <1>6, <2>5, NewCopy, Zenon
  <2> QED BY <1>4, <2>1, <2>2, <2>4, <2>6, CopiesBecome, Zenon
<1>7. CASE t # u
  <2>1. Cardinality(Places(queue', t)) = q
    BY <1>2, <1>3, <1>5, <1>7, PlacesAppend, Zenon
  <2>2. enqueued'[t] = enqueued[t]
    BY <1>2, <1>5, <1>7, Zenon
  <2>3. t \in DOMAIN items' => t \in DOMAIN items /\ items'[t].attempts = items[t].attempts
    BY <1>2, <1>7, Zenon
  <2>4. q <= q /\ h <= h
    BY <1>3, AtMost, Zenon
  <2> QED BY <1>1, <1>3, <1>4, <2>1, <2>2, <2>3, <2>4, FewerHands, Zenon
<1> QED BY <1>6, <1>7, Zenon

\* A copy taken from the queue into a hand, and an attempt counted for it.
LEMMA TakenCopy ==
    ASSUME NEW q \in Nat, NEW h \in Nat, NEW e \in Nat, NEW limit \in Nat, NEW a \in Nat,
           limit <= 2, Within(q + 1, h, e, limit), Counts(a, q + 1, e)
    PROVE  Within(q, h + 1, e, limit) /\ Counts(a + 1, q, e)
BY QueueAssumption DEF Within, Counts

\* dequeue: the id at the head moves from the queue to a hand.
LEMMA DequeueKeepsCopies ==
    ASSUME CountingFacts, QueueTypes, NEW t \in Tasks, CopiesOf(t), NEW w \in Workers, Dequeue(w)
    PROVE  CopiesOf(t)'
<1>1. PICK q, h, e : HandNumbers(t, q, h, e)
  BY HandNumbersOf, Zenon
<1>2. PICK u : u = Head(queue)
  BY Zenon
<1>3. /\ queue # <<>> /\ queue' = Tail(queue) /\ hand[w] = NoTask /\ hand' = [hand EXCEPT ![w] = u]
      /\ u \in DOMAIN items /\ enqueued' = enqueued
      /\ items' = [items EXCEPT ![u] = [status |-> "processing", attempts |-> @.attempts + 1]]
  BY <1>2, Zenon DEF Dequeue, Free
<1>4. queue \in Seq(Tasks) /\ hand \in [Workers -> Tasks \cup {NoTask}] /\ DOMAIN items \subseteq Tasks
  BY Zenon DEF QueueTypes
<1>5. /\ q \in Nat /\ h \in Nat /\ e \in Nat /\ enqueued[t] = e /\ Within(q, h, e, EnqueueLimit(t))
      /\ Cardinality(Places(queue, t)) = q /\ IsFiniteSet(Hands(t)) /\ Cardinality(Hands(t)) = h
  BY <1>1, Zenon DEF HandNumbers
<1>6. PICK q1 \in Nat : /\ Cardinality(Places(queue', t)) = q1
                        /\ u = t => q = q1 + 1
                        /\ u # t => q = q1
  <2>1. Tail(queue) \in Seq(Tasks)
    BY <1>3, <1>4
  <2>2. Cardinality(Places(Tail(queue), t)) \in Nat
    BY <2>1, PlacesNumber, Zenon
  <2>3. /\ Head(queue) = t => q = Cardinality(Places(Tail(queue), t)) + 1
        /\ Head(queue) # t => q = Cardinality(Places(Tail(queue), t))
    BY <1>3, <1>4, <1>5, PlacesTail, Zenon
  <2> QED BY <1>2, <1>3, <2>2, <2>3, Zenon
<1>7. /\ \A v : v # w => (v \in Hands(t) <=> v \in Hands(t)')
      /\ w \notin Hands(t) /\ (w \in Hands(t)' <=> u = t)
  <2>1. t # NoTask
    BY QueueAssumption, Zenon
  <2> QED BY <1>3, <1>4, <2>1, Zenon DEF Hands
<1>8. /\ IsFiniteSet(Hands(t)')
      /\ u = t => Cardinality(Hands(t)') = h + 1
      /\ u # t => Cardinality(Hands(t)') = h
  <2>1. IsFiniteSet(Hands(t)) /\ Cardinality(Hands(t)) = h
    BY <1>5, Zenon
  <2> QED BY <1>7, <2>1, CountMoves
<1>9. CASE u = t
  <2>1. PICK a \in Nat : a = items[t].attempts /\ Counts(a, q, e)
    BY <1>1, <1>3, <1>9, Zenon DEF HandNumbers
  <2>2. items'[t] = [status |-> "processing", attempts |-> a + 1]
    BY <1>3, <1>9, <2>1, Zenon
  <2>3. items'[t].attempts = a + 1
    BY <2>2, ItemAttempts, Zenon
  <2>4. EnqueueLimit(t) \in Nat /\ EnqueueLimit(t) <= 2
    BY DEF EnqueueLimit
  <2>5. Within(q1 + 1, h, e, EnqueueLimit(t)) /\ Counts(a, q1 + 1, e)
    BY <1>5, <1>6, <1>9, <2>1, Zenon
  <2>6. Within(q1, h + 1, e, EnqueueLimit(t)) /\ Counts(a + 1, q1, e)
    BY <1>5, <1>6, <2>4, <2>5, TakenCopy, Zenon
  <2> QED BY <1>3, <1>5, <1>6, <1>8, <1>9, <2>3, <2>6, CopiesBecome, Zenon
<1>10. CASE u # t
  <2>1. t \in DOMAIN items' => t \in DOMAIN items /\ items'[t].attempts = items[t].attempts
    BY <1>3, <1>10, Zenon
  <2>2. q <= q /\ h <= h
    BY <1>5, AtMost, Zenon
  <2> QED BY <1>1, <1>3, <1>5, <1>6, <1>8, <1>10, <2>1, <2>2, FewerHands, Zenon
<1> QED BY <1>9, <1>10, Zenon

\* dequeue of an id without an item: the id is lost from the queue.
LEMMA DequeueRaisesKeepsCopies ==
    ASSUME CountingFacts, QueueTypes, NEW t \in Tasks, CopiesOf(t), NEW w \in Workers, DequeueRaises(w)
    PROVE  CopiesOf(t)'
<1>1. PICK q, h, e : HandNumbers(t, q, h, e)
  BY HandNumbersOf, Zenon
<1>2. queue # <<>> /\ queue' = Tail(queue) /\ enqueued' = enqueued /\ items' = items /\ hand' = hand
  BY Zenon DEF DequeueRaises
<1>3. queue \in Seq(Tasks)
  BY Zenon DEF QueueTypes
<1>4. q \in Nat /\ h \in Nat /\ Cardinality(Places(queue, t)) = q
  BY <1>1, Zenon DEF HandNumbers
<1>5. IsFiniteSet(Hands(t)') /\ Cardinality(Hands(t)') = h
  BY <1>1, <1>2, Zenon DEF HandNumbers, Hands
<1>6. PICK q1 \in Nat : Cardinality(Places(queue', t)) = q1 /\ q1 <= q
  <2>1. Tail(queue) \in Seq(Tasks)
    BY <1>2, <1>3
  <2>2. PICK q1 \in Nat : Cardinality(Places(Tail(queue), t)) = q1
    BY <2>1, PlacesNumber, Zenon
  <2>3. q = q1 + 1 \/ q = q1
    BY <1>2, <1>3, <1>4, <2>2, PlacesTail, Zenon
  <2>4. q1 <= q
    BY <2>3, AtMost, Zenon
  <2> QED BY <1>2, <2>2, <2>4, Zenon
<1>7. h <= h
  BY <1>4, AtMost, Zenon
<1> QED BY <1>1, <1>2, <1>4, <1>5, <1>6, <1>7, FewerHands, Zenon

\* The hand of an ack or a nack leaves its id.
LEMMA HandLeaves ==
    ASSUME CountingFacts, QueueTypes, NEW t \in Tasks, NEW w \in Workers, NEW u \in Tasks,
           Holding(w, u), LetGo(w), NEW q, NEW h, NEW e, HandNumbers(t, q, h, e)
    PROVE  \E h1 \in Nat : /\ IsFiniteSet(Hands(t)') /\ Cardinality(Hands(t)') = h1 /\ h1 <= h
                           /\ u = t => h1 + 1 = h
<1>1. IsFiniteSet(Hands(t)) /\ Cardinality(Hands(t)) = h /\ h \in Nat
  BY Zenon DEF HandNumbers
<1>2. hand[w] = u /\ hand' = [hand EXCEPT ![w] = NoTask] /\ hand \in [Workers -> Tasks \cup {NoTask}]
  BY Zenon DEF Holding, LetGo, QueueTypes
<1>3. t # NoTask
  BY QueueAssumption, Zenon
<1>4. /\ \A v : v # w => (v \in Hands(t) <=> v \in Hands(t)')
      /\ w \notin Hands(t)' /\ (w \in Hands(t) <=> u = t)
  BY <1>2, <1>3, Zenon DEF Hands
<1>5. PICK h1 \in Nat : /\ IsFiniteSet(Hands(t)') /\ Cardinality(Hands(t)') = h1
                        /\ u = t => h = h1 + 1
                        /\ u # t => h1 = h
  BY <1>1, <1>4, CountMoves
<1>6. h1 <= h
  BY <1>5, AtMost, Zenon
<1> QED BY <1>5, <1>6, Zenon

\* ack, and an answer for an id without an item: a hand is freed.
LEMMA AnswerKeepsCopies ==
    ASSUME CountingFacts, QueueTypes, NEW t \in Tasks, CopiesOf(t),
           NEW w \in Workers, NEW u \in Tasks, Ack(w, u) \/ AnswerUnknown(w, u)
    PROVE  CopiesOf(t)'
<1>1. PICK q, h, e : HandNumbers(t, q, h, e)
  BY HandNumbersOf, Zenon
<1>2. /\ Holding(w, u) /\ LetGo(w) /\ queue' = queue /\ enqueued' = enqueued
      /\ t \in DOMAIN items' => t \in DOMAIN items /\ items'[t].attempts = items[t].attempts
  BY Zenon DEF Ack, AnswerUnknown, Without
<1>3. PICK h1 \in Nat : IsFiniteSet(Hands(t)') /\ Cardinality(Hands(t)') = h1 /\ h1 <= h
  BY <1>1, <1>2, HandLeaves, Zenon
<1>4. q \in Nat /\ Cardinality(Places(queue, t)) = q
  BY <1>1, Zenon DEF HandNumbers
<1>5. q <= q
  BY <1>4, AtMost, Zenon
<1> QED BY <1>1, <1>2, <1>3, <1>4, <1>5, FewerHands, Zenon

\* nack: the item is deleted, or its id goes back to the queue with attempts left.
LEMMA NackKeepsCopies ==
    ASSUME CountingFacts, QueueTypes, NEW t \in Tasks, CopiesOf(t),
           NEW w \in Workers, NEW u \in Tasks, Nack(w, u)
    PROVE  CopiesOf(t)'
<1>1. PICK q, h, e : HandNumbers(t, q, h, e)
  BY HandNumbersOf, Zenon
<1>2. Holding(w, u) /\ LetGo(w) /\ enqueued' = enqueued /\ u \in DOMAIN items
  BY Zenon DEF Nack
<1>3. PICK h1 \in Nat : /\ IsFiniteSet(Hands(t)') /\ Cardinality(Hands(t)') = h1 /\ h1 <= h
                        /\ u = t => h1 + 1 = h
  BY <1>1, <1>2, HandLeaves, Zenon
<1>4. /\ q \in Nat /\ h \in Nat /\ e \in Nat /\ enqueued[t] = e /\ Within(q, h, e, EnqueueLimit(t))
      /\ Cardinality(Places(queue, t)) = q
  BY <1>1, Zenon DEF HandNumbers
<1>5. q <= q
  BY <1>4, AtMost, Zenon
<1>6. CASE UNCHANGED queue /\ items' = Without(items, u)
  <2>1. t \in DOMAIN items' => t \in DOMAIN items /\ items'[t].attempts = items[t].attempts
    BY <1>6, Zenon DEF Without
  <2> QED BY <1>1, <1>2, <1>3, <1>4, <1>5, <1>6, <2>1, FewerHands, Zenon
<1>7. CASE items[u].attempts < MaxRetries /\ items' = [items EXCEPT ![u].status = "pending"]
           /\ queue' = Append(queue, u)
  <2>1. /\ u = t => Cardinality(Places(queue', t)) = q + 1
        /\ u # t => Cardinality(Places(queue', t)) = q
    BY <1>4, <1>7, PlacesAppend, Zenon DEF QueueTypes
  <2>2. t \in DOMAIN items' => t \in DOMAIN items /\ items'[t].attempts = items[t].attempts
    BY <1>7, Zenon DEF QueueTypes
  <2>3. CASE u = t
    <3>1. PICK a \in Nat : a = items[t].attempts
      BY <1>1, <1>2, <2>3, Zenon DEF HandNumbers
    <3>2. EnqueueLimit(t) \in Nat
      BY Zenon DEF EnqueueLimit
    <3>3. /\ Within(q + 1, h1, e, EnqueueLimit(t))
          /\ \A x \in Nat : x < MaxRetries => Counts(x, q + 1, e)
      BY <1>3, <1>4, <2>3, <3>2, CopyMoves, Zenon
    <3>4. t \in DOMAIN items' => Counts(items'[t].attempts, q + 1, e)
      BY <1>7, <2>2, <2>3, <3>1, <3>3, Zenon
    <3> QED BY <1>2, <1>3, <1>4, <2>1, <2>3, <3>3, <3>4, CopiesBecome, Zenon
  <2>4. CASE u # t
    BY <1>1, <1>2, <1>3, <1>4, <1>5, <2>1, <2>2, <2>4, FewerHands, Zenon
  <2> QED BY <2>3, <2>4, Zenon
<1> QED BY <1>6, <1>7, Zenon DEF Nack

\* Every call keeps the copies of every id within its enqueues.
LEMMA NextCopies ==
    ASSUME CountingFacts PROVE QueueTypes /\ CopiesInv /\ [Next]_vars => CopiesInv'
<1> SUFFICES ASSUME QueueTypes, CopiesInv, [Next]_vars, NEW t \in Tasks PROVE CopiesOf(t)'
  BY Zenon DEF CopiesInv
<1>1. CopiesOf(t)
  BY Zenon DEF CopiesInv
<1>2. ASSUME NEW w \in Workers, WorkerStep(w) PROVE CopiesOf(t)'
  BY <1>1, <1>2, DequeueKeepsCopies, DequeueRaisesKeepsCopies, AnswerKeepsCopies, NackKeepsCopies,
     Zenon DEF WorkerStep
<1>3. ASSUME NEW w \in Workers, Crash(w) PROVE CopiesOf(t)'
  <2>1. UNCHANGED <<queue, items, enqueued, hand>>
    BY <1>3, Zenon DEF Crash
  <2> QED BY <1>1, <2>1, SameCopies, Zenon
<1>4. CASE Idle \/ UNCHANGED vars
  <2>1. UNCHANGED <<queue, items, enqueued, hand>>
    BY <1>4, Zenon DEF Idle, vars
  <2> QED BY <1>1, <2>1, SameCopies, Zenon
<1> QED BY <1>1, <1>2, <1>3, <1>4, EnqueueKeepsCopies, Zenon DEF Next

\* Attempts within what the copies of an id allow are within its limit.
LEMMA CountsWithin ==
    ASSUME NEW t \in Tasks, NEW a \in Nat, NEW q \in Nat, NEW e \in Nat,
           Counts(a, q, e), e <= EnqueueLimit(t)
    PROVE  a \in 0 .. AttemptLimit(t)
BY QueueAssumption DEF Counts, EnqueueLimit, AttemptLimit

\* The in-memory queue's types, from its invariant.
LEMMA QueueTyped ==
    ASSUME CountingFacts PROVE QueueInv /\ CopiesInv => TypeOK
<1> SUFFICES ASSUME QueueInv, CopiesInv PROVE TypeOK
  BY Zenon
<1>1. QueueTypes /\ raised \subseteq Tasks
  BY QueueAssumption, Zenon DEF QueueInv
<1>2. ASSUME NEW t \in DOMAIN items
      PROVE  items[t] \in [status : {"pending", "processing"}, attempts : 0 .. AttemptLimit(t)]
  <2>1. t \in Tasks /\ items[t] \in [status : {"pending", "processing"}, attempts : Nat]
    BY <1>1, <1>2, Zenon DEF QueueTypes
  <2> DEFINE q == Cardinality(Places(queue, t))
  <2>2. /\ Within(q, Cardinality(Hands(t)), enqueued[t], EnqueueLimit(t))
        /\ Counts(items[t].attempts, q, enqueued[t])
    BY <1>2, <2>1, Zenon DEF CopiesInv, CopiesOf
  <2>3. enqueued[t] <= EnqueueLimit(t)
    BY <2>2, Zenon DEF Within
  <2>4. q \in Nat
    BY <1>1, PlacesNumber, Zenon DEF QueueTypes
  <2>5. enqueued[t] \in Nat /\ items[t].attempts \in Nat
    BY <1>1, <2>1 DEF QueueTypes
  <2> HIDE DEF q
  <2>6. items[t].attempts \in 0 .. AttemptLimit(t)
    BY <2>1, <2>2, <2>3, <2>4, <2>5, CountsWithin, Zenon
  <2> QED BY <2>1, <2>6, Zenon
<1> QED BY <1>1, <1>2, Zenon DEF QueueTypes, TypeOK

-----------------------------------------------------------------------------
\* What the refinements need of OfDistinct: it follows the list it is a part of, through
\* an RPUSH or append and an LPOP or popleft.  DeliveryProofs shows it.
FollowsList ==
    /\ OfDistinct(<<>>) = <<>>
    /\ \A ids \in Seq(Tasks) : \A t \in Tasks :
          OfDistinct(Append(ids, t)) =
              IF t \in Repeated THEN OfDistinct(ids) ELSE Append(OfDistinct(ids), t)
    /\ \A ids \in Seq(Tasks) : ids # <<>> =>
          /\ Head(ids) \in Repeated => OfDistinct(Tail(ids)) = OfDistinct(ids)
          /\ Head(ids) \notin Repeated =>
                /\ OfDistinct(ids) # <<>>
                /\ Head(OfDistinct(ids)) = Head(ids)
                /\ OfDistinct(Tail(ids)) = Tail(OfDistinct(ids))
    /\ \A ids \in Seq(Tasks) : \A j \in DOMAIN OfDistinct(ids) :
          \E k \in DOMAIN ids : ids[k] \notin Repeated /\ OfDistinct(ids)[j] = ids[k]

\* A distinct id at the end of the list is at the end of its part.
LEMMA ListAppend ==
    ASSUME FollowsList, NEW ids \in Seq(Tasks), NEW t \in Tasks
    PROVE  OfDistinct(Append(ids, t)) =
              IF t \in Repeated THEN OfDistinct(ids) ELSE Append(OfDistinct(ids), t)
BY Zenon DEF FollowsList

\* A distinct id at the front of the list is at the front of its part.
LEMMA ListTail ==
    ASSUME FollowsList, NEW ids \in Seq(Tasks), ids # <<>>
    PROVE  /\ Head(ids) \in Repeated => OfDistinct(Tail(ids)) = OfDistinct(ids)
           /\ Head(ids) \notin Repeated =>
                 /\ OfDistinct(ids) # <<>>
                 /\ Head(OfDistinct(ids)) = Head(ids)
                 /\ OfDistinct(Tail(ids)) = Tail(OfDistinct(ids))
BY Zenon DEF FollowsList

\* The part holds ids of the list only.
LEMMA ListFrom ==
    ASSUME FollowsList, NEW ids \in Seq(Tasks), NEW j \in DOMAIN OfDistinct(ids)
    PROVE  \E k \in DOMAIN ids : ids[k] \notin Repeated /\ OfDistinct(ids)[j] = ids[k]
BY Zenon DEF FollowsList

-----------------------------------------------------------------------------
\* attempt_count as the delivery service counts it.
AttemptsOf == [t \in Distinct |-> IF t \in DOMAIN items THEN items[t].attempts ELSE 0]

HeldNow == Processing \ Repeated

DoneNow == acked \ Repeated

DeadNow == DeadLetters \ Repeated

\* An empty queue is an empty delivery service.
LEMMA InitDelivery == FollowsList /\ Init => Delivery!DInit
<1> SUFFICES ASSUME FollowsList, Init PROVE Delivery!DInit
  BY Zenon
<1>1. DOMAIN items = {} /\ DOMAIN deadLetter = {}
  BY DEF Init
<1>2. Processing = {} /\ DeadLetters = {} /\ acked = {}
  BY <1>1, Zenon DEF Init, Processing, DeadLetters
<1>3. OfDistinct(queue) = <<>>
  BY Zenon DEF Init, FollowsList
<1> QED BY <1>1, <1>2, <1>3, Zenon DEF Delivery!DInit

\* enqueue of a distinct id is a submission; the service does not see the others.
LEMMA EnqueueSubmits ==
    ASSUME FollowsList, QueueInv, NEW t \in Tasks, Enqueue(t)
    PROVE  (t \in Distinct /\ Delivery!Submit(t)) \/ UNCHANGED Delivery!dvars
<1>1. /\ DOMAIN items' = DOMAIN items \cup {t}
      /\ items'[t] = [status |-> "pending", attempts |-> 0]
      /\ \A x \in DOMAIN items : x # t => items'[x] = items[x]
  BY Zenon DEF Enqueue
<1>2. queue \in Seq(Tasks) /\ queue' = Append(queue, t)
  BY Zenon DEF Enqueue, QueueInv, QueueTypes
<1>3. DoneNow' = DoneNow /\ DeadNow' = DeadNow
  BY Zenon DEF Enqueue, DoneNow, DeadNow, DeadLetters
<1>4. CASE t \in Repeated
  <2>1. HeldNow' = HeldNow
    BY <1>1, <1>4, Zenon DEF HeldNow, Processing
  <2>2. AttemptsOf' = AttemptsOf
    BY <1>1, <1>4, Zenon DEF AttemptsOf, Distinct
  <2>3. OfDistinct(queue)' = OfDistinct(queue)
    BY <1>2, <1>4, ListAppend, Zenon
  <2> QED BY <1>3, <2>1, <2>2, <2>3, Zenon DEF Delivery!dvars, HeldNow, DoneNow, DeadNow, AttemptsOf
<1>5. CASE t \in Distinct
  <2>1. enqueued[t] \in 0 .. 2 /\ EnqueueLimit(t) = 1
    BY <1>5, Zenon DEF EnqueueLimit, QueueInv, QueueTypes, Distinct
  <2>2. enqueued[t] = 0
    BY <2>1 DEF Enqueue
  <2>3. t \notin DOMAIN items /\ t \notin acked /\ t \notin DeadLetters
    BY <1>5, <2>2, Zenon DEF QueueInv, NewIsNowhere, DeadLetters
  <2>4. HeldNow' = HeldNow /\ t \notin HeldNow
    BY <1>1, <2>3 DEF HeldNow, Processing
  <2>5. AttemptsOf' = AttemptsOf
    BY <1>1, <2>3 DEF AttemptsOf
  <2>6. OfDistinct(queue)' = Append(OfDistinct(queue), t)
    BY <1>2, <1>5, ListAppend, Zenon DEF Distinct
  <2>7. t \notin Delivery!WaitingSet
    <3>1. \A k \in DOMAIN queue : queue[k] # t
      BY <1>5, <2>3, Zenon DEF QueueInv, QueueOfPending
    <3> QED BY <1>2, <3>1, ListFrom DEF Delivery!WaitingSet
  <2> QED BY <1>3, <1>5, <2>3, <2>4, <2>5, <2>6, <2>7
          DEF Delivery!Submit, HeldNow, DoneNow, DeadNow, AttemptsOf
<1> QED BY <1>4, <1>5, Zenon DEF Distinct

\* dequeue hands out the oldest task, if it is a distinct one.
LEMMA DequeueTakes ==
    ASSUME FollowsList, QueueInv, NEW w \in Workers, Dequeue(w)
    PROVE  Delivery!Take \/ UNCHANGED Delivery!dvars
<1> DEFINE t == Head(queue)
<1>1. t \in Tasks /\ t \in DOMAIN items /\ queue \in Seq(Tasks) /\ queue # <<>>
  BY Zenon DEF Dequeue, QueueInv, QueueTypes
<1>2. /\ DOMAIN items' = DOMAIN items
      /\ items'[t] = [status |-> "processing", attempts |-> items[t].attempts + 1]
      /\ \A x \in DOMAIN items : x # t => items'[x] = items[x]
  BY <1>1, Zenon DEF Dequeue
<1>3. DoneNow' = DoneNow /\ DeadNow' = DeadNow /\ queue' = Tail(queue)
  BY Zenon DEF Dequeue, DoneNow, DeadNow, DeadLetters
<1>4. CASE t \in Repeated
  <2>1. HeldNow' = HeldNow
    BY <1>2, <1>4, Zenon DEF HeldNow, Processing
  <2>2. AttemptsOf' = AttemptsOf
    BY <1>2, <1>4, Zenon DEF AttemptsOf, Distinct
  <2>3. OfDistinct(queue)' = OfDistinct(queue)
    BY <1>1, <1>3, <1>4, ListTail, Zenon
  <2> QED BY <1>3, <2>1, <2>2, <2>3, Zenon DEF Delivery!dvars, HeldNow, DoneNow, DeadNow, AttemptsOf
<1>5. CASE t \in Distinct
  <2>1. HeldNow' = HeldNow \cup {t}
    BY <1>1, <1>2, <1>5 DEF HeldNow, Processing, Distinct
  <2>2. AttemptsOf' = [AttemptsOf EXCEPT ![t] = @ + 1]
    <3> HIDE DEF t
    <3>1. AttemptsOf[t] = items[t].attempts
      BY <1>1, <1>5, Zenon DEF AttemptsOf
    <3>2. \A x \in Distinct : AttemptsOf'[x] = IF x = t THEN AttemptsOf[t] + 1 ELSE AttemptsOf[x]
      BY <1>1, <1>2, <3>1 DEF AttemptsOf
    <3> QED BY <3>2, Zenon DEF AttemptsOf
  <2>3. /\ OfDistinct(queue) # <<>>
        /\ Head(OfDistinct(queue)) = t
        /\ OfDistinct(queue)' = Tail(OfDistinct(queue))
    BY <1>1, <1>3, <1>5, ListTail, Zenon DEF Distinct
  <2> QED BY <1>3, <2>1, <2>2, <2>3, Zenon DEF Delivery!Take, HeldNow, DoneNow, DeadNow, AttemptsOf
<1> QED BY <1>1, <1>4, <1>5, Zenon DEF Distinct

\* A dequeue that raises has popped an id the service does not see.
LEMMA RaiseStutters ==
    ASSUME FollowsList, QueueInv, NEW w \in Workers, DequeueRaises(w)
    PROVE  UNCHANGED Delivery!dvars
<1>1. queue \in Seq(Tasks) /\ queue # <<>> /\ Head(queue) = queue[1] /\ 1 \in DOMAIN queue
  BY DEF DequeueRaises, QueueInv, QueueTypes
<1>2. Head(queue) \in Repeated
  BY <1>1 DEF DequeueRaises, QueueInv, QueueTypes, QueueOfPending, Distinct
<1>3. OfDistinct(queue)' = OfDistinct(queue)
  BY <1>1, <1>2, ListTail, Zenon DEF DequeueRaises
<1> QED BY <1>3, Zenon DEF DequeueRaises, Delivery!dvars, Processing, DeadLetters

\* ack acknowledges the task in hand.
LEMMA AckAcknowledges ==
    ASSUME QueueInv, NEW w \in Workers, NEW t \in Tasks, Ack(w, t)
    PROVE  (t \in Distinct /\ Delivery!Acknowledge(t)) \/ UNCHANGED Delivery!dvars
<1>1. /\ DOMAIN items' = DOMAIN items \ {t}
      /\ \A x \in DOMAIN items \ {t} : items'[x] = items[x]
  BY Zenon DEF Ack, Without
<1>2. DeadNow' = DeadNow /\ acked' = acked \cup {t} /\ queue' = queue
  BY Zenon DEF Ack, DeadNow, DeadLetters
<1>3. CASE t \in Repeated
  <2>1. HeldNow' = HeldNow
    BY <1>1, <1>3, Zenon DEF HeldNow, Processing
  <2>2. AttemptsOf' = AttemptsOf
    BY <1>1, <1>3, Zenon DEF AttemptsOf, Distinct
  <2>3. DoneNow' = DoneNow
    BY <1>2, <1>3, Zenon DEF DoneNow
  <2> QED BY <1>2, <2>1, <2>2, <2>3, Zenon DEF Delivery!dvars, HeldNow, DoneNow, DeadNow, AttemptsOf
<1>4. CASE t \in Distinct
  <2>1. t \in HeldNow
    BY <1>4, Zenon DEF Ack, Holding, QueueInv, HandsOfProcessing, HeldNow, Processing, Distinct
  <2>2. HeldNow' = HeldNow \ {t}
    BY <1>1, Zenon DEF HeldNow, Processing
  <2>3. AttemptsOf' = [AttemptsOf EXCEPT ![t] = 0]
    BY <1>1, <1>4, Zenon DEF AttemptsOf
  <2>4. DoneNow' = DoneNow \cup {t}
    BY <1>2, <1>4, Zenon DEF DoneNow, Distinct
  <2> QED BY <1>2, <1>4, <2>1, <2>2, <2>3, <2>4
          DEF Delivery!Acknowledge, HeldNow, DoneNow, DeadNow, AttemptsOf
<1> QED BY <1>3, <1>4, Zenon DEF Distinct

\* nack is a retry while attempts are left, and a burial afterwards.
LEMMA NackRetriesOrBuries ==
    ASSUME FollowsList, QueueInv, NEW w \in Workers, NEW t \in Tasks, Nack(w, t)
    PROVE  \/ t \in Distinct /\ (Delivery!Retry(t) \/ Delivery!Bury(t))
           \/ UNCHANGED Delivery!dvars
<1>1. t \in DOMAIN items /\ DoneNow' = DoneNow /\ queue \in Seq(Tasks)
  BY Zenon DEF Nack, DoneNow, QueueInv, QueueTypes
<1>2. t \in Distinct => t \in HeldNow /\ AttemptsOf[t] = items[t].attempts
  BY <1>1, Zenon DEF Nack, Holding, QueueInv, HandsOfProcessing, HeldNow, Processing, AttemptsOf, Distinct
<1>3. CASE /\ items[t].attempts >= MaxRetries
           /\ items' = Without(items, t)
           /\ deadLetter' = Append(deadLetter, t)
           /\ UNCHANGED queue
  <2>1. /\ DOMAIN items' = DOMAIN items \ {t}
        /\ \A x \in DOMAIN items \ {t} : items'[x] = items[x]
    BY <1>3, Zenon DEF Without
  <2>2. DeadLetters' = DeadLetters \cup {t}
    <3>1. /\ deadLetter'[Len(deadLetter) + 1] = t
          /\ \A k \in DOMAIN deadLetter : deadLetter'[k] = deadLetter[k]
          /\ DOMAIN deadLetter' = DOMAIN deadLetter \cup {Len(deadLetter) + 1}
      BY <1>3 DEF QueueInv, QueueTypes
    <3> QED BY <3>1 DEF DeadLetters
  <2>3. CASE t \in Repeated
    <3>1. HeldNow' = HeldNow
      BY <2>1, <2>3, Zenon DEF HeldNow, Processing
    <3>2. AttemptsOf' = AttemptsOf
      BY <2>1, <2>3, Zenon DEF AttemptsOf, Distinct
    <3>3. DeadNow' = DeadNow
      BY <2>2, <2>3, Zenon DEF DeadNow
    <3> QED BY <1>1, <1>3, <3>1, <3>2, <3>3, Zenon DEF Delivery!dvars, HeldNow, DoneNow, DeadNow, AttemptsOf
  <2>4. CASE t \in Distinct
    <3>1. HeldNow' = HeldNow \ {t}
      BY <2>1, Zenon DEF HeldNow, Processing
    <3>2. AttemptsOf' = [AttemptsOf EXCEPT ![t] = 0]
      BY <2>1, <2>4, Zenon DEF AttemptsOf
    <3>3. DeadNow' = DeadNow \cup {t}
      BY <2>2, <2>4 DEF DeadNow, Distinct
    <3> QED BY <1>1, <1>2, <1>3, <2>4, <3>1, <3>2, <3>3
            DEF Delivery!Bury, HeldNow, DoneNow, DeadNow, AttemptsOf
  <2> QED BY <2>3, <2>4, Zenon DEF Distinct
<1>4. CASE /\ items[t].attempts < MaxRetries
           /\ items' = [items EXCEPT ![t].status = "pending"]
           /\ queue' = Append(queue, t)
           /\ UNCHANGED deadLetter
  <2>1. /\ DOMAIN items' = DOMAIN items
        /\ items'[t] = [items[t] EXCEPT !.status = "pending"]
        /\ \A x \in DOMAIN items : x # t => items'[x] = items[x]
    BY <1>1, <1>4, Zenon
  <2>2. items[t] \in [status : {"pending", "processing"}, attempts : Nat]
    BY <1>1, Zenon DEF QueueInv, QueueTypes
  <2>3. items'[t].status = "pending" /\ items'[t].attempts = items[t].attempts
    BY <2>1, <2>2, Zenon
  <2>4. HeldNow' = HeldNow \ {t}
    BY <1>1, <2>1, <2>3, Zenon DEF HeldNow, Processing
  <2>5. AttemptsOf' = AttemptsOf
    BY <1>1, <2>1, <2>3, Zenon DEF AttemptsOf
  <2>6. DeadNow' = DeadNow
    BY <1>4, Zenon DEF DeadNow, DeadLetters
  <2>7. CASE t \in Repeated
    <3>1. HeldNow' = HeldNow
      BY <2>4, <2>7, Zenon DEF HeldNow
    <3>2. OfDistinct(queue)' = OfDistinct(queue)
      BY <1>1, <1>4, <2>7, ListAppend, Zenon
    <3> QED BY <1>1, <2>5, <2>6, <3>1, <3>2, Zenon DEF Delivery!dvars, HeldNow, DoneNow, DeadNow, AttemptsOf
  <2>8. CASE t \in Distinct
    <3>1. OfDistinct(queue)' = Append(OfDistinct(queue), t)
      BY <1>1, <1>4, <2>8, ListAppend, Zenon DEF Distinct
    <3> QED BY <1>1, <1>2, <1>4, <2>4, <2>5, <2>6, <2>8, <3>1
            DEF Delivery!Retry, HeldNow, DoneNow, DeadNow, AttemptsOf
  <2> QED BY <2>7, <2>8, Zenon DEF Distinct
<1> QED BY <1>3, <1>4, Zenon DEF Nack

\* Every step is a step of the delivery service, or leaves it as it is.
LEMMA NextDelivery ==
    FollowsList /\ QueueInv /\ [Next]_vars => [Delivery!DNext]_Delivery!dvars
<1> SUFFICES ASSUME FollowsList, QueueInv, [Next]_vars PROVE [Delivery!DNext]_Delivery!dvars
  BY Zenon
<1>1. ASSUME NEW w \in Workers, Crash(w) PROVE UNCHANGED Delivery!dvars
  BY <1>1, Zenon DEF Crash, Delivery!dvars, Processing, DeadLetters
<1>2. CASE UNCHANGED vars
  BY <1>2, Zenon DEF vars, Delivery!dvars, Processing, DeadLetters
<1>3. ASSUME NEW w \in Workers, NEW t \in Tasks, AnswerUnknown(w, t) PROVE UNCHANGED Delivery!dvars
  BY <1>3, Zenon DEF AnswerUnknown, Delivery!dvars, Processing, DeadLetters
<1>4. ASSUME NEW w \in Workers, WorkerStep(w) PROVE [Delivery!DNext]_Delivery!dvars
  BY <1>3, <1>4, DequeueTakes, RaiseStutters, AckAcknowledges, NackRetriesOrBuries
     DEF WorkerStep, Delivery!DNext
<1>5. ASSUME NEW t \in Tasks, Enqueue(t) PROVE [Delivery!DNext]_Delivery!dvars
  BY <1>5, EnqueueSubmits, Zenon DEF Delivery!DNext
<1> QED BY <1>1, <1>2, <1>4, <1>5 DEF Next, Idle
=============================================================================
