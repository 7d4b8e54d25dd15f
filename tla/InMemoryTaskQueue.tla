-------------------------- MODULE InMemoryTaskQueue --------------------------
(***************************************************************************)
(* InMemoryTaskQueue and the workers that call it.  Every method body runs *)
(* under self._lock, so each one is a single step.  One queue name.        *)
(***************************************************************************)
EXTENDS TaskItems

VARIABLES
    queue,          \* _queues[name]: the ids
    items,          \* _items: id -> status and attempt_count
    deadLetter,     \* _dead_letter[name]: the ids
    acked,          \* history: ids acknowledged
    enqueued,       \* id -> number of enqueue calls made for it
    hand,           \* worker -> the task it processes
    crashed,        \* workers that died
    raised          \* history: ids whose dequeue raised KeyError

vars == <<queue, items, deadLetter, acked, enqueued, hand, crashed, raised>>

Without(f, t) == [x \in DOMAIN f \ {t} |-> f[x]]

Init ==
    /\ queue = <<>>
    /\ items = [t \in {} |-> [status |-> "pending", attempts |-> 0]]
    /\ deadLetter = <<>>
    /\ acked = {}
    /\ enqueued = [t \in Tasks |-> 0]
    /\ hand = [w \in Workers |-> NoTask]
    /\ crashed = {}
    /\ raised = {}

\* attempt_count is the item's own: every caller of the code enqueues a new TaskItem, whose
\* count is 0.
Enqueue(t) ==
    /\ enqueued[t] < EnqueueLimit(t)
    /\ enqueued' = [enqueued EXCEPT ![t] = @ + 1]
    /\ items' = [x \in DOMAIN items \cup {t} |->
                    IF x = t THEN [status |-> "pending", attempts |-> 0] ELSE items[x]]
    /\ queue' = Append(queue, t)
    /\ UNCHANGED <<deadLetter, acked, hand, crashed, raised>>

Free(w) == w \notin crashed /\ hand[w] = NoTask

\* Mutant: the newest id is popped.
DequeueNewest(w) ==
    /\ Free(w)
    /\ queue # <<>>
    /\ queue[Len(queue)] \in DOMAIN items
    /\ LET t == queue[Len(queue)]
       IN  /\ queue' = SubSeq(queue, 1, Len(queue) - 1)
           /\ items' = [items EXCEPT ![t] = [status |-> "processing", attempts |-> @.attempts + 1]]
           /\ hand' = [hand EXCEPT ![w] = t]
    /\ UNCHANGED <<deadLetter, acked, enqueued, crashed, raised>>

Dequeue(w) ==
    /\ Free(w)
    /\ queue # <<>>
    /\ Head(queue) \in DOMAIN items
    /\ queue' = Tail(queue)
    /\ items' = [items EXCEPT ![Head(queue)] =
                    [status |-> "processing", attempts |-> @.attempts + 1]]
    /\ hand' = [hand EXCEPT ![w] = Head(queue)]
    /\ UNCHANGED <<deadLetter, acked, enqueued, crashed, raised>>

\* self._items[task_id] fails for an id that was acknowledged or buried; the id
\* has already been popped.
DequeueRaises(w) ==
    /\ Free(w)
    /\ queue # <<>>
    /\ Head(queue) \notin DOMAIN items
    /\ queue' = Tail(queue)
    /\ raised' = raised \cup {Head(queue)}
    /\ UNCHANGED <<items, deadLetter, acked, enqueued, hand, crashed>>

Holding(w, t) == w \notin crashed /\ hand[w] = t /\ t # NoTask

LetGo(w) == hand' = [hand EXCEPT ![w] = NoTask]

Ack(w, t) ==
    /\ Holding(w, t)
    /\ t \in DOMAIN items
    /\ items' = Without(items, t)
    /\ acked' = acked \cup {t}
    /\ LetGo(w)
    /\ UNCHANGED <<queue, deadLetter, enqueued, crashed, raised>>

\* Mutant: retries are counted one too far.
NackOnceMore(w, t) ==
    /\ Holding(w, t)
    /\ t \in DOMAIN items
    /\ \/ /\ items[t].attempts > MaxRetries
          /\ items' = Without(items, t)
          /\ deadLetter' = Append(deadLetter, t)
          /\ UNCHANGED queue
       \/ /\ items[t].attempts <= MaxRetries
          /\ items' = [items EXCEPT ![t].status = "pending"]
          /\ queue' = Append(queue, t)
          /\ UNCHANGED deadLetter
    /\ LetGo(w)
    /\ UNCHANGED <<acked, enqueued, crashed, raised>>

\* Mutant: only a task out of retries is looked at.
NackBuriesOnly(w, t) ==
    /\ Holding(w, t)
    /\ t \in DOMAIN items
    /\ \/ /\ items[t].attempts >= MaxRetries
          /\ items' = Without(items, t)
          /\ deadLetter' = Append(deadLetter, t)
       \/ /\ items[t].attempts < MaxRetries
          /\ UNCHANGED <<items, deadLetter>>
    /\ LetGo(w)
    /\ UNCHANGED <<queue, acked, enqueued, crashed, raised>>

Nack(w, t) ==
    /\ Holding(w, t)
    /\ t \in DOMAIN items
    /\ \/ /\ items[t].attempts >= MaxRetries
          /\ items' = Without(items, t)
          /\ deadLetter' = Append(deadLetter, t)
          /\ UNCHANGED queue
       \/ /\ items[t].attempts < MaxRetries
          /\ items' = [items EXCEPT ![t].status = "pending"]
          /\ queue' = Append(queue, t)
          /\ UNCHANGED deadLetter
    /\ LetGo(w)
    /\ UNCHANGED <<acked, enqueued, crashed, raised>>

\* ack or nack of an id the queue no longer knows returns False.
AnswerUnknown(w, t) ==
    /\ Holding(w, t)
    /\ t \notin DOMAIN items
    /\ LetGo(w)
    /\ UNCHANGED <<queue, items, deadLetter, acked, enqueued, crashed, raised>>

\* The worker dies; processing_timeout is not looked at by anything.
Crash(w) ==
    /\ MayCrash
    /\ w \notin crashed
    /\ hand[w] # NoTask
    /\ crashed' = crashed \cup {w}
    /\ UNCHANGED <<queue, items, deadLetter, acked, enqueued, hand, raised>>

\* Nothing left to hand out, or nobody left to hand it to.
Idle ==
    /\ queue = <<>> \/ Workers \subseteq crashed
    /\ \A w \in Workers : w \in crashed \/ hand[w] = NoTask
    /\ UNCHANGED vars

WorkerStep(w) ==
    \/ Dequeue(w)
    \/ DequeueRaises(w)
    \/ \E t \in Tasks : Ack(w, t) \/ Nack(w, t) \/ AnswerUnknown(w, t)

Next ==
    \/ \E t \in Tasks : Enqueue(t)
    \/ \E w \in Workers : WorkerStep(w) \/ Crash(w)
    \/ Idle

\* A live worker keeps polling, and answers the task it took.
Spec == Init /\ [][Next]_vars /\ \A w \in Workers : WF_vars(WorkerStep(w))

-----------------------------------------------------------------------------
Processing == {t \in DOMAIN items : items[t].status = "processing"}

DeadLetters == {deadLetter[k] : k \in DOMAIN deadLetter}

\* The queue as the abstract delivery service of the distinct ids sees it.
Delivery == INSTANCE TaskDelivery WITH
    Tasks    <- Distinct,
    waiting  <- OfDistinct(queue),
    held     <- Processing \ Repeated,
    done     <- acked \ Repeated,
    dead     <- DeadLetters \ Repeated,
    attempts <- [t \in Distinct |-> IF t \in DOMAIN items THEN items[t].attempts ELSE 0]

\* Every field keeps its type; attempt_count stays within its limit, and a task
\* waits only while it has an attempt left.
TypeOK ==
    /\ queue \in Seq(Tasks)
    /\ DOMAIN items \subseteq Tasks
    /\ \A t \in DOMAIN items :
          /\ items[t] \in [status : {"pending", "processing"}, attempts : 0 .. AttemptLimit(t)]
          /\ items[t].status = "pending" => items[t].attempts < MaxRetries
    /\ deadLetter \in Seq(Tasks)
    /\ acked \subseteq Tasks
    /\ enqueued \in [Tasks -> 0 .. 2]
    /\ hand \in [Workers -> Tasks \cup {NoTask}]
    /\ crashed \subseteq Workers
    /\ raised \subseteq Tasks

\* For the ids enqueued once, the queue and its retry accounting are the FIFO
\* delivery service: no such task is lost, doubled or handed to two workers,
\* whatever the interleaving of dequeue, ack, nack and crashes and whatever
\* happens to ids that are enqueued twice.
ImplementsDelivery == Delivery!DSpec

\* A task enqueued once is never in two hands, is known to the queue while a
\* worker holds it, and its dequeue does not raise.
OneHolderPerTask ==
    /\ \A v, w \in Workers : hand[v] = hand[w] /\ hand[v] \in Distinct => v = w
    /\ \A w \in Workers : hand[w] \in Distinct => hand[w] \in DOMAIN items
    /\ raised \subseteq Repeated

\* Even when ids repeat, a task that is pending has its id in the queue: no
\* order of enqueue, dequeue, ack and nack strands it.
PendingIsQueued ==
    \A t \in DOMAIN items :
        items[t].status = "pending" => \E k \in DOMAIN queue : queue[k] = t

\* While no worker dies, every task that is handed in ends acknowledged or in
\* the dead letter list.
EveryTaskEnds ==
    \A t \in Tasks :
        t \in DOMAIN items ~> t \in acked \cup DeadLetters \/ crashed # {}
=============================================================================
