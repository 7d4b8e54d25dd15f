----------------------------- MODULE MessageBus -----------------------------
(***************************************************************************)
(* InMemoryMessageBus and RedisMessageBus: subscribe, unsubscribe, publish *)
(* and request/reply.  In memory the publishing thread runs the handlers;  *)
(* over Redis a listener thread takes the messages of one pubsub object    *)
(* (external) and runs them.  A requester is a thread that calls request   *)
(* once, with a reply topic of its own; a server is a thread that          *)
(* subscribes a handler to the service topic, and is unsubscribed by any   *)
(* thread.                                                                 *)
(***************************************************************************)
EXTENDS Naturals, Sequences, FiniteSets

CONSTANTS
    Requesters,
    Servers,
    Listeners,      \* the threads that may become listeners
    Service         \* the topic requests are published to

\* The reply topics are not the service topic; every caller starts one listener at most.
ASSUME BusAssumption ==
    /\ Requesters \cap Servers = {}
    /\ Service \notin Requesters
    /\ IsFiniteSet(Requesters) /\ IsFiniteSet(Servers) /\ IsFiniteSet(Listeners)
    /\ Cardinality(Requesters \cup Servers) <= Cardinality(Listeners)

VARIABLES
    bus,            \* "memory" or "redis"
    handlers,       \* topic -> the callers whose handler is registered
    at,             \* caller -> where it is in subscribe or request
    subscribed,     \* topics the pubsub object is subscribed to
    inbox,          \* messages [topic, about] the pubsub object holds
    running,        \* the flag _running
    listening,      \* listener threads in _listen_loop
    agenda,         \* thread -> the requester it runs handlers for, and those left
    answered,       \* requesters whose event is set
    owed,           \* requesters a server may still reply to, from another thread
    closed

transport == <<subscribed, inbox, running, listening>>
busVars == <<bus, handlers, at, transport, agenda, answered, owed, closed>>

Callers == Requesters \cup Servers
Threads == Requesters \cup Listeners

\* A requester subscribes to its reply topic, which nobody else knows.
TopicOf(c) == IF c \in Servers THEN Service ELSE c

Free == [about |-> Service, left |-> {}]

BusInit ==
    /\ bus \in {"memory", "redis"}
    /\ handlers = [t \in Requesters \cup {Service} |-> {}]
    /\ at = [c \in Callers |-> "out"]
    /\ subscribed = {}
    /\ inbox = <<>>
    /\ running = FALSE
    /\ listening = {}
    /\ agenda = [t \in Threads |-> Free]
    /\ answered = {}
    /\ owed = {}
    /\ closed = FALSE

MoveCaller(c, from, to) == at[c] = from /\ at' = [at EXCEPT ![c] = to]

\* Mutant: is_new_topic is computed after the append.
AfterRegisterLate(c) ==
    IF bus = "memory" THEN "ready"
    ELSE IF handlers'[TopicOf(c)] = {} THEN "subscribing" ELSE "ensuring"

\* is_new_topic decides whether pubsub.subscribe follows.
AfterRegister(c) ==
    IF bus = "memory" THEN "ready"
    ELSE IF handlers[TopicOf(c)] = {} THEN "subscribing" ELSE "ensuring"

\* subscribe: the locked part.
Register(c) ==
    /\ ~closed
    /\ handlers' = [handlers EXCEPT ![TopicOf(c)] = @ \cup {c}]
    /\ MoveCaller(c, "out", AfterRegister(c))
    /\ UNCHANGED <<bus, transport, agenda, answered, owed, closed>>

\* pubsub.subscribe, outside the lock.
SubscribeTopic(c) ==
    /\ MoveCaller(c, "subscribing", "ensuring")
    /\ subscribed' = subscribed \cup {TopicOf(c)}
    /\ UNCHANGED <<bus, handlers, inbox, running, listening, agenda, answered, owed,
                   closed>>

\* _ensure_listener: the check of _running ...
CheckRunning(c) ==
    /\ MoveCaller(c, "ensuring", IF running THEN "ready" ELSE "starting")
    /\ UNCHANGED <<bus, handlers, transport, agenda, answered, owed, closed>>

\* ... and the start of a thread, which two callers may both come to.
StartListener(c) ==
    /\ MoveCaller(c, "starting", "ready")
    /\ running' = TRUE
    /\ listening' = listening \cup {CHOOSE l \in Listeners : l \notin listening}
    /\ UNCHANGED <<bus, handlers, subscribed, inbox, agenda, answered, owed, closed>>

\* unsubscribe, all of it locked; nothing if the handler is not registered.
Unregister(c) ==
    /\ handlers' = [handlers EXCEPT ![TopicOf(c)] = @ \ {c}]
    /\ subscribed' = IF handlers[TopicOf(c)] = {c} THEN subscribed \ {TopicOf(c)}
                                                   ELSE subscribed
    /\ UNCHANGED <<inbox, running, listening>>

\* Any thread unsubscribes a server's handler, at any time after it is registered.
UnsubscribeServer(s) ==
    /\ s \in handlers[Service]
    /\ Unregister(s)
    /\ UNCHANGED <<bus, at, agenda, answered, owed, closed>>

Post(topic, q) ==
    inbox' = IF topic \in subscribed THEN Append(inbox, [topic |-> topic, about |-> q])
                                     ELSE inbox

\* request publishes: in memory it starts to run the handlers of a copied list.
PublishRequest(q) ==
    /\ MoveCaller(q, "ready", IF bus = "memory" THEN "dispatching" ELSE "waiting")
    /\ \/ /\ bus = "memory"
          /\ agenda' = [agenda EXCEPT ![q] = [about |-> q, left |-> handlers[Service]]]
          /\ UNCHANGED inbox
       \/ /\ bus = "redis"
          /\ Post(Service, q)
          /\ UNCHANGED agenda
    /\ UNCHANGED <<bus, handlers, subscribed, running, listening, answered, owed, closed>>

\* In memory the handlers have run; event.wait begins.
EndDispatch(q) ==
    /\ agenda[q].left = {}
    /\ MoveCaller(q, "dispatching", "waiting")
    /\ UNCHANGED <<bus, handlers, transport, agenda, answered, owed, closed>>

\* The listener takes a message and copies the list of its topic's handlers.
TakeMessage(l) ==
    /\ l \in listening /\ running
    /\ agenda[l].left = {}
    /\ inbox # <<>>
    /\ agenda' = [agenda EXCEPT ![l] = [about |-> Head(inbox).about,
                                        left |-> handlers[Head(inbox).topic]]]
    /\ inbox' = Tail(inbox)
    /\ UNCHANGED <<bus, handlers, at, subscribed, running, listening, answered, owed,
                   closed>>

\* close has cleared _running, or get_message raises, at any time: the loop ends and
\* _running is left as it was, so no other listener is started.
LeaveLoop(l) ==
    /\ l \in listening
    /\ agenda[l].left = {}
    /\ listening' = listening \ {l}
    /\ UNCHANGED <<bus, handlers, at, subscribed, inbox, running, agenda, answered, owed,
                   closed>>

\* reply: a message on the reply topic, which in memory runs _on_reply at once.
SendReply(q) ==
    \/ /\ bus = "memory"
       /\ answered' = IF q \in handlers[q] THEN answered \cup {q} ELSE answered
       /\ UNCHANGED inbox
    \/ /\ bus = "redis"
       /\ Post(q, q)
       /\ UNCHANGED answered

NextHandler(t, h) == agenda' = [agenda EXCEPT ![t].left = @ \ {h}]

\* A server's handler replies, or leaves the reply to another thread.
RunServer(t, s) ==
    /\ s \in agenda[t].left \cap Servers
    /\ NextHandler(t, s)
    /\ \/ SendReply(agenda[t].about) /\ UNCHANGED owed
       \/ owed' = owed \cup {agenda[t].about} /\ UNCHANGED <<answered, inbox>>
    /\ UNCHANGED <<bus, handlers, at, subscribed, running, listening, closed>>

\* It raises: a listener thread ends, with _running still set; a requester goes to
\* the finally of request.
RaiseInHandler(t, s) ==
    /\ s \in agenda[t].left \cap Servers
    /\ agenda' = [agenda EXCEPT ![t] = Free]
    /\ \/ t \in Listeners /\ listening' = listening \ {t} /\ UNCHANGED at
       \/ t \in Requesters /\ MoveCaller(t, "dispatching", "leaving") /\ UNCHANGED listening
    /\ UNCHANGED <<bus, handlers, subscribed, inbox, running, answered, owed, closed>>

\* _on_reply, in a listener.
RunOnReply(l) ==
    /\ agenda[l].left \cap Requesters # {}
    /\ answered' = answered \cup agenda[l].left
    /\ agenda' = [agenda EXCEPT ![l] = Free]
    /\ UNCHANGED <<bus, handlers, at, transport, owed, closed>>

ReplyLate(q) ==
    /\ q \in owed
    /\ owed' = owed \ {q}
    /\ SendReply(q)
    /\ UNCHANGED <<bus, handlers, at, subscribed, running, listening, agenda, closed>>

\* Mutant: a wait that timed out is repeated.
StopWaitingAgain(q) ==
    /\ MoveCaller(q, "waiting", IF q \in answered THEN "leaving" ELSE "waiting")
    /\ UNCHANGED <<bus, handlers, transport, agenda, answered, owed, closed>>

\* event.wait returns, on the reply or on the timeout.
StopWaiting(q) ==
    /\ MoveCaller(q, "waiting", "leaving")
    /\ UNCHANGED <<bus, handlers, transport, agenda, answered, owed, closed>>

\* The finally clause of request.
LeaveRequest(q) ==
    /\ MoveCaller(q, "leaving", "returned")
    /\ Unregister(q)
    /\ UNCHANGED <<bus, agenda, answered, owed, closed>>

\* close.  In memory it clears the handlers under the lock; over Redis it closes the
\* pubsub object, with the messages it still holds, and joins the listener first.
CloseBus ==
    /\ ~closed
    /\ closed' = TRUE
    /\ handlers' = IF bus = "memory" THEN [t \in DOMAIN handlers |-> {}] ELSE handlers
    /\ subscribed' = {}
    /\ inbox' = <<>>
    /\ running' = FALSE
    /\ UNCHANGED <<bus, at, listening, agenda, answered, owed>>

\* The end of close, when the listener has left its loop or the join has timed out.
ClearHandlers ==
    /\ closed
    /\ \E t \in DOMAIN handlers : handlers[t] # {}
    /\ handlers' = [t \in DOMAIN handlers |-> {}]
    /\ UNCHANGED <<bus, at, transport, agenda, answered, owed, closed>>

RequestStep(q) ==
    \/ Register(q) \/ SubscribeTopic(q) \/ CheckRunning(q) \/ StartListener(q)
    \/ PublishRequest(q) \/ EndDispatch(q) \/ StopWaiting(q) \/ LeaveRequest(q)

RunHandler(t) ==
    \/ \E s \in Servers : RunServer(t, s) \/ RaiseInHandler(t, s)
    \/ t \in Listeners /\ RunOnReply(t)

BusNext ==
    \/ \E q \in Requesters : RequestStep(q) \/ ReplyLate(q)
    \/ \E s \in Servers :
          \/ Register(s) \/ SubscribeTopic(s) \/ CheckRunning(s) \/ StartListener(s)
          \/ UnsubscribeServer(s)
    \/ \E l \in Listeners : TakeMessage(l) \/ LeaveLoop(l)
    \/ \E t \in Threads : RunHandler(t)
    \/ CloseBus \/ ClearHandlers
    \/ closed /\ (\A q \in Requesters : at[q] \in {"out", "returned"}) /\ UNCHANGED busVars

\* Requesters run, handlers return, and event.wait times out.
BusSpec ==
    /\ BusInit /\ [][BusNext]_busVars
    /\ \A q \in Requesters : WF_busVars(at[q] # "out" /\ RequestStep(q))
    /\ \A t \in Threads : WF_busVars(RunHandler(t))

-----------------------------------------------------------------------------
BusTypeOK ==
    /\ bus \in {"memory", "redis"}
    /\ handlers \in [Requesters \cup {Service} -> SUBSET Callers]
    /\ at \in [Callers -> {"out", "subscribing", "ensuring", "starting", "ready",
                           "dispatching", "waiting", "leaving", "returned"}]
    /\ subscribed \subseteq DOMAIN handlers
    /\ inbox \in Seq([topic : DOMAIN handlers, about : Requesters])
    /\ running \in BOOLEAN
    /\ listening \subseteq Listeners
    /\ agenda \in [Threads -> [about : DOMAIN handlers, left : SUBSET Callers]]
    /\ answered \subseteq Requesters
    /\ owed \subseteq Requesters

\* subscribe decides under the lock that a topic is new and tells Redis outside it.
\* Still a topic with handlers is subscribed, or the caller that must do it is about to.
RegisteredIsSubscribed ==
    bus = "redis" /\ ~closed =>
        \A t \in DOMAIN handlers :
            handlers[t] # {} => t \in subscribed
                                \/ \E c \in Callers : TopicOf(c) = t /\ at[c] = "subscribing"

\* Every request returns: on the reply, on the timeout, or with the exception of a
\* handler, though the listener may have died or the bus been closed.
EveryRequestReturns ==
    \A q \in Requesters : at[q] # "out" ~> at[q] = "returned"
=============================================================================
