---------------------------- MODULE TaskDelivery ----------------------------
(***************************************************************************)
(* What the TaskQueue contract (src/scheduler/interfaces.py) promises for  *)
(* tasks with distinct ids: a FIFO of waiting tasks, each handed to one    *)
(* worker at a time, that end acknowledged, or dead after MaxRetries       *)
(* attempts.  A task a worker died with stays held.                        *)
(***************************************************************************)
EXTENDS Integers, Sequences

CONSTANTS Tasks, MaxRetries

VARIABLES waiting, held, done, dead, attempts

dvars == <<waiting, held, done, dead, attempts>>

WaitingSet == {waiting[k] : k \in DOMAIN waiting}

DInit ==
    /\ waiting = <<>>
    /\ held = {}
    /\ done = {}
    /\ dead = {}
    /\ attempts = [t \in Tasks |-> 0]

Submit(t) ==
    /\ t \notin WaitingSet \cup held \cup done \cup dead
    /\ waiting' = Append(waiting, t)
    /\ UNCHANGED <<held, done, dead, attempts>>

\* The oldest waiting task is handed out.
Take ==
    /\ waiting # <<>>
    /\ waiting' = Tail(waiting)
    /\ held' = held \cup {Head(waiting)}
    /\ attempts' = [attempts EXCEPT ![Head(waiting)] = @ + 1]
    /\ UNCHANGED <<done, dead>>

Acknowledge(t) ==
    /\ t \in held
    /\ held' = held \ {t}
    /\ done' = done \cup {t}
    /\ attempts' = [attempts EXCEPT ![t] = 0]
    /\ UNCHANGED <<waiting, dead>>

Retry(t) ==
    /\ t \in held
    /\ attempts[t] < MaxRetries
    /\ held' = held \ {t}
    /\ waiting' = Append(waiting, t)
    /\ UNCHANGED <<done, dead, attempts>>

Bury(t) ==
    /\ t \in held
    /\ attempts[t] >= MaxRetries
    /\ held' = held \ {t}
    /\ dead' = dead \cup {t}
    /\ attempts' = [attempts EXCEPT ![t] = 0]
    /\ UNCHANGED <<waiting, done>>

DNext ==
    \/ Take
    \/ \E t \in Tasks : Submit(t) \/ Acknowledge(t) \/ Retry(t) \/ Bury(t)

DSpec == DInit /\ [][DNext]_dvars
=============================================================================
