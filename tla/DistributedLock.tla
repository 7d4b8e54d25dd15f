--------------------------- MODULE DistributedLock ---------------------------
(***************************************************************************)
(* One lock name of InMemoryDistributedLock or RedisDistributedLock, and   *)
(* the clients that call acquire and release.  The in-memory methods run   *)
(* under a mutex; the Redis release is a GET and a DEL.  Time is the TTL   *)
(* of a grant running out, at any moment after the grant.                  *)
(***************************************************************************)
EXTENDS Naturals

CONSTANTS
    Clients,
    Anonymous,      \* clients that pass no holder_id
    NoClient

ASSUME LockAssumption ==
    /\ NoClient \notin Clients
    /\ Anonymous \subseteq Clients

VARIABLES
    backend,        \* "memory" or "redis": the implementation in use
    entry,          \* the client whose acquire wrote the lock's entry, or NoClient
    stale,          \* in memory: the entry's TTL is over, it is not yet cleaned up
    client,         \* client -> "out", "waiting", "in", "deleting" or "dead"
    valid,          \* clients granted, not released, whose TTL is not over
    overran         \* history: clients whose TTL ran out when their release no
                    \* longer compares the holder

lockVars == <<backend, entry, stale, client, valid, overran>>

LockInit ==
    /\ backend \in {"memory", "redis"}
    /\ entry = NoClient
    /\ stale = FALSE
    /\ client = [c \in Clients |-> "out"]
    /\ valid = {}
    /\ overran = {}

Move(c, from, to) ==
    /\ client[c] = from
    /\ client' = [client EXCEPT ![c] = to]

\* acquire begins its polling loop.
Acquire(c) ==
    /\ Move(c, "out", "waiting")
    /\ UNCHANGED <<backend, entry, stale, valid, overran>>

\* _cleanup_expired, then the entry is taken if there is none; SET NX PX.
Grant(c) ==
    /\ Move(c, "waiting", "in")
    /\ entry = NoClient \/ stale
    /\ entry' = c
    /\ stale' = FALSE
    /\ valid' = valid \cup {c}
    /\ UNCHANGED <<backend, overran>>

GiveUp(c) ==
    /\ Move(c, "waiting", "out")
    /\ UNCHANGED <<backend, entry, stale, valid, overran>>

\* is_locked of any caller cleans the expired entry.
IsLocked ==
    /\ stale
    /\ entry' = NoClient
    /\ stale' = FALSE
    /\ UNCHANGED <<backend, client, valid, overran>>

\* Mutant: the holder is not compared.
AnyHolder(c) == entry # NoClient

\* `holder_id and entry[0] != holder_id`
IsHolder(c) == c \in Anonymous \/ entry = c

Release(c) ==
    /\ backend = "memory"
    /\ Move(c, "in", "out")
    /\ \/ entry # NoClient /\ IsHolder(c) /\ entry' = NoClient /\ stale' = FALSE
       \/ (entry = NoClient \/ ~IsHolder(c)) /\ UNCHANGED <<entry, stale>>
    /\ valid' = valid \ {c}
    /\ UNCHANGED <<backend, overran>>

\* The GET of the Redis release, for a caller with a holder_id.
ReleaseGet(c) ==
    /\ backend = "redis"
    /\ c \notin Anonymous
    /\ \/ entry = c /\ Move(c, "in", "deleting") /\ UNCHANGED valid
       \/ entry # c /\ Move(c, "in", "out") /\ valid' = valid \ {c}
    /\ UNCHANGED <<backend, entry, stale, overran>>

\* The DEL, of whatever entry is there by now.
ReleaseDelete(c) ==
    /\ backend = "redis"
    /\ Move(c, IF c \in Anonymous THEN "in" ELSE "deleting", "out")
    /\ entry' = NoClient
    /\ valid' = valid \ {c}
    /\ UNCHANGED <<backend, stale, overran>>

\* The client dies with the lock.
Die(c) ==
    /\ client[c] \in {"in", "deleting"}
    /\ client' = [client EXCEPT ![c] = "dead"]
    /\ UNCHANGED <<backend, entry, stale, valid, overran>>

\* Mutant: a grant has no TTL once its client is gone.
ExpireLiving(c) ==
    /\ c \in valid
    /\ client[c] # "dead"
    /\ valid' = valid \ {c}
    /\ UNCHANGED <<backend, entry, stale, client, overran>>

\* c will release without comparing the holder again.
Uncompared(c) == client[c] = "deleting" \/ (client[c] = "in" /\ c \in Anonymous)

\* The TTL of c's grant is over.  Redis removes the key; in memory the entry
\* stays until somebody looks.
Expire(c) ==
    /\ c \in valid
    /\ valid' = valid \ {c}
    /\ overran' = IF Uncompared(c) THEN overran \cup {c} ELSE overran
    /\ \/ entry = c /\ backend = "redis" /\ entry' = NoClient /\ UNCHANGED stale
       \/ entry = c /\ backend = "memory" /\ stale' = TRUE /\ UNCHANGED entry
       \/ entry # c /\ UNCHANGED <<entry, stale>>
    /\ UNCHANGED <<backend, client>>

LockNext ==
    \/ \E c \in Clients :
          \/ Acquire(c) \/ Grant(c) \/ GiveUp(c)
          \/ Release(c) \/ ReleaseGet(c) \/ ReleaseDelete(c)
          \/ Die(c) \/ Expire(c)
    \/ IsLocked
    \/ (\A c \in Clients : client[c] = "dead") /\ UNCHANGED lockVars

\* Time passes.
LockSpec ==
    /\ LockInit /\ [][LockNext]_lockVars
    /\ \A c \in Clients : WF_lockVars(Expire(c))

-----------------------------------------------------------------------------
\* The entry, the clients and the grants keep their types, and only an entry
\* that is there can be stale.
LockTypeOK ==
    /\ backend \in {"memory", "redis"}
    /\ entry \in Clients \cup {NoClient}
    /\ stale \in BOOLEAN
    /\ stale => backend = "memory" /\ entry # NoClient /\ entry \notin valid
    /\ client \in [Clients -> {"out", "waiting", "in", "deleting", "dead"}]
    /\ valid \subseteq Clients
    /\ overran \subseteq Clients

\* A grant is honoured until its TTL is over or its client releases it: no
\* release or acquire of another client removes or replaces the entry, so no two
\* clients have a valid grant at a time.  It holds as long as no TTL runs out
\* between a holder check and its DEL, or on a client that passes no holder_id.
GrantHonoured == overran = {} => \A c \in valid : entry = c /\ ~stale

\* What docs/architecture/distributed-layer.md says without a condition: a release
\* checks the holder, so it never takes the lock from another client.
ReleaseChecksHolder == \A c \in valid : entry = c /\ ~stale

\* A lock whose client died can be granted again once the TTL is over.
FreedAfterCrash ==
    \A c \in Clients :
        client[c] = "dead" /\ entry = c ~> entry # c \/ stale
=============================================================================
