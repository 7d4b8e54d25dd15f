--------------------------- MODULE ConnectionPool ---------------------------
(***************************************************************************)
(* RedisConnectionPool: threads that borrow and return connections, and a  *)
(* thread that calls close_all.  The idle queue and the locked counter are *)
(* separate steps of get_connection and of close_all.  Connections are     *)
(* counted, not named.                                                     *)
(***************************************************************************)
EXTENDS Naturals, FiniteSets

CONSTANTS
    Borrowers,
    MaxConnections,
    MaxClosings     \* bound on the calls of close_all

ASSUME PoolAssumption ==
    MaxConnections \in Nat /\ MaxClosings \in Nat /\ IsFiniteSet(Borrowers)

VARIABLES
    idle,           \* connections in the idle queue
    created,        \* the counter _created
    borrower,       \* borrower -> "out", "missed" (no idle one), "waiting" or "has"
    closing,        \* close_all: "no", "draining" the queue, or found it "empty"
    closings,       \* calls of close_all, for the bound
    drained,        \* history: connections this close_all took from the queue
    stray           \* history: connections that outlived a close_all

poolVars == <<idle, created, borrower, closing, closings, drained, stray>>

Lent == Cardinality({b \in Borrowers : borrower[b] = "has"})

PoolInit ==
    /\ idle = 0
    /\ created = 0
    /\ borrower = [b \in Borrowers |-> "out"]
    /\ closing = "no"
    /\ closings = 0
    /\ drained = 0
    /\ stray = 0

MoveBorrower(b, from, to) ==
    borrower[b] \in from /\ borrower' = [borrower EXCEPT ![b] = to]

\* get_nowait, or a get that waits: an idle connection is there.
TakeIdle(b) ==
    /\ idle > 0
    /\ MoveBorrower(b, {"out", "waiting"}, "has")
    /\ idle' = idle - 1
    /\ UNCHANGED <<created, closing, closings, drained, stray>>

MissIdle(b) ==
    /\ idle = 0
    /\ MoveBorrower(b, {"out"}, "missed")
    /\ UNCHANGED <<idle, created, closing, closings, drained, stray>>

\* Mutant: the limit is compared with <=.
RoomForOneMore == created <= MaxConnections

RoomInPool == created < MaxConnections

\* Mutant: the new connection is not counted.
CreateUncounted(b) ==
    /\ RoomInPool
    /\ MoveBorrower(b, {"missed"}, "has")
    /\ UNCHANGED <<idle, created, closing, closings, drained, stray>>

\* Under the lock: a new connection while there is room.
CreateConnection(b) ==
    /\ RoomInPool
    /\ MoveBorrower(b, {"missed"}, "has")
    /\ created' = created + 1
    /\ UNCHANGED <<idle, closing, closings, drained, stray>>

WaitForIdle(b) ==
    /\ ~RoomInPool
    /\ MoveBorrower(b, {"missed"}, "waiting")
    /\ UNCHANGED <<idle, created, closing, closings, drained, stray>>

\* queue.Empty after five seconds, to the caller.
GiveUpWaiting(b) ==
    /\ MoveBorrower(b, {"waiting"}, "out")
    /\ UNCHANGED <<idle, created, closing, closings, drained, stray>>

\* release_connection: put, whatever the counter says.
ReleaseConnection(b) ==
    /\ MoveBorrower(b, {"has"}, "out")
    /\ idle' = idle + 1
    /\ UNCHANGED <<created, closing, closings, drained, stray>>

BeginCloseAll ==
    /\ closing = "no" /\ closings < MaxClosings
    /\ closing' = "draining"
    /\ closings' = closings + 1
    /\ drained' = 0
    /\ UNCHANGED <<idle, created, borrower, stray>>

DrainOne ==
    /\ closing = "draining" /\ idle > 0
    /\ idle' = idle - 1
    /\ drained' = drained + 1
    /\ UNCHANGED <<created, borrower, closing, closings, stray>>

SeeEmpty ==
    /\ closing = "draining" /\ idle = 0
    /\ closing' = "empty"
    /\ UNCHANGED <<idle, created, borrower, closings, drained, stray>>

\* The counter is reset under the lock, whatever is lent out or was returned since.
ResetCreated ==
    /\ closing = "empty"
    /\ created' = 0
    /\ closing' = "no"
    /\ drained' = 0
    /\ stray' = Lent + idle
    /\ UNCHANGED <<idle, borrower, closings>>

PoolNext ==
    \/ \E b \in Borrowers :
          \/ TakeIdle(b) \/ MissIdle(b) \/ CreateConnection(b) \/ WaitForIdle(b)
          \/ GiveUpWaiting(b) \/ ReleaseConnection(b)
    \/ BeginCloseAll \/ DrainOne \/ SeeEmpty \/ ResetCreated

PoolSpec == PoolInit /\ [][PoolNext]_poolVars

-----------------------------------------------------------------------------
PoolTypeOK ==
    /\ idle \in Nat /\ created \in 0..MaxConnections
    /\ borrower \in [Borrowers -> {"out", "missed", "waiting", "has"}]
    /\ closing \in {"no", "draining", "empty"} /\ closings \in 0..MaxClosings
    /\ drained \in Nat /\ stray \in Nat

\* No more than max_connections are open besides the ones that were lent out, or came
\* back, while close_all reset the counter: _created counts exactly the others.
PoolBound ==
    /\ Lent + idle + drained = created + stray
    /\ Lent + idle <= MaxConnections + stray
=============================================================================
