------------------------------ MODULE TaskItems ------------------------------
(***************************************************************************)
(* The tasks and workers that both implementations of TaskQueue serve, for *)
(* one queue name.  Callers choose task ids: most ids are enqueued once,   *)
(* the ones in Repeated twice.                                             *)
(***************************************************************************)
EXTENDS Integers, Sequences, FiniteSets

CONSTANTS
    Tasks,          \* task ids
    Repeated,       \* bound: the ids that are enqueued twice
    Workers,
    NoTask,         \* an idle worker's hand
    MaxRetries,     \* TaskItem.max_retries
    MayCrash        \* bound: workers die with a task in hand

ASSUME QueueAssumption ==
    /\ NoTask \notin Tasks
    /\ Repeated \subseteq Tasks
    /\ MaxRetries \in Nat \ {0}
    /\ MayCrash \in BOOLEAN

EnqueueLimit(t) == IF t \in Repeated THEN 2 ELSE 1

\* attempt_count passes max_retries by at most one for a repetition of the id.
AttemptLimit(t) == MaxRetries + EnqueueLimit(t) - 1

Distinct == Tasks \ Repeated

\* The distinct ids among the first n of a list, by their positions.
DistinctUpTo(ids, n) == {k \in 1 .. n : ids[k] \notin Repeated}

\* The part of a list of ids that TaskDelivery speaks of: its n-th id is the n-th
\* distinct one of the list.
OfDistinct(ids) ==
    [n \in 1 .. Cardinality(DistinctUpTo(ids, Len(ids))) |->
        ids[CHOOSE k \in DistinctUpTo(ids, Len(ids)) : Cardinality(DistinctUpTo(ids, k)) = n]]
=============================================================================
