---------------------------- MODULE CircuitBreaker ----------------------------
(***************************************************************************)
(* The circuit of one tool in CircuitBreaker instances that share a        *)
(* CircuitStateBackend, and the tool calls they admit.  A call is admitted *)
(* by allow_request and reports later, whatever the circuit has become by  *)
(* then.  An instance is used by one thread; each method is a step.  The   *)
(* counters no decision reads (totals, success_count) are left out.        *)
(***************************************************************************)
EXTENDS Naturals, FiniteSets

CONSTANTS
    Breakers,           \* CircuitBreaker instances
    Calls,              \* concurrent tool calls
    FailureThreshold,
    SuccessThreshold,
    MaxFailures,        \* bound: failing calls in a behaviour
    MaxRestarts,        \* bound: times an instance is replaced by a new one
    NotLoaded,          \* the tool is not in _circuits
    NoRecord            \* the backend has no record

ASSUME BreakerAssumption ==
    /\ FailureThreshold \in Nat \ {0}
    /\ SuccessThreshold \in Nat \ {0}
    /\ MaxFailures \in Nat
    /\ MaxRestarts \in Nat

VARIABLES
    stats,              \* breaker -> its CircuitStats, or NotLoaded
    stored,             \* the backend's CircuitRecord, or NoRecord
    inFlight,           \* call -> its breaker and the state that admitted it
    failuresLeft,
    restartsLeft

circuitVars == <<stats, stored, inFlight, failuresLeft, restartsLeft>>

Fresh == [state |-> "closed", failures |-> 0, probes |-> 0, elapsed |-> FALSE]

NoCall == [by |-> NotLoaded, admitted |-> "none"]

CircuitInit ==
    /\ stats = [b \in Breakers |-> NotLoaded]
    /\ stored = NoRecord
    /\ inFlight = [c \in Calls |-> NoCall]
    /\ failuresLeft = MaxFailures
    /\ restartsLeft = MaxRestarts

-----------------------------------------------------------------------------
\* _get_stats
Loaded(b) ==
    IF stats[b] # NotLoaded THEN stats[b] ELSE IF stored # NoRecord THEN stored ELSE Fresh

\* _transition: OPEN resets nothing but the time of the change.
Transition(r, state) ==
    [state    |-> state,
     failures |-> IF state = "closed" THEN 0 ELSE r.failures,
     probes   |-> IF state = "open" THEN r.probes ELSE 0,
     elapsed  |-> FALSE]

\* _maybe_transition_to_half_open
Current(r) == IF r.state = "open" /\ r.elapsed THEN Transition(r, "half_open") ELSE r

Keep(b, r) == stats' = [stats EXCEPT ![b] = r]

\* get_state and get_stats; the first lines of allow_request.
Look(b) ==
    /\ Keep(b, Current(Loaded(b)))
    /\ stored' = IF Current(Loaded(b)) # Loaded(b) THEN Current(Loaded(b)) ELSE stored

GetState(b) ==
    /\ Look(b)
    /\ UNCHANGED <<inFlight, failuresLeft, restartsLeft>>

\* Mutant: a half-open circuit rejects.
AdmitsClosed(r) == r.state = "closed"

Admits(r) == r.state \in {"closed", "half_open"}

AllowRequest(b, c) ==
    /\ inFlight[c] = NoCall
    /\ Admits(Current(Loaded(b)))
    /\ Look(b)
    /\ inFlight' = [inFlight EXCEPT ![c] = [by |-> b, admitted |-> Current(Loaded(b)).state]]
    /\ UNCHANGED <<failuresLeft, restartsLeft>>

Reject(b) ==
    /\ ~Admits(Current(Loaded(b)))
    /\ Keep(b, Current(Loaded(b)))
    /\ stored' = Current(Loaded(b))
    /\ UNCHANGED <<inFlight, failuresLeft, restartsLeft>>

AfterSuccess(r) ==
    CASE r.state = "half_open" /\ r.probes + 1 >= SuccessThreshold -> Transition(r, "closed")
      [] r.state = "half_open" /\ r.probes + 1 < SuccessThreshold -> [r EXCEPT !.probes = @ + 1]
      [] r.state = "closed" -> [r EXCEPT !.failures = 0]
      [] r.state = "open" -> r

AfterFailure(r) ==
    LET counted == [r EXCEPT !.failures = @ + 1]
    IN  IF \/ r.state = "half_open"
           \/ r.state = "closed" /\ counted.failures >= FailureThreshold
          THEN Transition(counted, "open")
          ELSE counted

Report(c, r) ==
    /\ Keep(inFlight[c].by, r)
    /\ stored' = r
    /\ inFlight' = [inFlight EXCEPT ![c] = NoCall]

RecordSuccess(c) ==
    /\ inFlight[c] # NoCall
    /\ Report(c, AfterSuccess(Loaded(inFlight[c].by)))
    /\ UNCHANGED <<failuresLeft, restartsLeft>>

RecordFailure(c) ==
    /\ inFlight[c] # NoCall
    /\ failuresLeft > 0
    /\ failuresLeft' = failuresLeft - 1
    /\ Report(c, AfterFailure(Loaded(inFlight[c].by)))
    /\ UNCHANGED restartsLeft

\* Nothing happens to a tool that is not in _circuits.
Reset(b) ==
    /\ \/ /\ stats[b] # NotLoaded
          /\ Keep(b, Transition(stats[b], "closed"))
          /\ stored' = Transition(stats[b], "closed")
       \/ /\ stats[b] = NotLoaded
          /\ UNCHANGED <<stats, stored>>
    /\ UNCHANGED <<inFlight, failuresLeft, restartsLeft>>

\* The process is gone with its calls; a new instance takes its place.
Restart(b) ==
    /\ restartsLeft > 0
    /\ stats[b] # NotLoaded
    /\ restartsLeft' = restartsLeft - 1
    /\ stats' = [stats EXCEPT ![b] = NotLoaded]
    /\ inFlight' = [c \in Calls |-> IF inFlight[c].by = b THEN NoCall ELSE inFlight[c]]
    /\ UNCHANGED <<stored, failuresLeft>>

\* recovery_timeout passes since the change that r, and every copy of it, records.
Aged(x, r) == IF x = r THEN [r EXCEPT !.elapsed = TRUE] ELSE x

Elapse ==
    /\ \E r \in ({stats[b] : b \in Breakers} \cup {stored}) \ {NotLoaded, NoRecord} :
          /\ r.state = "open" /\ ~r.elapsed
          /\ stats' = [b \in Breakers |-> Aged(stats[b], r)]
          /\ stored' = Aged(stored, r)
    /\ UNCHANGED <<inFlight, failuresLeft, restartsLeft>>

CircuitNext ==
    \/ \E b \in Breakers :
          \/ GetState(b) \/ Reject(b) \/ Reset(b) \/ Restart(b)
          \/ \E c \in Calls : AllowRequest(b, c)
    \/ \E c \in Calls : RecordSuccess(c) \/ RecordFailure(c)
    \/ Elapse

\* Callers of every instance keep calling the tool, also when callers of another
\* instance do; calls end, and time passes.
CircuitSpec ==
    /\ CircuitInit /\ [][CircuitNext]_circuitVars
    /\ WF_circuitVars(Elapse)
    /\ \A b \in Breakers : SF_circuitVars(\E c \in Calls : AllowRequest(b, c))
    /\ \A c \in Calls : WF_circuitVars(RecordSuccess(c))

-----------------------------------------------------------------------------
\* A record without the mark that recovery_timeout has passed.
Untimed(r) == [r EXCEPT !.elapsed = FALSE]

Records == [state : {"closed", "open", "half_open"}, failures : 0 .. MaxFailures,
            probes : 0 .. SuccessThreshold - 1, elapsed : BOOLEAN]

\* Instances, record and calls keep their types; half_open_successes never
\* reaches success_threshold without closing the circuit.
CircuitTypeOK ==
    /\ stats \in [Breakers -> Records \cup {NotLoaded}]
    /\ stored \in Records \cup {NoRecord}
    /\ inFlight \in [Calls -> [by : Breakers, admitted : {"closed", "half_open"}] \cup {NoCall}]
    /\ failuresLeft \in 0 .. MaxFailures
    /\ restartsLeft \in 0 .. MaxRestarts

\* No instance stands closed, and no record is stored as closed, with
\* failure_threshold failures counted: neither late reports, nor restarts, nor
\* another instance's writes let a circuit miss its opening.
OpensInTime ==
    /\ \A b \in Breakers : stats[b] # NotLoaded /\ stats[b].state = "closed" =>
          stats[b].failures < FailureThreshold
    /\ stored # NoRecord /\ stored.state = "closed" => stored.failures < FailureThreshold

\* What the constructor's doc says of a backend: every mutation is persisted, so
\* that a new instance resumes from the same state.  Whatever an instance does to
\* the circuit it has, or would load, is in the backend at once.
MutationsPersisted ==
    [][\A b \in Breakers :
          stats'[b] # NotLoaded /\ Untimed(stats'[b]) # Untimed(Loaded(b)) =>
              stored' = stats'[b]]_circuitVars

\* When failures stop, an open circuit closes again: it becomes half-open after
\* recovery_timeout and the probes it then admits close it.
Recovers ==
    \A b \in Breakers : stats[b] # NotLoaded /\ stats[b].state = "open" ~>
        stats[b] # NotLoaded /\ stats[b].state = "closed"
=============================================================================
