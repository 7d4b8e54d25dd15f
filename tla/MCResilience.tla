---------------------------- MODULE MCResilience ----------------------------
(***************************************************************************)
(* Session recovery and the circuit breaker for TLC.  They share no state, *)
(* so a behaviour chooses one of them and runs it alone.                   *)
(***************************************************************************)
EXTENDS SessionRecovery, CircuitBreaker

VARIABLE focus      \* the component that moves

resilienceVars == <<focus, recoveryVars, circuitVars>>

ResilienceInit ==
    /\ focus \in {"recovery", "circuit"}
    /\ RecoveryInit
    /\ CircuitInit

InRecovery(action) == focus = "recovery" /\ action /\ UNCHANGED <<focus, circuitVars>>

InCircuit(action) == focus = "circuit" /\ action /\ UNCHANGED <<focus, recoveryVars>>

ResilienceNext ==
    \/ focus = "recovery" /\ RecoveryNext /\ UNCHANGED <<focus, circuitVars>>
    \/ focus = "circuit" /\ CircuitNext /\ UNCHANGED <<focus, recoveryVars>>

\* The fairness of RecoverySpec and of CircuitSpec.
ResilienceSpec ==
    /\ ResilienceInit /\ [][ResilienceNext]_resilienceVars
    /\ \A i \in Mortal : WF_resilienceVars(InRecovery(Lapse(i) /\ i \notin up))
    /\ \A r \in Sweepers :
          /\ WF_resilienceVars(InRecovery(Recover(r)))
          /\ WF_resilienceVars(InRecovery(Register(r)))
    /\ WF_resilienceVars(InCircuit(Elapse))
    /\ \A b \in Breakers :
          SF_resilienceVars(InCircuit(\E c \in Calls : AllowRequest(b, c)))
    /\ \A c \in Calls : WF_resilienceVars(InCircuit(RecordSuccess(c)))

\* The instances table, sessions, sweeps and circuits are of their types.
ResilienceTypeOK == RecoveryTypeOK /\ CircuitTypeOK
=============================================================================
