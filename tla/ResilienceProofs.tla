-------------------------- MODULE ResilienceProofs --------------------------
(***************************************************************************)
(* What stands between the executor and a failing backend: circuits and    *)
(* session recovery, the tool registry and its gateway, for any number of  *)
(* breaker instances, agent instances, sessions, versions and calls.       *)
(***************************************************************************)
EXTENDS MCResilience, ToolGateway, FiniteSetTheorems, SequenceTheorems, NaturalsInduction,
        WellFoundedInduction, TLAPS

-----------------------------------------------------------------------------
(* The circuit breaker.  Every record, in an instance or in the backend,   *)
(* is made from another one by the same few functions, so the invariant is *)
(* about a record by itself: it has counted no more failures than there    *)
(* were, and a closed one fewer than failure_threshold.                    *)

Sound(r, left) ==
    /\ r \in Records
    /\ r.failures + left <= MaxFailures
    /\ r.state = "closed" => r.failures < FailureThreshold

CircuitInv ==
    /\ CircuitTypeOK
    /\ \A b \in Breakers : stats[b] # NotLoaded => Sound(stats[b], failuresLeft)
    /\ stored # NoRecord => Sound(stored, failuresLeft)

LEMMA SoundTransition ==
    ASSUME NEW left \in Nat, NEW r, Sound(r, left),
           NEW state \in {"closed", "open", "half_open"}
    PROVE  Sound(Transition(r, state), left)
    BY BreakerAssumption DEF Sound, Transition, Records

LEMMA SoundCurrent ==
    ASSUME NEW left \in Nat, NEW r, Sound(r, left)
    PROVE  Sound(Current(r), left)
    BY SoundTransition, Zenon DEF Current

LEMMA SoundLoaded ==
    ASSUME CircuitInv, NEW b \in Breakers
    PROVE  Sound(Loaded(b), failuresLeft) /\ failuresLeft \in Nat
<1>1. Sound(Fresh, failuresLeft)
    BY BreakerAssumption DEF Fresh, Sound, Records, CircuitInv, CircuitTypeOK
<1> QED
    BY <1>1, BreakerAssumption DEF Loaded, CircuitInv, CircuitTypeOK

LEMMA SoundAfterSuccess ==
    ASSUME NEW left \in Nat, NEW r, Sound(r, left)
    PROVE  Sound(AfterSuccess(r), left)
<1>1. r.state \in {"closed", "open", "half_open"} /\ r.probes \in Nat
    BY BreakerAssumption DEF Sound, Records
<1>2. CASE r.state = "half_open" /\ r.probes + 1 >= SuccessThreshold
    BY <1>1, <1>2, SoundTransition, BreakerAssumption DEF AfterSuccess
<1>3. CASE r.state = "half_open" /\ r.probes + 1 < SuccessThreshold
    <2>1. AfterSuccess(r) = [r EXCEPT !.probes = @ + 1]
        BY <1>1, <1>3, BreakerAssumption DEF AfterSuccess
    <2> QED
        BY <1>3, <2>1, BreakerAssumption DEF Sound, Records
<1>4. CASE r.state = "closed"
    <2>1. AfterSuccess(r) = [r EXCEPT !.failures = 0]
        BY <1>4, Zenon DEF AfterSuccess
    <2> QED
        BY <2>1, BreakerAssumption DEF Sound, Records
<1>5. CASE r.state = "open"
    <2>1. AfterSuccess(r) = r
        BY <1>5, Zenon DEF AfterSuccess
    <2> QED
        BY <2>1, Zenon
<1> QED
    BY <1>1, <1>2, <1>3, <1>4, <1>5, BreakerAssumption

LEMMA SoundAfterFailure ==
    ASSUME NEW left \in Nat, left > 0, NEW r, Sound(r, left)
    PROVE  Sound(AfterFailure(r), left - 1)
<1> DEFINE counted == [r EXCEPT !.failures = @ + 1]
<1>1. /\ counted \in Records /\ counted.failures + (left - 1) <= MaxFailures
      /\ counted.state = r.state /\ counted.failures \in Nat
    BY BreakerAssumption DEF Sound, Records
<1>2. CASE r.state = "half_open" \/ (r.state = "closed" /\ counted.failures >= FailureThreshold)
    <2>1. AfterFailure(r) = Transition(counted, "open")
        BY <1>2, Zenon DEF AfterFailure
    <2> QED
        BY <1>1, <2>1, BreakerAssumption DEF Sound, Transition, Records
<1>3. CASE /\ r.state # "half_open"
           /\ ~(r.state = "closed" /\ counted.failures >= FailureThreshold)
    <2>1. AfterFailure(r) = counted
        BY <1>3, Zenon DEF AfterFailure
    <2> QED
        BY <1>1, <1>3, <2>1, BreakerAssumption DEF Sound
<1> QED
    BY <1>2, <1>3, Zenon

\* A record that was sound with more failures to come is sound with fewer.
LEMMA SoundLater ==
    ASSUME NEW left \in Nat, left > 0, NEW r, Sound(r, left)
    PROVE  Sound(r, left - 1)
    BY BreakerAssumption DEF Sound, Records

LEMMA InitCircuit == CircuitInit => CircuitInv
    BY BreakerAssumption DEF CircuitInit, CircuitInv, CircuitTypeOK

\* The instance b gets a sound record, the backend a sound one or what it had, and the
\* others are left alone: the part all the operations of an instance share.
LEMMA KeepSound ==
    ASSUME CircuitInv, NEW b \in Breakers, NEW r, NEW left \in 0 .. MaxFailures,
           left = failuresLeft \/ left = failuresLeft - 1,
           Sound(r, left), Keep(b, r),
           stored' = r \/ stored' = stored,
           failuresLeft' = left,
           inFlight' \in [Calls -> [by : Breakers, admitted : {"closed", "half_open"}] \cup {NoCall}],
           UNCHANGED restartsLeft
    PROVE  CircuitInv'
<1> USE BreakerAssumption DEF CircuitInv, CircuitTypeOK
<1>1. \A s : Sound(s, failuresLeft) => Sound(s, left)
    BY SoundLater
<1>2. stats'[b] = r /\ \A d \in Breakers \ {b} : stats'[d] = stats[d]
    BY Zenon DEF Keep
<1>3. stats' \in [Breakers -> Records \cup {NotLoaded}]
    BY Zenon DEF Keep, Sound
<1>4. \A d \in Breakers : stats'[d] # NotLoaded => Sound(stats'[d], left)
    BY <1>1, <1>2, Zenon
<1>5. stored' \in Records \cup {NoRecord} /\ (stored' # NoRecord => Sound(stored', left))
    BY <1>1, Zenon DEF Sound
<1> QED
    BY <1>3, <1>4, <1>5, Zenon

\* The circuit the operation of instance b leaves, seen from the state before.
LEMMA LookSound ==
    ASSUME CircuitInv, NEW b \in Breakers
    PROVE  /\ Sound(Current(Loaded(b)), failuresLeft)
           /\ failuresLeft \in 0 .. MaxFailures
    BY SoundLoaded, SoundCurrent, Zenon DEF CircuitInv, CircuitTypeOK

LEMMA NextCircuit == CircuitInv /\ [CircuitNext]_circuitVars => CircuitInv'
<1> SUFFICES ASSUME CircuitInv, [CircuitNext]_circuitVars PROVE CircuitInv'
    BY Zenon
<1>0. /\ inFlight \in [Calls -> [by : Breakers, admitted : {"closed", "half_open"}] \cup {NoCall}]
      /\ failuresLeft \in 0 .. MaxFailures
    BY Zenon DEF CircuitInv, CircuitTypeOK
<1>1. ASSUME NEW b \in Breakers, GetState(b) \/ Reject(b) PROVE CircuitInv'
    BY <1>0, <1>1, LookSound, KeepSound, Zenon DEF GetState, Look, Reject
<1>2. ASSUME NEW b \in Breakers, NEW c \in Calls, AllowRequest(b, c) PROVE CircuitInv'
    <2>1. Current(Loaded(b)).state \in {"closed", "half_open"}
        BY <1>2, Zenon DEF AllowRequest, Admits
    <2>2. inFlight' \in [Calls -> [by : Breakers, admitted : {"closed", "half_open"}] \cup {NoCall}]
        BY <1>0, <1>2, <2>1, Zenon DEF AllowRequest
    <2> QED
        BY <1>0, <1>2, <2>2, LookSound, KeepSound, Zenon DEF AllowRequest, Look
<1>3. ASSUME NEW c \in Calls, RecordSuccess(c) \/ RecordFailure(c) PROVE CircuitInv'
    <2> DEFINE b == inFlight[c].by
    <2>1. b \in Breakers
        BY <1>0, <1>3, Zenon DEF RecordSuccess, RecordFailure
    <2>2. inFlight' \in [Calls -> [by : Breakers, admitted : {"closed", "half_open"}] \cup {NoCall}]
        BY <1>0, <1>3, Zenon DEF RecordSuccess, RecordFailure, Report
    <2>3. CASE RecordSuccess(c)
        <3>1. Sound(AfterSuccess(Loaded(b)), failuresLeft)
            BY <2>1, SoundLoaded, SoundAfterSuccess, Zenon
        <3> QED
            BY <1>0, <2>1, <2>2, <2>3, <3>1, KeepSound, Zenon DEF RecordSuccess, Report
    <2>4. CASE RecordFailure(c)
        <3>1. failuresLeft \in Nat /\ failuresLeft > 0 /\ failuresLeft - 1 \in 0 .. MaxFailures
            BY <1>0, <2>4, BreakerAssumption DEF RecordFailure
        <3>2. Sound(AfterFailure(Loaded(b)), failuresLeft - 1)
            BY <2>1, <3>1, SoundLoaded, SoundAfterFailure, Zenon
        <3> QED
            BY <2>1, <2>2, <2>4, <3>1, <3>2, KeepSound, Zenon DEF RecordFailure, Report
    <2> QED
        BY <1>3, <2>3, <2>4, Zenon
<1>4. ASSUME NEW b \in Breakers, Reset(b) PROVE CircuitInv'
    <2>1. CASE stats[b] # NotLoaded
        <3>1. Sound(Transition(stats[b], "closed"), failuresLeft)
            BY <1>0, <2>1, BreakerAssumption, SoundTransition DEF CircuitInv
        <3> QED
            BY <1>0, <1>4, <2>1, <3>1, KeepSound, Zenon DEF Reset
    <2>2. CASE stats[b] = NotLoaded
        BY <1>4, <2>2, Zenon DEF Reset, CircuitInv, CircuitTypeOK
    <2> QED
        BY <2>1, <2>2, Zenon
<1>5. ASSUME NEW b \in Breakers, Restart(b) PROVE CircuitInv'
    BY <1>5, BreakerAssumption DEF Restart, CircuitInv, CircuitTypeOK
<1>6. CASE Elapse
    <2>1. PICK r \in ({stats[b] : b \in Breakers} \cup {stored}) \ {NotLoaded, NoRecord} :
             /\ r.state = "open"
             /\ stats' = [b \in Breakers |-> Aged(stats[b], r)]
             /\ stored' = Aged(stored, r)
        BY <1>6, Zenon DEF Elapse
    <2>2. UNCHANGED <<inFlight, failuresLeft, restartsLeft>>
        BY <1>6, Zenon DEF Elapse
    <2>3. Sound(r, failuresLeft)
        BY Zenon DEF CircuitInv
    <2>4. Sound([r EXCEPT !.elapsed = TRUE], failuresLeft)
        BY <2>3, Zenon DEF Sound, Records
    <2>5. \A x : Aged(x, r) = x \/ Aged(x, r) = [r EXCEPT !.elapsed = TRUE]
        BY Zenon DEF Aged
    <2>6. /\ \A b \in Breakers : stats'[b] # NotLoaded => Sound(stats'[b], failuresLeft)
          /\ stored' # NoRecord => Sound(stored', failuresLeft)
        BY <2>1, <2>4, <2>5, Zenon DEF CircuitInv
    <2>7. /\ stats' \in [Breakers -> Records \cup {NotLoaded}]
          /\ stored' \in Records \cup {NoRecord}
        BY <2>1, <2>4, <2>5, Zenon DEF CircuitInv, CircuitTypeOK, Sound
    <2> QED
        BY <2>2, <2>6, <2>7, Zenon DEF CircuitInv, CircuitTypeOK
<1>7. CASE UNCHANGED circuitVars
    BY <1>7, Zenon DEF circuitVars, CircuitInv, CircuitTypeOK
<1> QED
    BY <1>1, <1>2, <1>3, <1>4, <1>5, <1>6, <1>7, Zenon DEF CircuitNext

\* No instance stands closed, and no record is stored as closed, with failure_threshold
\* failures counted, whatever late reports, restarts and other instances do.
THEOREM AlwaysOpensInTime == CircuitSpec => []OpensInTime
<1>1. CircuitInv => OpensInTime
    BY Zenon DEF CircuitInv, OpensInTime, Sound
<1> QED
    BY <1>1, InitCircuit, NextCircuit, PTL DEF CircuitSpec

\* Instances, record and calls keep their types; half_open_successes never reaches
\* success_threshold in a circuit that stays half-open.
THEOREM CircuitTyped == CircuitSpec => []CircuitTypeOK
<1>1. CircuitInv => CircuitTypeOK
    BY Zenon DEF CircuitInv
<1> QED
    BY <1>1, InitCircuit, NextCircuit, PTL DEF CircuitSpec

\* Whatever allow_request, record_success, record_failure, reset or get_state of an
\* instance does to a circuit is in the backend when it returns.
THEOREM MutationsAlwaysPersisted == CircuitSpec => MutationsPersisted
<1>1. ASSUME CircuitInv, [CircuitNext]_circuitVars
      PROVE  [\A b \in Breakers :
                 stats'[b] # NotLoaded /\ Untimed(stats'[b]) # Untimed(Loaded(b)) =>
                     stored' = stats'[b]]_circuitVars
    <2> SUFFICES ASSUME NEW b \in Breakers, stats'[b] # NotLoaded,
                        Untimed(stats'[b]) # Untimed(Loaded(b))
                 PROVE  stored' = stats'[b]
        BY Zenon
    <2>0. stats \in [Breakers -> Records \cup {NotLoaded}]
        BY <1>1, Zenon DEF CircuitInv, CircuitTypeOK
    <2>1. stats'[b] # stats[b]
        BY Zenon DEF Loaded
    <2>2. ASSUME NEW d \in Breakers, NEW r, Keep(d, r)
          PROVE  b = d /\ stats'[b] = r
        BY <2>0, <2>1, <2>2, Zenon DEF Keep
    <2>3. ASSUME NEW d \in Breakers, Look(d) PROVE stored' = stats'[b]
        <3>1. b = d /\ stats'[b] = Current(Loaded(d))
            BY <2>2, <2>3, Zenon DEF Look
        <3> QED
            BY <2>3, <3>1, Zenon DEF Look
    <2>4. ASSUME NEW d \in Breakers, Reject(d) PROVE stored' = stats'[b]
        BY <2>2, <2>4, Zenon DEF Reject
    <2>5. ASSUME NEW c \in Calls, RecordSuccess(c) \/ RecordFailure(c)
          PROVE  stored' = stats'[b]
        <3>1. inFlight[c].by \in Breakers
            BY <1>1, <2>5, Zenon DEF RecordSuccess, RecordFailure, CircuitInv, CircuitTypeOK
        <3> QED
            BY <2>2, <2>5, <3>1 DEF RecordSuccess, RecordFailure, Report
    <2>6. ASSUME NEW d \in Breakers, Reset(d) PROVE stored' = stats'[b]
        BY <2>1, <2>2, <2>6, Zenon DEF Reset
    <2>7. ASSUME NEW d \in Breakers, Restart(d) PROVE stored' = stats'[b]
        BY <2>0, <2>1, <2>7, Zenon DEF Restart
    <2>8. CASE Elapse
        <3>1. PICK r : /\ r # NotLoaded
                       /\ r \in {stats[d] : d \in Breakers} \cup {stored}
                       /\ r # NoRecord
                       /\ stats' = [d \in Breakers |-> Aged(stats[d], r)]
            BY <2>8, Zenon DEF Elapse
        <3>2. stats[b] = r /\ stats'[b] = [r EXCEPT !.elapsed = TRUE]
            BY <2>1, <3>1, Zenon DEF Aged
        <3>3. Loaded(b) = r /\ r \in Records
            BY <2>0, <3>1, <3>2, Zenon DEF Loaded
        <3>4. Untimed(stats'[b]) = Untimed(Loaded(b))
            BY <3>2, <3>3, Zenon DEF Untimed, Records
        <3> QED
            BY <3>4, Zenon
    <2>9. CASE UNCHANGED circuitVars
        BY <2>1, <2>9, Zenon DEF circuitVars
    <2> QED
        BY <1>1, <2>3, <2>4, <2>5, <2>6, <2>7, <2>8, <2>9
        DEF CircuitNext, GetState, AllowRequest
<1> QED
    BY <1>1, InitCircuit, NextCircuit, PTL DEF CircuitSpec, MutationsPersisted

-----------------------------------------------------------------------------
(* Session recovery.  An instance that a sweep holds for expired has died, *)
(* or was late, or came back: the only way a session changes hands.        *)

\* A running instance has a row, and a heartbeat unless it was late.
RowsInv ==
    /\ \A i \in up : row[i] # "none" /\ (i \notin suspect => i \in fresh)
    /\ \A s \in Sessions : session[s].owner # NoOwner => row[session[s].owner] # "none"
    /\ \A s \in Sessions : session[s].state = "absent" => session[s].owner = NoOwner

\* A process executes the sessions it owns, or one that was taken from it.
WorkInv ==
    \A i \in Instances : \A s \in work[i] :
        i \in up /\ (session[s].owner = i \/ s \in adopted)

Gone(i) == i \notin up \/ i \in suspect

SweepInv ==
    \A r \in Instances :
        /\ sweep[r].at # "idle" => r \in up
        /\ \A i \in sweep[r].expired : Gone(i)
        /\ \A s \in sweep[r].orphans :
              /\ session[s].state # "absent"
              /\ Gone(session[s].owner) \/ s \in adopted
              /\ session[s].state = "completed" => session[s].owner \in suspect \/ s \in adopted

RecoveryInv == RecoveryTypeOK /\ RowsInv /\ WorkInv /\ SweepInv

Sweep == [at : {"idle", "mark", "list", "assign"},
          expired : SUBSET Instances, orphans : SUBSET Sessions]

Record == [owner : Instances \cup {NoOwner},
           state : {"absent", "running", "recovered", "completed"}]

\* What every step below needs of the types.
LEMMA RecoveryTypes ==
    ASSUME RecoveryInv
    PROVE  /\ up \subseteq Instances /\ fresh \subseteq Instances /\ suspect \subseteq Instances
           /\ adopted \subseteq Sessions
           /\ row \in [Instances -> {"none", "alive", "expired"}]
           /\ session \in [Sessions -> Record]
           /\ work \in [Instances -> SUBSET Sessions]
           /\ sweep \in [Instances -> Sweep]
BY Zenon DEF RecoveryInv, RecoveryTypeOK, Sweep, Record

LEMMA InitRecovery == RecoveryInit => RecoveryInv
<1> SUFFICES ASSUME RecoveryInit PROVE RecoveryInv
  BY Zenon
<1>1. NoSweep \in Sweep /\ NoSweep.at = "idle" /\ NoSweep.expired = {} /\ NoSweep.orphans = {}
  BY Zenon DEF NoSweep, Sweep
<1>2. sweep \in [Instances -> Sweep] /\ \A r \in Instances : sweep[r] = NoSweep
  BY <1>1, Zenon DEF RecoveryInit
<1>3. RecoveryTypeOK
  BY <1>1, <1>2, Zenon DEF RecoveryInit, RecoveryTypeOK, Sweep
<1>4. RowsInv
  BY Zenon DEF RecoveryInit, RowsInv
<1>5. WorkInv /\ SweepInv
  BY <1>1, <1>2, Zenon DEF RecoveryInit, WorkInv, SweepInv
<1> QED BY <1>3, <1>4, <1>5, Zenon DEF RecoveryInv

LEMMA RegisterKeeps ==
    ASSUME RecoveryInv, NEW i \in Instances, Register(i)
    PROVE  RecoveryInv'
<1>t. /\ up \subseteq Instances /\ fresh \subseteq Instances /\ suspect \subseteq Instances
      /\ row \in [Instances -> {"none", "alive", "expired"}]
      /\ session \in [Sessions -> Record]
      /\ sweep \in [Instances -> Sweep]
  BY RecoveryTypes, Zenon
<1>1. /\ up' = up \cup {i} /\ fresh' = fresh \cup {i}
      /\ row' \in [Instances -> {"none", "alive", "expired"}]
      /\ row'[i] = "alive" /\ \A j \in Instances \ {i} : row'[j] = row[j]
      /\ suspect \subseteq suspect' /\ suspect' \subseteq suspect \cup {i}
      /\ row[i] # "none" => i \in suspect'
      /\ UNCHANGED <<session, work, sweep, adopted>>
  BY <1>t, Zenon DEF Register
<1>2. RecoveryTypeOK'
  BY <1>1, Zenon DEF RecoveryInv, RecoveryTypeOK
<1>3. RowsInv'
  <2>1. \A j \in up' : row'[j] # "none" /\ (j \notin suspect' => j \in fresh')
    BY <1>t, <1>1, Zenon DEF RecoveryInv, RowsInv
  <2>2. \A s \in Sessions : session[s].owner \in Instances \cup {NoOwner}
    BY <1>t, Zenon DEF Record
  <2>3. \A s \in Sessions : session[s].owner # NoOwner => row'[session[s].owner] # "none"
    BY <1>1, <2>2, Zenon DEF RecoveryInv, RowsInv
  <2> QED BY <1>1, <2>1, <2>3, Zenon DEF RecoveryInv, RowsInv
<1>4. WorkInv'
  BY <1>1, Zenon DEF RecoveryInv, WorkInv
\* Whoever a sweep holds for gone has a row, so it comes back a suspect.
<1>5. ASSUME NEW j, Gone(j), j = i => row[i] # "none" PROVE Gone(j)'
  BY <1>1, <1>5, Zenon DEF Gone
<1>6. SweepInv'
  <2>1. ASSUME NEW r \in Instances, NEW j \in sweep[r].expired PROVE Gone(j)'
    BY <1>5, Zenon DEF RecoveryInv, SweepInv, RecoveryTypeOK
  <2>2. ASSUME NEW r \in Instances, NEW s \in sweep[r].orphans, Gone(session[s].owner)
        PROVE  Gone(session[s].owner)'
    <3>1. s \in Sessions
      BY <1>t, Zenon DEF Sweep
    <3>2. session[s].owner = i => row[i] # "none"
      BY <3>1, RecoveryAssumption, Zenon DEF RecoveryInv, RowsInv
    <3> QED BY <2>2, <3>2, <1>1, <1>5, Zenon
  <2>3. ASSUME NEW r \in Instances, NEW s \in sweep[r].orphans
        PROVE  /\ session[s].state # "absent"
               /\ Gone(session[s].owner) \/ s \in adopted
               /\ session[s].state = "completed" => session[s].owner \in suspect \/ s \in adopted
    BY Zenon DEF RecoveryInv, SweepInv
  <2>4. \A r \in Instances : sweep[r].at # "idle" => r \in up
    BY Zenon DEF RecoveryInv, SweepInv
  <2> QED BY <1>1, <2>1, <2>2, <2>3, <2>4, Zenon DEF SweepInv
<1> QED BY <1>2, <1>3, <1>4, <1>6, Zenon DEF RecoveryInv

LEMMA HeartbeatKeeps ==
    ASSUME RecoveryInv, NEW i \in Instances, Heartbeat(i)
    PROVE  RecoveryInv'
<1>t. /\ up \subseteq Instances /\ fresh \subseteq Instances
      /\ row \in [Instances -> {"none", "alive", "expired"}]
      /\ session \in [Sessions -> Record]
  BY RecoveryTypes, Zenon
<1>1. /\ fresh' = fresh \cup {i}
      /\ row' \in [Instances -> {"none", "alive", "expired"}]
      /\ row'[i] = "alive" /\ \A j \in Instances \ {i} : row'[j] = row[j]
      /\ UNCHANGED <<up, session, work, sweep, adopted, suspect>>
  BY <1>t, Zenon DEF Heartbeat
<1>2. RecoveryTypeOK'
  BY <1>1, Zenon DEF RecoveryInv, RecoveryTypeOK
<1>3. RowsInv'
  <2>1. \A s \in Sessions : session[s].owner \in Instances \cup {NoOwner}
    BY <1>t, Zenon DEF Record
  <2> QED BY <1>t, <1>1, <2>1, Zenon DEF RecoveryInv, RowsInv
<1>4. WorkInv' /\ SweepInv'
  BY <1>1, Zenon DEF RecoveryInv, WorkInv, SweepInv, Gone
<1> QED BY <1>2, <1>3, <1>4, Zenon DEF RecoveryInv

LEMMA DiesKeeps ==
    ASSUME RecoveryInv, NEW i \in Instances, InstanceDies(i)
    PROVE  RecoveryInv'
<1>t. /\ work \in [Instances -> SUBSET Sessions]
      /\ sweep \in [Instances -> Sweep]
  BY RecoveryTypes, Zenon
<1>1. /\ up' = up \ {i}
      /\ work' \in [Instances -> SUBSET Sessions] /\ sweep' \in [Instances -> Sweep]
      /\ work'[i] = {} /\ \A j \in Instances \ {i} : work'[j] = work[j]
      /\ sweep'[i] = NoSweep /\ \A j \in Instances \ {i} : sweep'[j] = sweep[j]
      /\ UNCHANGED <<row, fresh, session, adopted, suspect>>
  BY <1>t, Zenon DEF InstanceDies, NoSweep, Sweep
<1>2. NoSweep.at = "idle" /\ NoSweep.expired = {} /\ NoSweep.orphans = {}
  BY Zenon DEF NoSweep
<1>3. RecoveryTypeOK'
  BY <1>1, <1>2 DEF RecoveryInv, RecoveryTypeOK, Sweep
<1>4. RowsInv' /\ WorkInv'
  BY <1>1, Zenon DEF RecoveryInv, RowsInv, WorkInv
<1>5. SweepInv'
  BY <1>1, <1>2, Zenon DEF RecoveryInv, SweepInv, Gone
<1> QED BY <1>3, <1>4, <1>5, Zenon DEF RecoveryInv

LEMMA LapseKeeps ==
    ASSUME RecoveryInv, NEW i \in Instances, Lapse(i)
    PROVE  RecoveryInv'
<1>1. /\ fresh' = fresh \ {i}
      /\ suspect \subseteq suspect' /\ suspect' \subseteq suspect \cup {i}
      /\ i \in up => i \in suspect'
      /\ UNCHANGED <<up, row, session, work, sweep, adopted>>
  BY Zenon DEF Lapse
<1>2. RecoveryTypeOK'
  BY <1>1, Zenon DEF RecoveryInv, RecoveryTypeOK
<1>3. RowsInv' /\ WorkInv'
  BY <1>1, Zenon DEF RecoveryInv, RowsInv, WorkInv
<1>4. SweepInv'
  BY <1>1, Zenon DEF RecoveryInv, SweepInv, Gone
<1> QED BY <1>2, <1>3, <1>4, Zenon DEF RecoveryInv

\* A session that a running process writes, in a state other than "absent".
LEMMA PutKeeps ==
    ASSUME RecoveryInv, NEW i \in up, NEW s \in Sessions,
           NEW state \in {"running", "completed"}, PutSession(s, i, state),
           session[s].owner = i \/ s \in adopted \/ session[s].state = "absent",
           work' \in [Instances -> SUBSET Sessions],
           \A j \in Instances : work'[j] \subseteq work[j] \cup (IF j = i THEN {s} ELSE {}),
           UNCHANGED <<up, row, fresh, sweep, adopted, suspect>>
    PROVE  RecoveryInv'
<1>t. /\ up \subseteq Instances
      /\ session \in [Sessions -> Record]
      /\ sweep \in [Instances -> Sweep]
  BY RecoveryTypes, Zenon
<1>1. /\ session' \in [Sessions -> Record]
      /\ session'[s].owner = i /\ session'[s].state = state
      /\ \A x \in Sessions \ {s} : session'[x] = session[x]
  BY <1>t, Zenon DEF PutSession, Record
<1>2. i # NoOwner /\ row[i] # "none"
  BY <1>t, RecoveryAssumption, Zenon DEF RecoveryInv, RowsInv
<1>3. RecoveryTypeOK'
  BY <1>1 DEF RecoveryInv, RecoveryTypeOK, Record
<1>4. RowsInv'
  BY <1>1, <1>2, Zenon DEF RecoveryInv, RowsInv
\* Another process at work on s does not own it, so s was adopted, or nobody did.
<1>5. ASSUME NEW j \in Instances, NEW x \in work'[j]
      PROVE  j \in up' /\ (session'[x].owner = j \/ x \in adopted')
  <2>1. CASE x = s /\ j = i
    BY <1>1, <2>1, Zenon
  <2>2. CASE x # s \/ j # i
    <3>1. x \in work[j] /\ x \in Sessions
      BY <1>5, <2>2, RecoveryTypes, Zenon
    <3>2. j \in up /\ (session[x].owner = j \/ x \in adopted)
      BY <3>1, Zenon DEF RecoveryInv, WorkInv
    <3>3. CASE x # s
      BY <1>1, <3>1, <3>2, <3>3, Zenon
    <3>4. CASE x = s /\ j # i
      <4>1. j # NoOwner
        BY RecoveryAssumption, Zenon
      <4>2. s \in adopted
        BY <3>2, <3>4, <4>1, Zenon DEF RecoveryInv, RowsInv
      <4> QED BY <3>2, <3>4, <4>2, Zenon
    <3> QED BY <2>2, <3>3, <3>4, Zenon
  <2> QED BY <2>1, <2>2, Zenon
<1>6. WorkInv'
  BY <1>5, Zenon DEF WorkInv
<1>7. ASSUME NEW r \in Instances, NEW x \in sweep[r].orphans
      PROVE  /\ session'[x].state # "absent"
             /\ session'[x].owner \notin up \/ session'[x].owner \in suspect \/ x \in adopted
             /\ session'[x].state = "completed" => session'[x].owner \in suspect \/ x \in adopted
  <2>1. /\ session[x].state # "absent"
        /\ Gone(session[x].owner) \/ x \in adopted
        /\ session[x].state = "completed" => session[x].owner \in suspect \/ x \in adopted
    BY Zenon DEF RecoveryInv, SweepInv
  <2>2. x \in Sessions
    BY <1>t, Zenon DEF Sweep
  <2>3. CASE x # s
    BY <1>1, <2>1, <2>2, <2>3, Zenon DEF Gone
  <2>4. CASE x = s
    BY <1>1, <2>1, <2>4, Zenon DEF Gone
  <2> QED BY <2>3, <2>4, Zenon
<1>8. SweepInv'
  BY <1>7, Zenon DEF RecoveryInv, SweepInv, Gone
<1> QED BY <1>3, <1>4, <1>6, <1>8, Zenon DEF RecoveryInv

LEMMA SessionKeeps ==
    ASSUME RecoveryInv, NEW i \in Instances, NEW s \in Sessions,
           BeginSession(i, s) \/ ResumeSession(i, s) \/ FinishSession(i, s)
    PROVE  RecoveryInv'
<1>t. work \in [Instances -> SUBSET Sessions] /\ session \in [Sessions -> Record]
  BY RecoveryTypes, Zenon
<1>1. UNCHANGED <<up, row, fresh, sweep, adopted, suspect>>
  BY Zenon DEF BeginSession, ResumeSession, FinishSession
<1>2. i \in up
  BY Zenon DEF BeginSession, ResumeSession, FinishSession, RecoveryInv, WorkInv
<1>3. /\ work' \in [Instances -> SUBSET Sessions]
      /\ \A j \in Instances : work'[j] \subseteq work[j] \cup (IF j = i THEN {s} ELSE {})
  <2>1. work' = [work EXCEPT ![i] = @ \cup {s}] \/ work' = [work EXCEPT ![i] = @ \ {s}]
    BY Zenon DEF BeginSession, ResumeSession, FinishSession
  <2> QED BY <1>t, <2>1, Zenon
<1>4. session[s].owner = i \/ s \in adopted \/ session[s].state = "absent"
  BY DEF BeginSession, ResumeSession, FinishSession, RecoveryInv, WorkInv
<1>5. \E state \in {"running", "completed"} : PutSession(s, i, state)
  BY Zenon DEF BeginSession, ResumeSession, FinishSession
<1> QED BY <1>1, <1>2, <1>3, <1>4, <1>5, PutKeeps

LEMMA SweepKeeps ==
    ASSUME RecoveryInv, NEW r \in Instances, DetectExpired(r) \/ MarkExpired(r) \/ ListOrphans(r)
    PROVE  RecoveryInv'
<1>t. /\ row \in [Instances -> {"none", "alive", "expired"}]
      /\ session \in [Sessions -> Record]
      /\ sweep \in [Instances -> Sweep]
      /\ up \subseteq Instances
  BY RecoveryTypes, Zenon
<1>u. UNCHANGED <<up, fresh, session, work, adopted, suspect>>
  BY Zenon DEF DetectExpired, MarkExpired, ListOrphans
\* What the sweep of r may turn into.
<1>p. ASSUME NEW w \in Sweep, sweep' = [sweep EXCEPT ![r] = w],
             row' \in [Instances -> {"none", "alive", "expired"}],
             \A i \in Instances : row[i] # "none" => row'[i] # "none",
             r \in up,
             \A i \in w.expired : Gone(i) /\ row[i] # "none",
             \A s \in w.orphans :
                 /\ session[s].state # "absent"
                 /\ Gone(session[s].owner) \/ s \in adopted
                 /\ session[s].state = "completed" => session[s].owner \in suspect \/ s \in adopted
      PROVE  RecoveryInv'
  <2>1. /\ sweep' \in [Instances -> Sweep]
        /\ sweep'[r] = w /\ \A q \in Instances \ {r} : sweep'[q] = sweep[q]
    BY <1>p, <1>t, Zenon
  <2>2. \A q \in Instances : \A i \in sweep'[q].expired : row'[i] # "none"
    <3>1. \A q \in Instances : \A i \in sweep[q].expired : i \in Instances /\ row[i] # "none"
      BY <1>t, Zenon DEF RecoveryInv, RecoveryTypeOK, Sweep
    <3>2. w.expired \subseteq Instances
      BY <1>p, Zenon DEF Sweep
    <3> QED BY <1>p, <2>1, <3>1, <3>2, Zenon
  <2>3. RecoveryTypeOK'
    BY <1>p, <1>u, <2>1, <2>2, Zenon DEF RecoveryInv, RecoveryTypeOK, Sweep
  <2>4. RowsInv'
    <3>1. \A s \in Sessions : session[s].owner \in Instances \cup {NoOwner}
      BY <1>t, Zenon DEF Record
    <3> QED BY <1>p, <1>t, <1>u, <3>1, Zenon DEF RecoveryInv, RowsInv
  <2>5. WorkInv'
    BY <1>u, Zenon DEF RecoveryInv, WorkInv
  <2>6. SweepInv'
    BY <1>p, <1>u, <2>1, Zenon DEF RecoveryInv, SweepInv, Gone
  <2> QED BY <2>3, <2>4, <2>5, <2>6, Zenon DEF RecoveryInv
<1>s. /\ sweep[r] \in Sweep
      /\ sweep[r].at # "idle" => r \in up
      /\ \A i \in sweep[r].expired : Gone(i) /\ row[i] # "none"
      /\ \A s \in sweep[r].orphans :
            /\ session[s].state # "absent"
            /\ Gone(session[s].owner) \/ s \in adopted
            /\ session[s].state = "completed" => session[s].owner \in suspect \/ s \in adopted
  BY <1>t, Zenon DEF RecoveryInv, RecoveryTypeOK, SweepInv
\* An instance whose heartbeat ran out is dead, or was late.
<1>1. CASE DetectExpired(r)
  <2> DEFINE rows == {i \in Instances \ fresh : row[i] = "alive"}
             w    == [NoSweep EXCEPT !.at = "mark", !.expired = rows]
  <2>1. sweep' = [sweep EXCEPT ![r] = w] /\ r \in up /\ UNCHANGED row
    BY <1>1, Zenon DEF DetectExpired
  <2>2. w \in Sweep /\ w.expired = rows /\ w.orphans = {}
    BY Zenon DEF NoSweep, Sweep
  <2>3. \A i \in rows : Gone(i) /\ row[i] # "none"
    BY Zenon DEF RecoveryInv, RowsInv, Gone
  <2> HIDE DEF w
  <2> QED BY <1>p, <1>t, <2>1, <2>2, <2>3, Zenon
<1>2. CASE MarkExpired(r)
  <2> DEFINE w == [sweep[r] EXCEPT !.at = "list"]
  <2>1. /\ sweep' = [sweep EXCEPT ![r] = w] /\ r \in up
        /\ row' \in [Instances -> {"none", "alive", "expired"}]
        /\ \A i \in Instances : row[i] # "none" => row'[i] # "none"
    BY <1>2, <1>s, <1>t, Zenon DEF MarkExpired
  <2>2. w \in Sweep /\ w.expired = sweep[r].expired /\ w.orphans = sweep[r].orphans
    BY <1>s, Zenon DEF Sweep
  <2> HIDE DEF w
  <2> QED BY <1>p, <1>s, <2>1, <2>2, Zenon
<1>3. CASE ListOrphans(r)
  <2>1. PICK i \in sweep[r].expired :
          sweep' = [sweep EXCEPT ![r] =
              [at      |-> IF @.expired = {i} THEN "assign" ELSE "list",
               expired |-> @.expired \ {i},
               orphans |-> @.orphans \cup {s \in Owned(i) : IsOrphan(s)}]]
    BY <1>3, Zenon DEF ListOrphans
  <2> DEFINE found == {s \in Owned(i) : IsOrphan(s)}
             w == [at      |-> IF sweep[r].expired = {i} THEN "assign" ELSE "list",
                   expired |-> sweep[r].expired \ {i},
                   orphans |-> sweep[r].orphans \cup found]
  <2>2. sweep' = [sweep EXCEPT ![r] = w] /\ r \in up /\ UNCHANGED row
    BY <1>3, <1>s, <2>1, Zenon DEF ListOrphans
  <2>3. found \subseteq Sessions
    BY Zenon DEF Owned
  <2>4. w \in Sweep /\ w.expired = sweep[r].expired \ {i} /\ w.orphans = sweep[r].orphans \cup found
    BY <1>s, <2>3, Zenon DEF Sweep
  <2>5. \A s \in found : /\ session[s].owner = i /\ Gone(i)
                         /\ session[s].state \notin {"absent", "completed"}
    BY <1>s, Zenon DEF Owned, IsOrphan
  <2> HIDE DEF w, found
  <2>6. \A s \in w.orphans :
           /\ session[s].state # "absent"
           /\ Gone(session[s].owner) \/ s \in adopted
           /\ session[s].state = "completed" => session[s].owner \in suspect \/ s \in adopted
    BY <1>s, <2>4, <2>5, Zenon
  <2>7. \A j \in w.expired : Gone(j) /\ row[j] # "none"
    BY <1>s, <2>4, Zenon
  <2> QED BY <1>p, <1>t, <2>2, <2>4, <2>6, <2>7, Zenon
<1> QED BY <1>1, <1>2, <1>3, Zenon

LEMMA ReassignKeeps ==
    ASSUME RecoveryInv, NEW r \in Instances, Reassign(r)
    PROVE  RecoveryInv'
<1>t. /\ row \in [Instances -> {"none", "alive", "expired"}]
      /\ session \in [Sessions -> Record]
      /\ sweep \in [Instances -> Sweep]
      /\ adopted \subseteq Sessions
  BY RecoveryTypes, Zenon
<1>u. UNCHANGED <<up, row, fresh, work, suspect>> /\ sweep[r].at = "assign"
  BY Zenon DEF Reassign
<1>r. r \in up /\ r # NoOwner /\ row[r] # "none"
  BY <1>u, RecoveryAssumption, Zenon DEF RecoveryInv, SweepInv, RowsInv
\* The sweep forgets what it has dealt with.
<1>p. ASSUME NEW w \in Sweep, sweep' = [sweep EXCEPT ![r] = w],
             w.expired \subseteq sweep[r].expired, w.orphans \subseteq sweep[r].orphans
      PROVE  /\ sweep' \in [Instances -> Sweep]
             /\ \A q \in Instances : /\ sweep'[q].expired \subseteq sweep[q].expired
                                     /\ sweep'[q].orphans \subseteq sweep[q].orphans
                                     /\ sweep'[q].at # "idle" => q \in up
  <2>1. /\ sweep' \in [Instances -> Sweep]
        /\ sweep'[r] = w /\ \A q \in Instances \ {r} : sweep'[q] = sweep[q]
    BY <1>p, <1>t, Zenon
  <2> QED BY <1>p, <1>r, <2>1, Zenon DEF RecoveryInv, SweepInv
<1>1. CASE sweep' = [sweep EXCEPT ![r] = NoSweep] /\ UNCHANGED <<session, adopted>>
  <2>1. NoSweep \in Sweep /\ NoSweep.expired = {} /\ NoSweep.orphans = {}
    BY Zenon DEF NoSweep, Sweep
  <2>2. /\ sweep' \in [Instances -> Sweep]
        /\ \A q \in Instances : /\ sweep'[q].expired \subseteq sweep[q].expired
                                /\ sweep'[q].orphans \subseteq sweep[q].orphans
                                /\ sweep'[q].at # "idle" => q \in up
    BY <1>1, <1>p, <2>1, Zenon
  <2>3. RecoveryTypeOK'
    BY <1>1, <1>u, <2>2, Zenon DEF RecoveryInv, RecoveryTypeOK, Sweep
  <2>4. RowsInv' /\ WorkInv'
    BY <1>1, <1>u, Zenon DEF RecoveryInv, RowsInv, WorkInv
  <2>5. SweepInv'
    BY <1>1, <1>u, <2>2, Zenon DEF RecoveryInv, SweepInv, Gone
  <2> QED BY <2>3, <2>4, <2>5, Zenon DEF RecoveryInv
<1>2. ASSUME NEW s \in sweep[r].orphans, PutSession(s, r, "recovered"),
             sweep' = [sweep EXCEPT ![r].orphans = @ \ {s}], adopted' = adopted \cup {s}
      PROVE  RecoveryInv'
  <2> DEFINE w == [sweep[r] EXCEPT !.orphans = @ \ {s}]
  <2>s. s \in Sessions /\ sweep[r] \in Sweep
    BY <1>t, Zenon DEF Sweep
  <2>1. w \in Sweep /\ w.expired = sweep[r].expired /\ w.orphans = sweep[r].orphans \ {s}
    BY <2>s, Zenon DEF Sweep
  <2>2. sweep' = [sweep EXCEPT ![r] = w]
    BY <1>2, Zenon
  <2> HIDE DEF w
  <2>3. /\ sweep' \in [Instances -> Sweep]
        /\ \A q \in Instances : /\ sweep'[q].expired \subseteq sweep[q].expired
                                /\ sweep'[q].orphans \subseteq sweep[q].orphans
                                /\ sweep'[q].at # "idle" => q \in up
    BY <1>p, <2>1, <2>2, Zenon
  <2>4. /\ session' \in [Sessions -> Record]
        /\ session'[s].owner = r /\ session'[s].state = "recovered"
        /\ \A x \in Sessions \ {s} : session'[x] = session[x]
    BY <1>2, <1>t, <2>s, Zenon DEF PutSession, Record
  <2>5. RecoveryTypeOK'
    BY <1>2, <1>u, <2>s, <2>3, <2>4 DEF RecoveryInv, RecoveryTypeOK, Sweep, Record
  <2>6. RowsInv'
    BY <1>u, <1>r, <2>4, Zenon DEF RecoveryInv, RowsInv
  <2>7. WorkInv'
    <3>1. \A i \in Instances : \A x \in work[i] : x \in Sessions
      BY RecoveryTypes, Zenon
    <3> QED BY <1>2, <1>u, <2>4, <3>1, Zenon DEF RecoveryInv, WorkInv
  <2>8. SweepInv'
    <3>1. ASSUME NEW q \in Instances, NEW x \in sweep[q].orphans
          PROVE  /\ session'[x].state # "absent"
                 /\ Gone(session'[x].owner) \/ x \in adopted'
                 /\ session'[x].state = "completed" => session'[x].owner \in suspect \/ x \in adopted'
      <4>1. x \in Sessions
        BY <1>t, Zenon DEF Sweep
      <4>2. CASE x = s
        BY <1>2, <2>4, <4>2, Zenon
      <4>3. CASE x # s
        BY <1>2, <2>4, <4>1, <4>3, Zenon DEF RecoveryInv, SweepInv
      <4> QED BY <4>2, <4>3, Zenon
    <3> QED BY <1>u, <2>3, <3>1, Zenon DEF RecoveryInv, SweepInv, Gone
  <2> QED BY <2>5, <2>6, <2>7, <2>8, Zenon DEF RecoveryInv
<1> QED BY <1>1, <1>2, Zenon DEF Reassign

LEMMA NextRecovery == RecoveryInv /\ [RecoveryNext]_recoveryVars => RecoveryInv'
<1> SUFFICES ASSUME RecoveryInv, [RecoveryNext]_recoveryVars PROVE RecoveryInv'
  BY Zenon
<1>1. CASE UNCHANGED recoveryVars
  BY <1>1, Zenon DEF recoveryVars, RecoveryInv, RecoveryTypeOK, RowsInv, WorkInv, SweepInv, Gone
<1>2. ASSUME NEW i \in Instances, Register(i) \/ Heartbeat(i) \/ InstanceDies(i) \/ Lapse(i)
      PROVE  RecoveryInv'
  BY <1>2, RegisterKeeps, HeartbeatKeeps, DiesKeeps, LapseKeeps, Zenon
<1>3. ASSUME NEW r \in Instances, Recover(r) PROVE RecoveryInv'
  BY <1>3, SweepKeeps, ReassignKeeps, Zenon DEF Recover
<1> QED
  BY <1>1, <1>2, <1>3, SessionKeeps, Zenon DEF RecoveryNext

LEMMA AlwaysRecoveryInv == RecoverySpec => []RecoveryInv
BY InitRecovery, NextRecovery, PTL DEF RecoverySpec

\* The instances table, the sessions and the sweeps keep their types whatever dies,
\* comes back or sweeps at the same time.
THEOREM RecoveryTyped == RecoverySpec => []RecoveryTypeOK
<1>1. RecoveryInv => RecoveryTypeOK
  BY Zenon DEF RecoveryInv
<1> QED BY <1>1, AlwaysRecoveryInv, PTL

LEMMA TakenStep ==
    ASSUME RecoveryInv, [RecoveryNext]_recoveryVars, NEW s \in Sessions
    PROVE  /\ session'[s].owner # session[s].owner =>
                 Gone(session[s].owner) \/ s \in adopted
           /\ session[s].state = "completed" /\ session'[s].state # "completed" =>
                 session[s].owner \in suspect \/ s \in adopted
<1>t. session \in [Sessions -> Record] /\ sweep \in [Instances -> Sweep]
  BY RecoveryTypes, Zenon
<1>1. ASSUME NEW i \in Instances, NEW x \in Sessions,
             BeginSession(i, x) \/ ResumeSession(i, x) \/ FinishSession(i, x)
      PROVE  /\ session'[s].owner # session[s].owner => Gone(session[s].owner) \/ s \in adopted
             /\ session[s].state = "completed" => session'[s].state = "completed"
  <2>1. \E state \in {"running", "completed"} :
           session' = [session EXCEPT ![x] = [owner |-> i, state |-> state]]
    BY <1>1, Zenon DEF BeginSession, ResumeSession, FinishSession, PutSession
  <2>2. CASE s # x
    BY <1>t, <2>1, <2>2, Zenon
  <2>3. CASE s = x
    <3>1. session[s].owner = i \/ s \in adopted \/ session[s].state = "absent"
      BY <1>1, <2>3 DEF BeginSession, ResumeSession, FinishSession, RecoveryInv, WorkInv
    <3>2. session[s].state = "absent" => Gone(session[s].owner)
      BY RecoveryAssumption, RecoveryTypes, Zenon DEF RecoveryInv, RowsInv, Gone
    <3>3. session'[s].owner = i
      BY <1>t, <2>1, <2>3
    <3>4. session[s].state = "completed" => session'[s].state = "completed"
      BY <1>1, <1>t, <2>3 DEF BeginSession, ResumeSession, FinishSession, PutSession
    <3> QED BY <3>1, <3>2, <3>3, <3>4, Zenon
  <2> QED BY <2>2, <2>3, Zenon
<1>2. ASSUME NEW r \in Instances, Reassign(r)
      PROVE  \/ session'[s] = session[s]
             \/ /\ Gone(session[s].owner) \/ s \in adopted
                /\ session[s].state = "completed" => session[s].owner \in suspect \/ s \in adopted
  <2>1. CASE s \in sweep[r].orphans
    BY <2>1, Zenon DEF RecoveryInv, SweepInv
  <2>2. CASE s \notin sweep[r].orphans
    BY <1>2, <1>t, <2>2, Zenon DEF Reassign, PutSession
  <2> QED BY <2>1, <2>2, Zenon
<1>3. ASSUME NEW i \in Instances,
             \/ Register(i) \/ Heartbeat(i) \/ InstanceDies(i) \/ Lapse(i)
             \/ DetectExpired(i) \/ MarkExpired(i) \/ ListOrphans(i)
      PROVE  UNCHANGED session
  BY <1>3, Zenon DEF Register, Heartbeat, InstanceDies, Lapse, DetectExpired, MarkExpired, ListOrphans
<1>4. CASE UNCHANGED recoveryVars
  BY <1>4, Zenon DEF recoveryVars
<1> QED
  BY <1>1, <1>2, <1>3, <1>4, Zenon DEF RecoveryNext, Recover

\* No session changes hands while its owner runs, unless that owner was late or came
\* back, or the session was adopted before: for any number of instances, sessions
\* and interleaved sweeps.
THEOREM OnlyOrphansEverTaken == RecoverySpec => OnlyOrphansTaken
<1>1. RecoveryInv /\ [RecoveryNext]_recoveryVars =>
        [\A s \in Sessions :
            LET owner == session[s].owner
            IN  session'[s].owner # owner =>
                    owner \notin up \/ owner \in suspect \/ s \in adopted]_recoveryVars
  BY TakenStep, Zenon DEF Gone
<1> QED BY <1>1, AlwaysRecoveryInv, PTL DEF RecoverySpec, OnlyOrphansTaken

\* A session its first owner completed is never turned back into a recovered one,
\* unless that owner was late or came back.
THEOREM CompletedAlwaysStays == RecoverySpec => CompletedStays
<1>1. RecoveryInv /\ [RecoveryNext]_recoveryVars =>
        [\A s \in Sessions :
            session[s].state = "completed" /\ session'[s].state # "completed" =>
                session[s].owner \in suspect \/ s \in adopted]_recoveryVars
  BY TakenStep, Zenon
<1> QED BY <1>1, AlwaysRecoveryInv, PTL DEF RecoverySpec, CompletedStays

-----------------------------------------------------------------------------
(* The two components side by side.                                        *)

\* Every table, session, sweep and circuit of the composed run keeps its type.
THEOREM ResilienceTyped == ResilienceSpec => []ResilienceTypeOK
<1>1. ResilienceInit => RecoveryInv /\ CircuitInv
  BY InitRecovery, InitCircuit, Zenon DEF ResilienceInit
<1>2. RecoveryInv /\ CircuitInv /\ [ResilienceNext]_resilienceVars => RecoveryInv' /\ CircuitInv'
  <2>1. [ResilienceNext]_resilienceVars => [RecoveryNext]_recoveryVars /\ [CircuitNext]_circuitVars
    BY Zenon DEF ResilienceNext, resilienceVars
  <2> QED BY <2>1, NextRecovery, NextCircuit, Zenon
<1>3. RecoveryInv /\ CircuitInv => ResilienceTypeOK
  BY Zenon DEF RecoveryInv, CircuitInv, ResilienceTypeOK
<1> QED BY <1>1, <1>2, <1>3, PTL DEF ResilienceSpec

-----------------------------------------------------------------------------
(* The registry: get(name) serves an available version as long as there is *)
(* one.  ActiveServes is inductive together with the type.                 *)

RegistryInv == RegistryTypeOK /\ ActiveServes

\* A nonempty set of versions has a latest one.
LEMMA LatestVersion ==
    ASSUME NEW n \in Nat, NEW S \in SUBSET (1..n), S # {}
    PROVE  \E w \in S : \A x \in S : x <= w
<1>0. n \in Int /\ \A x \in S : x \in Int /\ n - x \in Nat
    OBVIOUS
<1> DEFINE T == {n - x : x \in S}
<1>1. T \subseteq Nat /\ T # {}
    <2>1. \A x \in S : n - x \in Nat
        BY <1>0, Zenon
    <2>2. PICK x \in S : TRUE
        BY Zenon
    <2>3. n - x \in T
        BY <2>2, Zenon
    <2> QED
        BY <2>1, <2>3, Zenon
<1>2. PICK t \in T : \A u \in T : ~(<<u, t>> \in OpToRel(<, Nat))
    BY <1>1, NatLessThanWellFounded, WFMin, Zenon
<1>3. \A u \in T : ~(u < t)
    BY <1>1, <1>2, Zenon DEF OpToRel
<1>4. PICK w \in S : t = n - w
    BY Zenon
<1>5. \A x \in S : x <= w
    <2> SUFFICES ASSUME NEW x \in S PROVE x <= w
        BY Zenon
    <2>1. ~(n - x < n - w)
        BY <1>3, <1>4, Zenon
    <2>2. x \in Int /\ w \in Int /\ n \in Int
        BY <1>0, Zenon
    <2> HIDE DEF T
    <2> QED
        BY <2>1, <2>2
<1> QED
    BY <1>5, Zenon

\* The version transition() falls back to is an available one other than v, and there is
\* none only if no other version is available.
LEMMA FallbackServes ==
    ASSUME RegistryTypeOK, NEW v \in 1..Len(versions)
    PROVE  \/ Fallback(v) = 0 /\ AvailableBut(v) = {}
           \/ Fallback(v) \in AvailableBut(v)
<1>1. CASE AvailableBut(v) = {}
    BY <1>1, Zenon DEF Fallback
<1>2. CASE AvailableBut(v) # {}
    <2>1. AvailableBut(v) \in SUBSET (1..Len(versions)) /\ Len(versions) \in Nat
        BY DEF AvailableBut, RegistryTypeOK
    <2>2. \E w \in AvailableBut(v) : \A x \in AvailableBut(v) : x <= w
        BY <1>2, <2>1, LatestVersion, Zenon
    <2> QED
        BY <1>2, <2>2, Zenon DEF Fallback
<1> QED
    BY <1>1, <1>2, Zenon

LEMMA InitRegistry == RegistryInit => RegistryInv
    BY RegistryAssumption
    DEF RegistryInit, RegistryInv, RegistryTypeOK, ActiveServes, ActiveStatus, Statuses

LEMMA NextRegistry == RegistryInv /\ [RegistryNext]_registryVars => RegistryInv'
<1> SUFFICES ASSUME RegistryInv, [RegistryNext]_registryVars PROVE RegistryInv'
    BY Zenon
<1> USE RegistryAssumption DEF RegistryInv, RegistryTypeOK, Statuses
<1>1. ASSUME NEW status \in Statuses, RegisterVersion(status)
      PROVE  RegistryInv'
    BY <1>1 DEF RegisterVersion, ActiveAfterRegister, ActiveServes, ActiveStatus
<1>2. ASSUME NEW v \in 1..Len(versions), Publish(v)
      PROVE  RegistryInv'
    BY <1>2 DEF Publish, ActiveServes, ActiveStatus
<1>3. ASSUME NEW v \in 1..Len(versions), Deprecate(v)
      PROVE  RegistryInv'
    <2>1. \/ Fallback(v) = 0 /\ AvailableBut(v) = {}
          \/ Fallback(v) \in AvailableBut(v)
        BY FallbackServes, Zenon
    <2>2. Len(versions') = Len(versions) /\ versions' \in Seq(Statuses)
        BY <1>3 DEF Deprecate
    <2>3. \A w \in 1..Len(versions) :
             versions'[w] = IF w = v THEN "deprecated" ELSE versions[w]
        BY <1>3 DEF Deprecate
    <2>4. CASE active = v
        BY <1>3, <2>1, <2>2, <2>3, <2>4 DEF Deprecate, AvailableBut, ActiveServes, ActiveStatus
    <2>5. CASE active # v
        BY <1>3, <2>2, <2>3, <2>5 DEF Deprecate, ActiveServes, ActiveStatus
    <2> QED
        BY <2>4, <2>5, Zenon
<1>4. CASE UnregisterTool
    BY <1>4 DEF UnregisterTool, ActiveServes, ActiveStatus
<1>5. CASE UNCHANGED registryVars
    BY <1>5, Zenon DEF registryVars, ActiveServes, ActiveStatus
<1> QED
    BY <1>1, <1>2, <1>3, <1>4, <1>5, Zenon DEF RegistryNext

\* get(name) returns an available version whenever the name has one, for any number of
\* versions, registered in any status, and any order of register, transition and
\* unregister.
THEOREM ActiveAlwaysServes == RegistrySpec => []ActiveServes
<1>1. RegistryInv => ActiveServes
    BY Zenon DEF RegistryInv
<1> QED
    BY <1>1, InitRegistry, NextRegistry, PTL DEF RegistrySpec

-----------------------------------------------------------------------------
(* The gateway.  What the audit log holds for a call, and how many slots   *)
(* and denials are counted, follows from the stages of the calls.          *)

\* The logs a call may have in a stage, or at its end.
LogsOf(stage) ==
    CASE stage \in {"executing", "returned"} -> {<<"TOOL_CALL_START">>}
      [] stage = "answered" -> Story("success")
      [] stage = "raised"   -> {<<"TOOL_CALL_START">>} \cup Story("success")
      [] stage = "failed"   -> Story("failure")
      [] OTHER              -> Story(stage)

Entries == {"TOOL_CALL_REJECTED", "AUTH_DENIED", "CIRCUIT_OPENED", "RATE_LIMITED",
            "TOOL_CALL_START", "TOOL_CALL_SUCCESS", "TOOL_CALL_FAILURE"}

Denied == {c \in GatewayCalls : call[c] = "denied"}

\* The calls for which record_failure has been called.
Failing == {"raised", "failed", "failure"}

Circuits == [state : {"closed", "open", "half_open"}, probes : Nat]

AuditInv ==
    /\ audit \in [GatewayCalls -> Seq(Entries)]
    /\ \A c \in GatewayCalls : audit[c] \in LogsOf(call[c])
    /\ denials = Cardinality(Denied)
    /\ circuit.state # "closed" => \E c \in GatewayCalls : call[c] \in Failing

\* Of the calls between validation and start, one at most was validated with no other
\* there, and the slot it was validated for is left by those that were not raced.
Fair(S) == S \ raced

LimitInv ==
    /\ \A c, d \in Fair(Pending) : c = d
    /\ forgotten = {} =>
          /\ Cardinality(Fair(Holding)) <= ConcurrencyLimit
          /\ Fair(Pending) # {} => Cardinality(Fair(Holding)) < ConcurrencyLimit

GatewayInv ==
    /\ GatewayTypeOK /\ RegistryInv /\ circuit \in Circuits
    /\ AuditInv /\ SlotsAreCalls /\ LimitInv

LEMMA CallSetsFinite ==
    /\ IsFiniteSet(Holding) /\ Cardinality(Holding) \in Nat
    /\ IsFiniteSet(Fair(Holding)) /\ Cardinality(Fair(Holding)) \in Nat
    /\ IsFiniteSet(Denied) /\ Cardinality(Denied) \in Nat
<1>1. IsFiniteSet(GatewayCalls)
  BY GatewayAssumption, Zenon
<1>2. Holding \subseteq GatewayCalls /\ Denied \subseteq GatewayCalls /\ Fair(Holding) \subseteq GatewayCalls
  BY Zenon DEF Holding, Denied, Fair
<1>3. IsFiniteSet(Holding) /\ IsFiniteSet(Denied) /\ IsFiniteSet(Fair(Holding))
  BY <1>1, <1>2, FS_Subset, Zenon
<1> QED BY <1>3, FS_CardinalityType, Zenon

LEMMA InitGateway == GatewayInit => GatewayInv
<1> SUFFICES ASSUME GatewayInit PROVE GatewayInv
  BY Zenon
<1>1. /\ versions \in Seq(Statuses) /\ Len(versions) = 1 /\ active = 1 /\ versions[1] = "available"
  BY DEF GatewayInit, Statuses
<1>2. RegistryInv
  <2>1. RegistryTypeOK
    BY <1>1, RegistryAssumption, GatewayAssumption DEF RegistryTypeOK
  <2>2. ActiveServes
    BY <1>1 DEF ActiveServes, ActiveStatus
  <2> QED BY <2>1, <2>2, Zenon DEF RegistryInv
<1>3. \A c \in GatewayCalls : call[c] = "out"
  BY Zenon DEF GatewayInit
<1>4. Holding = {} /\ Denied = {} /\ Pending = {} /\ Fair(Holding) = {} /\ Fair(Pending) = {}
  BY <1>3, Zenon DEF Holding, Denied, Pending, Fair
<1>5. Cardinality(Holding) = 0 /\ Cardinality(Denied) = 0 /\ Cardinality(Fair(Holding)) = 0
  BY <1>4, FS_EmptySet, Zenon
<1>6. GatewayTypeOK /\ circuit \in Circuits /\ circuit.state = "closed"
  <2>1. circuit \in Circuits /\ circuit.state = "closed"
    BY Zenon DEF GatewayInit, Circuits
  <2>2. call \in [GatewayCalls -> Stages \cup Ends]
    BY Zenon DEF GatewayInit, Stages
  <2>3. tokens \in 0..MaxTokens /\ refills \in 0..MaxRefills
    BY GatewayAssumption DEF GatewayInit
  <2> QED BY <1>2, <2>1, <2>2, <2>3, Zenon DEF GatewayInit, GatewayTypeOK, RegistryInv
<1>7. AuditInv
  <2>1. <<>> \in Seq(Entries)
    OBVIOUS
  <2>2. <<>> \in LogsOf("out")
    BY Zenon DEF LogsOf, Story
  <2> QED BY <1>3, <1>5, <1>6, <2>1, <2>2, Zenon DEF GatewayInit, AuditInv
<1>8. SlotsAreCalls
  BY <1>5 DEF GatewayInit, SlotsAreCalls
<1>9. LimitInv
  BY <1>4, <1>5, GatewayAssumption DEF LimitInv
<1> QED BY <1>2, <1>6, <1>7, <1>8, <1>9, Zenon DEF GatewayInv

LEMMA StepTypes ==
    ASSUME GatewayInv, NEW c \in GatewayCalls, CallStep(c)
    PROVE  GatewayTypeOK' /\ RegistryInv' /\ circuit' \in Circuits
<1>t. /\ call \in [GatewayCalls -> Stages \cup Ends]
      /\ window \in Nat /\ concurrent \in Nat /\ daily \in Nat /\ denials \in Nat
      /\ circuit \in Circuits
      /\ tokens \in 0..MaxTokens /\ refills \in 0..MaxRefills
  BY Zenon DEF GatewayInv, GatewayTypeOK
<1>1. UNCHANGED registryVars /\ UNCHANGED refills
  BY DEF CallStep, ValidateCall, RejectCall, LookUpTool, AuthorizeCall, CheckCircuit, AcquireToken,
         StartCall, LogStart, StartRaises, Succeed, LogSuccess, Fail, LogFailure, EndCall, limits
<1>2. RegistryInv' /\ RegistryTypeOK'
  BY <1>1, Zenon DEF GatewayInv, RegistryInv, RegistryTypeOK, ActiveServes, ActiveStatus, registryVars
<1>3. PICK to \in Stages \cup Ends : call' = [call EXCEPT ![c] = to]
  <2>1. CASE ValidateCall(c) \/ RejectCall(c) \/ LookUpTool(c)
    BY <2>1, Zenon DEF ValidateCall, RejectCall, LookUpTool, MoveCall, Stages, Ends
  <2>2. CASE AuthorizeCall(c) \/ CheckCircuit(c) \/ AcquireToken(c)
    BY <2>2, Zenon DEF AuthorizeCall, CheckCircuit, AcquireToken, MoveCall, Stages, Ends
  <2>3. CASE StartCall(c) \/ LogStart(c) \/ StartRaises(c) \/ Succeed(c)
    BY <2>3, Zenon DEF StartCall, LogStart, StartRaises, Succeed, MoveCall, Stages, Ends
  <2>4. CASE LogSuccess(c) \/ Fail(c) \/ LogFailure(c) \/ EndCall(c)
    BY <2>4, Zenon DEF LogSuccess, Fail, LogFailure, EndCall, MoveCall, Stages, Ends
  <2> QED BY <2>1, <2>2, <2>3, <2>4, Zenon DEF CallStep
<1>4. call' \in [GatewayCalls -> Stages \cup Ends]
  BY <1>t, <1>3, Zenon
<1>5. window' \in Nat /\ daily' \in Nat
  BY <1>t DEF CallStep, ValidateCall, RejectCall, LookUpTool, AuthorizeCall, CheckCircuit, AcquireToken,
         StartCall, LogStart, StartRaises, Succeed, LogSuccess, Fail, LogFailure, EndCall, quota, RecordStart
<1>6. concurrent' \in Nat
  BY <1>t DEF CallStep, ValidateCall, RejectCall, LookUpTool, AuthorizeCall, CheckCircuit, AcquireToken,
         StartCall, LogStart, StartRaises, Succeed, LogSuccess, Fail, LogFailure, EndCall, quota, RecordStart, FreeSlot
<1>7. denials' \in Nat /\ tokens' \in 0..MaxTokens
  <2>1. denials' = denials \/ denials' = denials + 1
    BY DEF CallStep, ValidateCall, RejectCall, LookUpTool, AuthorizeCall, CheckCircuit, AcquireToken,
         StartCall, LogStart, StartRaises, Succeed, LogSuccess, Fail, LogFailure, EndCall, RecordDenial
  <2>2. tokens' = tokens \/ (tokens > 0 /\ tokens' = tokens - 1)
    BY DEF CallStep, ValidateCall, RejectCall, LookUpTool, AuthorizeCall, CheckCircuit, AcquireToken,
         StartCall, LogStart, StartRaises, Succeed, LogSuccess, Fail, LogFailure, EndCall, limits, TakeToken
  <2> QED BY <1>t, <2>1, <2>2, GatewayAssumption
<1>8. circuit' \in Circuits
  <2>1. AfterProbe \in Circuits
    BY <1>t DEF AfterProbe, Circuits
  <2>2. [circuit EXCEPT !.state = "open"] \in Circuits
    BY <1>t, Zenon DEF Circuits
  <2>3. circuit' \in {circuit, AfterProbe, [circuit EXCEPT !.state = "open"]}
    BY DEF CallStep, ValidateCall, RejectCall, LookUpTool, AuthorizeCall, CheckCircuit, AcquireToken,
         StartCall, LogStart, StartRaises, Succeed, LogSuccess, Fail, LogFailure, EndCall, limits
  <2> QED BY <1>t, <2>1, <2>2, <2>3, Zenon
<1>10. circuit'.state \in {"closed", "open", "half_open"}
  BY <1>8, Zenon DEF Circuits
<1> QED
  BY <1>1, <1>2, <1>4, <1>5, <1>6, <1>7, <1>8, <1>10, <1>t, Zenon DEF GatewayTypeOK

\* What an entry makes of the logs there are.
LEMMA LogGrows ==
    ASSUME NEW S, NEW b \in S, NEW d \in S, NEW e \in S
    PROVE  /\ Append(<<>>, e) = <<e>>
           /\ Append(<<d>>, e) = <<d, e>>
           /\ Append(<<b, d>>, e) = <<b, d, e>>
<1>1. Append(<<>>, e) = <<e>>
  OBVIOUS
<1>2. Append(<<d>>, e) = <<d, e>>
  <2>1. <<d>> \in Seq(S) /\ <<d, e>> \in Seq(S) /\ Len(<<d>>) = 1 /\ Len(<<d, e>>) = 2
    OBVIOUS
  <2>2. Append(<<d>>, e) \in Seq(S) /\ Len(Append(<<d>>, e)) = 2
    BY <2>1
  <2>3. \A i \in 1..2 : Append(<<d>>, e)[i] = <<d, e>>[i]
    OBVIOUS
  <2> QED BY <2>1, <2>2, <2>3, SeqEqual, Zenon
<1>3. Append(<<b, d>>, e) = <<b, d, e>>
  <2>1. /\ <<b, d>> \in Seq(S) /\ <<b, d, e>> \in Seq(S)
        /\ Len(<<b, d>>) = 2 /\ Len(<<b, d, e>>) = 3
    OBVIOUS
  <2>2. Append(<<b, d>>, e) \in Seq(S) /\ Len(Append(<<b, d>>, e)) = 3
    BY <2>1
  <2>3. \A i \in 1..3 : Append(<<b, d>>, e)[i] = <<b, d, e>>[i]
    OBVIOUS
  <2> QED BY <2>1, <2>2, <2>3, SeqEqual, Zenon
<1> QED BY <1>1, <1>2, <1>3, Zenon

LEMMA LogsGrow ==
    ASSUME NEW x, NEW y, NEW e
    PROVE  /\ \A L, M : L = {x} /\ M = {Append(x, e)} => \A log \in L : Append(log, e) \in M
           /\ \A L, M : L = {x} \cup {y} /\ M = {Append(x, e), Append(y, e)} =>
                 \A log \in L : Append(log, e) \in M
    BY Zenon

\* Each step logs what its new stage calls for.
LEMMA StepLogged ==
    ASSUME GatewayInv, NEW c \in GatewayCalls, CallStep(c)
    PROVE  /\ audit'[c] \in LogsOf(call'[c])
           /\ \A d \in GatewayCalls \ {c} : audit'[d] = audit[d] /\ call'[d] = call[d]
           /\ audit' \in [GatewayCalls -> Seq(Entries)]
<1>t. /\ call \in [GatewayCalls -> Stages \cup Ends]
      /\ audit \in [GatewayCalls -> Seq(Entries)]
      /\ audit[c] \in LogsOf(call[c])
  BY Zenon DEF GatewayInv, GatewayTypeOK, AuditInv
<1> DEFINE Move(from, to) == call[c] = from /\ call' = [call EXCEPT ![c] = to]
           Quiet(from, to) == Move(from, to) /\ UNCHANGED audit
           Noted(from, to, event) == Move(from, to) /\ audit' = [audit EXCEPT ![c] = Append(@, event)]
           Goal == /\ audit'[c] \in LogsOf(call'[c])
                   /\ \A d \in GatewayCalls \ {c} : audit'[d] = audit[d] /\ call'[d] = call[d]
                   /\ audit' \in [GatewayCalls -> Seq(Entries)]
<1> SUFFICES Goal
  OBVIOUS
<1>q. ASSUME NEW from, NEW to, Quiet(from, to), LogsOf(from) \subseteq LogsOf(to)
      PROVE  Goal
  <2>1. call'[c] = to /\ \A d \in GatewayCalls \ {c} : call'[d] = call[d]
    BY <1>q, <1>t, Zenon
  <2> QED BY <1>q, <1>t, <2>1, Zenon
<1>n. ASSUME NEW from, NEW to, NEW event \in Entries,
             Noted(from, to, event), \A log \in LogsOf(from) : Append(log, event) \in LogsOf(to)
      PROVE  Goal
  <2>1. call'[c] = to /\ \A d \in GatewayCalls \ {c} : call'[d] = call[d]
    BY <1>n, <1>t, Zenon
  <2>2. audit'[c] = Append(audit[c], event) /\ \A d \in GatewayCalls \ {c} : audit'[d] = audit[d]
    BY <1>n, <1>t, Zenon
  <2>3. Append(audit[c], event) \in Seq(Entries)
    BY <1>n, <1>t
  <2>4. audit' \in [GatewayCalls -> Seq(Entries)]
    BY <1>n, <1>t, <2>3, Zenon
  <2> QED BY <1>n, <1>t, <2>1, <2>2, <2>4, Zenon
<1>1. \A s \in {"out", "validated", "found", "authorized", "admitted", "cleared", "counted",
               "vanished", "lost"} : LogsOf(s) = {<<>>}
  BY Zenon DEF LogsOf, Story
<1>2. /\ LogsOf("rejected") = {<<"TOOL_CALL_REJECTED">>} /\ LogsOf("denied") = {<<"AUTH_DENIED">>}
      /\ LogsOf("circuit_open") = {<<"CIRCUIT_OPENED">>} /\ LogsOf("rate_limited") = {<<"RATE_LIMITED">>}
  BY Zenon DEF LogsOf, Story
<1>3. /\ LogsOf("executing") = {<<"TOOL_CALL_START">>} /\ LogsOf("returned") = LogsOf("executing")
      /\ LogsOf("answered") = {<<"TOOL_CALL_START", "TOOL_CALL_SUCCESS">>}
      /\ LogsOf("success") = LogsOf("answered")
      /\ LogsOf("raised") = LogsOf("executing") \cup LogsOf("answered")
      /\ LogsOf("failed") = {<<"TOOL_CALL_START", "TOOL_CALL_FAILURE">>,
                             <<"TOOL_CALL_START", "TOOL_CALL_SUCCESS", "TOOL_CALL_FAILURE">>}
      /\ LogsOf("failure") = LogsOf("failed")
  BY Zenon DEF LogsOf, Story
<1>4. \/ Quiet("out", "validated") \/ Quiet("validated", "vanished") \/ Quiet("validated", "found")
      \/ Quiet("found", "authorized") \/ Quiet("authorized", "admitted") \/ Quiet("admitted", "cleared")
      \/ Quiet("cleared", "counted") \/ Quiet("counted", "lost")
      \/ Quiet("executing", "returned") \/ Quiet("answered", "success") \/ Quiet("failed", "failure")
      \/ \E from \in {"executing", "returned", "answered"} : Quiet(from, "raised")
      \/ Noted("out", "rejected", "TOOL_CALL_REJECTED") \/ Noted("found", "denied", "AUTH_DENIED")
      \/ Noted("authorized", "circuit_open", "CIRCUIT_OPENED")
      \/ Noted("admitted", "rate_limited", "RATE_LIMITED")
      \/ Noted("counted", "executing", "TOOL_CALL_START")
      \/ Noted("returned", "answered", "TOOL_CALL_SUCCESS")
      \/ Noted("raised", "failed", "TOOL_CALL_FAILURE")
  <2>1. CASE ValidateCall(c) \/ RejectCall(c) \/ LookUpTool(c) \/ AuthorizeCall(c)
    BY <2>1, Zenon DEF ValidateCall, RejectCall, LookUpTool, AuthorizeCall, MoveCall, Log
  <2>2. CASE CheckCircuit(c) \/ AcquireToken(c) \/ StartCall(c) \/ LogStart(c) \/ StartRaises(c)
    BY <2>2, Zenon DEF CheckCircuit, AcquireToken, StartCall, LogStart, StartRaises, MoveCall, Log
  <2>3. CASE Succeed(c) \/ LogSuccess(c) \/ Fail(c) \/ LogFailure(c) \/ EndCall(c)
    BY <2>3, Zenon DEF Succeed, LogSuccess, Fail, LogFailure, EndCall, MoveCall, Log
  <2> QED BY <2>1, <2>2, <2>3, Zenon DEF CallStep
<1>e. {"TOOL_CALL_REJECTED", "AUTH_DENIED", "CIRCUIT_OPENED", "RATE_LIMITED", "TOOL_CALL_START",
       "TOOL_CALL_SUCCESS", "TOOL_CALL_FAILURE"} \subseteq Entries
  BY Zenon DEF Entries
<1> HIDE DEF Quiet, Noted, Goal
<1>5. CASE \/ Quiet("out", "validated") \/ Quiet("validated", "vanished") \/ Quiet("validated", "found")
           \/ Quiet("found", "authorized") \/ Quiet("authorized", "admitted")
           \/ Quiet("admitted", "cleared") \/ Quiet("cleared", "counted") \/ Quiet("counted", "lost")
  BY <1>q, <1>1, <1>5, Zenon
<1>6. CASE \/ Quiet("executing", "returned") \/ Quiet("answered", "success") \/ Quiet("failed", "failure")
           \/ \E from \in {"executing", "returned", "answered"} : Quiet(from, "raised")
  BY <1>q, <1>3, <1>6, Zenon
<1>7. CASE Noted("out", "rejected", "TOOL_CALL_REJECTED")
  <2>1. Append(<<>>, "TOOL_CALL_REJECTED") = <<"TOOL_CALL_REJECTED">>
    BY LogGrows, <1>e, Zenon
  <2>2. LogsOf("out") = {<<>>} /\ LogsOf("rejected") = {<<"TOOL_CALL_REJECTED">>}
    BY <1>1, <1>2, Zenon
  <2>3. \A log \in LogsOf("out") : Append(log, "TOOL_CALL_REJECTED") \in LogsOf("rejected")
    BY <2>1, <2>2, LogsGrow, Zenon
  <2> QED BY <1>n, <1>e, <1>7, <2>3, Zenon
<1>8. CASE Noted("found", "denied", "AUTH_DENIED")
  <2>1. Append(<<>>, "AUTH_DENIED") = <<"AUTH_DENIED">>
    BY LogGrows, <1>e, Zenon
  <2>2. LogsOf("found") = {<<>>} /\ LogsOf("denied") = {<<"AUTH_DENIED">>}
    BY <1>1, <1>2, Zenon
  <2>3. \A log \in LogsOf("found") : Append(log, "AUTH_DENIED") \in LogsOf("denied")
    BY <2>1, <2>2, LogsGrow, Zenon
  <2> QED BY <1>n, <1>e, <1>8, <2>3, Zenon
<1>9. CASE Noted("authorized", "circuit_open", "CIRCUIT_OPENED")
  <2>1. Append(<<>>, "CIRCUIT_OPENED") = <<"CIRCUIT_OPENED">>
    BY LogGrows, <1>e, Zenon
  <2>2. LogsOf("authorized") = {<<>>} /\ LogsOf("circuit_open") = {<<"CIRCUIT_OPENED">>}
    BY <1>1, <1>2, Zenon
  <2>3. \A log \in LogsOf("authorized") : Append(log, "CIRCUIT_OPENED") \in LogsOf("circuit_open")
    BY <2>1, <2>2, LogsGrow, Zenon
  <2> QED BY <1>n, <1>e, <1>9, <2>3, Zenon
<1>10. CASE Noted("admitted", "rate_limited", "RATE_LIMITED")
  <2>1. Append(<<>>, "RATE_LIMITED") = <<"RATE_LIMITED">>
    BY LogGrows, <1>e, Zenon
  <2>2. LogsOf("admitted") = {<<>>} /\ LogsOf("rate_limited") = {<<"RATE_LIMITED">>}
    BY <1>1, <1>2, Zenon
  <2>3. \A log \in LogsOf("admitted") : Append(log, "RATE_LIMITED") \in LogsOf("rate_limited")
    BY <2>1, <2>2, LogsGrow, Zenon
  <2> QED BY <1>n, <1>e, <1>10, <2>3, Zenon
<1>11. CASE Noted("counted", "executing", "TOOL_CALL_START")
  <2>1. Append(<<>>, "TOOL_CALL_START") = <<"TOOL_CALL_START">>
    BY LogGrows, <1>e, Zenon
  <2>2. LogsOf("counted") = {<<>>} /\ LogsOf("executing") = {<<"TOOL_CALL_START">>}
    BY <1>1, <1>3, Zenon
  <2>3. \A log \in LogsOf("counted") : Append(log, "TOOL_CALL_START") \in LogsOf("executing")
    BY <2>1, <2>2, LogsGrow, Zenon
  <2> QED BY <1>n, <1>e, <1>11, <2>3, Zenon
<1>12. CASE Noted("returned", "answered", "TOOL_CALL_SUCCESS")
  <2>1. Append(<<"TOOL_CALL_START">>, "TOOL_CALL_SUCCESS") = <<"TOOL_CALL_START", "TOOL_CALL_SUCCESS">>
    BY LogGrows, <1>e, Zenon
  <2>2. LogsOf("returned") = {<<"TOOL_CALL_START">>} /\ LogsOf("answered") = {<<"TOOL_CALL_START", "TOOL_CALL_SUCCESS">>}
    BY <1>3, Zenon
  <2>3. \A log \in LogsOf("returned") : Append(log, "TOOL_CALL_SUCCESS") \in LogsOf("answered")
    BY <2>1, <2>2, LogsGrow, Zenon
  <2> QED BY <1>n, <1>e, <1>12, <2>3, Zenon
<1>13. CASE Noted("raised", "failed", "TOOL_CALL_FAILURE")
  <2> DEFINE event == "TOOL_CALL_FAILURE"
  <2>1. Append(<<"TOOL_CALL_START">>, event) = <<"TOOL_CALL_START", event>>
    BY LogGrows, <1>e, Zenon
  <2>3. Append(<<"TOOL_CALL_START", "TOOL_CALL_SUCCESS">>, event)
          = <<"TOOL_CALL_START", "TOOL_CALL_SUCCESS", event>>
    <3>1. "TOOL_CALL_START" \in Entries /\ "TOOL_CALL_SUCCESS" \in Entries /\ event \in Entries
      BY <1>e, Zenon
    <3>2. \A b, d, e \in Entries : Append(<<b, d>>, e) = <<b, d, e>>
      BY LogGrows, Zenon
    <3> QED BY <3>1, <3>2, Zenon
  <2>4. LogsOf("raised") = {<<"TOOL_CALL_START">>} \cup {<<"TOOL_CALL_START", "TOOL_CALL_SUCCESS">>}
    BY <1>3, Zenon
  <2>2. \A log \in LogsOf("raised") : Append(log, "TOOL_CALL_FAILURE") \in LogsOf("failed")
    BY <1>3, <2>1, <2>3, <2>4, LogsGrow, Zenon
  <2> QED BY <1>n, <1>e, <1>13, <2>2, Zenon
<1> QED BY <1>4, <1>5, <1>6, <1>7, <1>8, <1>9, <1>10, <1>11, <1>12, <1>13, Zenon

LEMMA StepAudited ==
    ASSUME GatewayInv, NEW c \in GatewayCalls, CallStep(c)
    PROVE  AuditInv'
<1>t. call \in [GatewayCalls -> Stages \cup Ends] /\ circuit \in Circuits
  BY Zenon DEF GatewayInv, GatewayTypeOK
<1>1. \A d \in GatewayCalls : audit'[d] \in LogsOf(call'[d])
  BY StepLogged, Zenon DEF GatewayInv, AuditInv
<1>2. denials' = Cardinality(Denied')
  <2>1. CASE call[c] = "found" /\ call' = [call EXCEPT ![c] = "denied"] /\ RecordDenial
    <3>1. Denied' = Denied \cup {c} /\ c \notin Denied
      BY <1>t, <2>1, Zenon DEF Denied
    <3>2. Cardinality(Denied') = Cardinality(Denied) + 1
      BY <3>1, CallSetsFinite, FS_AddElement, Zenon
    <3> QED BY <2>1, <3>2, Zenon DEF RecordDenial, GatewayInv, AuditInv
  <2>2. CASE UNCHANGED denials /\ call[c] # "denied" /\ call'[c] # "denied"
    <3>1. Denied' = Denied
      BY <2>2, StepLogged, Zenon DEF Denied
    <3> QED BY <2>2, <3>1, Zenon DEF GatewayInv, AuditInv
  <2>3. \/ call[c] = "found" /\ call' = [call EXCEPT ![c] = "denied"] /\ RecordDenial
        \/ UNCHANGED denials /\ call[c] # "denied" /\ call'[c] # "denied"
    BY <1>t DEF CallStep, ValidateCall, RejectCall, LookUpTool, AuthorizeCall, CheckCircuit, AcquireToken,
         StartCall, LogStart, StartRaises, Succeed, LogSuccess, Fail, LogFailure, EndCall, MoveCall
  <2> QED BY <2>1, <2>2, <2>3, Zenon
<1>3. circuit'.state # "closed" => \E d \in GatewayCalls : call'[d] \in Failing
  <2>1. CASE Fail(c)
    <3>1. call'[c] = "raised"
      BY <1>t, <2>1, Zenon DEF Fail, MoveCall
    <3> QED BY <3>1, Zenon DEF Failing
  <2>2. CASE ~Fail(c)
    <3>1. circuit' = circuit \/ circuit' = AfterProbe
      BY <2>2 DEF CallStep, ValidateCall, RejectCall, LookUpTool, AuthorizeCall, CheckCircuit, AcquireToken,
         StartCall, LogStart, StartRaises, Succeed, LogSuccess, Fail, LogFailure, EndCall, limits
    <3>2. circuit'.state # "closed" => circuit.state # "closed"
      BY <1>t, <3>1 DEF AfterProbe, Circuits
    <3>3. call[c] \in Failing => call'[c] \in Failing
      BY <1>t, <2>2 DEF CallStep, ValidateCall, RejectCall, LookUpTool, AuthorizeCall, CheckCircuit, AcquireToken,
         StartCall, LogStart, StartRaises, Succeed, LogSuccess, Fail, LogFailure, EndCall, MoveCall, Failing
    <3>4. \A d \in GatewayCalls : call[d] \in Failing => call'[d] \in Failing
      BY <3>3, StepLogged, Zenon
    <3> QED BY <3>2, <3>4, Zenon DEF GatewayInv, AuditInv
  <2> QED BY <2>1, <2>2, Zenon
<1> QED BY <1>1, <1>2, <1>3, StepLogged, Zenon DEF AuditInv

PendingStages == {"validated", "found", "authorized", "admitted", "cleared"}
HoldingStages == {"counted", "executing", "returned", "answered", "raised", "failed", "lost"}

\* Only StartCall and EndCall change who holds a slot, and only ValidateCall lets a call in.
LEMMA StepHolds ==
    ASSUME GatewayInv, NEW c \in GatewayCalls, CallStep(c)
    PROVE  /\ ~StartCall(c) /\ ~EndCall(c) => Holding' = Holding
           /\ ~StartCall(c) => Holding' \subseteq Holding
           /\ ~ValidateCall(c) => Pending' \subseteq Pending
<1>t. call \in [GatewayCalls -> Stages \cup Ends]
  BY Zenon DEF GatewayInv, GatewayTypeOK
<1>1. ~StartCall(c) => (call'[c] \in HoldingStages => call[c] \in HoldingStages)
  BY <1>t DEF CallStep, ValidateCall, RejectCall, LookUpTool, AuthorizeCall, CheckCircuit, AcquireToken,
         StartCall, LogStart, StartRaises, Succeed, LogSuccess, Fail, LogFailure, EndCall, MoveCall, HoldingStages
<1>2. ~EndCall(c) => (call[c] \in HoldingStages => call'[c] \in HoldingStages)
  BY <1>t DEF CallStep, ValidateCall, RejectCall, LookUpTool, AuthorizeCall, CheckCircuit, AcquireToken,
         StartCall, LogStart, StartRaises, Succeed, LogSuccess, Fail, LogFailure, EndCall, MoveCall, HoldingStages
<1>3. ~ValidateCall(c) => (call'[c] \in PendingStages => call[c] \in PendingStages)
  BY <1>t DEF CallStep, ValidateCall, RejectCall, LookUpTool, AuthorizeCall, CheckCircuit, AcquireToken,
         StartCall, LogStart, StartRaises, Succeed, LogSuccess, Fail, LogFailure, EndCall, MoveCall, PendingStages
<1>4. \A d \in GatewayCalls \ {c} : call'[d] = call[d]
  BY StepLogged, Zenon
<1>5. /\ Holding = {d \in GatewayCalls : call[d] \in HoldingStages}
      /\ Holding' = {d \in GatewayCalls : call'[d] \in HoldingStages}
      /\ Pending = {d \in GatewayCalls : call[d] \in PendingStages}
      /\ Pending' = {d \in GatewayCalls : call'[d] \in PendingStages}
  BY Zenon DEF Holding, Pending, HoldingStages, PendingStages
<1>6. ~StartCall(c) => Holding' \subseteq Holding
  BY <1>1, <1>4, <1>5, Zenon
<1>7. ~EndCall(c) => Holding \subseteq Holding'
  BY <1>2, <1>4, <1>5, Zenon
<1>8. ~ValidateCall(c) => Pending' \subseteq Pending
  BY <1>3, <1>4, <1>5, Zenon
<1> QED BY <1>6, <1>7, <1>8, Zenon

\* The counter moves with the set of calls that hold a slot.
LEMMA StepSlots ==
    ASSUME GatewayInv, NEW c \in GatewayCalls, CallStep(c)
    PROVE  SlotsAreCalls'
<1>t. /\ call \in [GatewayCalls -> Stages \cup Ends] /\ concurrent \in Nat
      /\ concurrent <= Cardinality(Holding)
      /\ forgotten = {} => concurrent = Cardinality(Holding)
      /\ IsFiniteSet(Holding) /\ Cardinality(Holding) \in Nat
  BY CallSetsFinite, Zenon DEF GatewayInv, GatewayTypeOK, SlotsAreCalls
<1>u. UNCHANGED forgotten
  BY DEF CallStep, ValidateCall, RejectCall, LookUpTool, AuthorizeCall, CheckCircuit, AcquireToken,
         StartCall, LogStart, StartRaises, Succeed, LogSuccess, Fail, LogFailure, EndCall, history
<1>1. CASE StartCall(c)
  <2>1. Holding' = Holding \cup {c} /\ c \notin Holding
    BY <1>1, <1>t, Zenon DEF StartCall, MoveCall, Holding
  <2>2. Cardinality(Holding') = Cardinality(Holding) + 1
    BY <1>t, <2>1, FS_AddElement, Zenon
  <2>3. concurrent' = concurrent + 1
    BY <1>1, Zenon DEF StartCall, RecordStart
  <2> QED BY <1>t, <1>u, <2>2, <2>3 DEF SlotsAreCalls
<1>2. CASE EndCall(c)
  <2>1. Holding' = Holding \ {c} /\ c \in Holding
    BY <1>2, <1>t, Zenon DEF EndCall, MoveCall, Holding
  <2>2. Cardinality(Holding') = Cardinality(Holding) - 1
    BY <1>t, <2>1, FS_RemoveElement, Zenon
  <2>3. Cardinality(Holding) > 0
    BY <1>t, <2>1, FS_EmptySet
  <2>4. concurrent' = IF concurrent > 0 THEN concurrent - 1 ELSE 0
    BY <1>2, Zenon DEF EndCall, FreeSlot
  <2> QED BY <1>t, <1>u, <2>2, <2>3, <2>4 DEF SlotsAreCalls
<1>3. CASE ~StartCall(c) /\ ~EndCall(c)
  <2>1. UNCHANGED concurrent
    BY <1>3 DEF CallStep, ValidateCall, RejectCall, LookUpTool, AuthorizeCall, CheckCircuit, AcquireToken,
         StartCall, LogStart, StartRaises, Succeed, LogSuccess, Fail, LogFailure, EndCall, quota
  <2>2. Holding' = Holding
    BY <1>3, StepHolds, Zenon
  <2> QED BY <1>t, <1>u, <2>1, <2>2, Zenon DEF SlotsAreCalls
<1> QED BY <1>1, <1>2, <1>3, Zenon

\* Calls that leave the slots or the chain relax the limit.
LEMMA LimitRelaxed ==
    ASSUME LimitInv, Holding' \subseteq Holding, Pending' \subseteq Pending,
           UNCHANGED raced, forgotten' = {} => forgotten = {}
    PROVE  LimitInv'
<1>1. Fair(Holding)' \subseteq Fair(Holding) /\ Fair(Pending)' \subseteq Fair(Pending)
  BY Zenon DEF Fair
<1>2. Cardinality(Fair(Holding)') <= Cardinality(Fair(Holding)) /\ Cardinality(Fair(Holding)') \in Nat
  BY <1>1, CallSetsFinite, FS_Subset, FS_CardinalityType, Zenon
<1>3. Cardinality(Fair(Holding)) \in Nat /\ ConcurrencyLimit \in Nat
  BY CallSetsFinite, GatewayAssumption, Zenon
<1>4. /\ Cardinality(Fair(Holding)) <= ConcurrencyLimit => Cardinality(Fair(Holding)') <= ConcurrencyLimit
      /\ Cardinality(Fair(Holding)) < ConcurrencyLimit => Cardinality(Fair(Holding)') < ConcurrencyLimit
  BY <1>2, <1>3
<1> QED BY <1>1, <1>4, Zenon DEF LimitInv

LEMMA StepLimited ==
    ASSUME GatewayInv, NEW c \in GatewayCalls, CallStep(c)
    PROVE  LimitInv'
<1>t. /\ call \in [GatewayCalls -> Stages \cup Ends] /\ concurrent \in Nat
      /\ ConcurrencyLimit \in Nat /\ Cardinality(Fair(Holding)) \in Nat
  BY CallSetsFinite, GatewayAssumption, Zenon DEF GatewayInv, GatewayTypeOK
<1>u. UNCHANGED forgotten
  BY DEF CallStep, ValidateCall, RejectCall, LookUpTool, AuthorizeCall, CheckCircuit, AcquireToken,
         StartCall, LogStart, StartRaises, Succeed, LogSuccess, Fail, LogFailure, EndCall, history
<1>1. CASE ValidateCall(c)
  <2>1. /\ CheckConcurrency /\ call[c] = "out" /\ call' = [call EXCEPT ![c] = "validated"]
        /\ raced' = IF Pending = {} THEN raced ELSE raced \cup {c}
    BY <1>1, Zenon DEF ValidateCall, Valid, QuotaLeft, MoveCall
  <2>2. Pending' = Pending \cup {c} /\ c \notin Pending /\ Holding' = Holding /\ c \notin Holding
    BY <1>t, <2>1, Zenon DEF Pending, Holding
  <2>3. CASE Pending = {}
    <3>1. Fair(Pending)' \subseteq {c} /\ Fair(Holding)' = Fair(Holding)
      BY <2>1, <2>2, <2>3, Zenon DEF Fair
    <3>2. Cardinality(Fair(Holding)) <= Cardinality(Holding)
      <4>1. Fair(Holding) \subseteq Holding
        BY Zenon DEF Fair
      <4> QED BY <4>1, CallSetsFinite, FS_Subset, Zenon
    <3>3. forgotten = {} => Cardinality(Holding) = concurrent
      BY Zenon DEF GatewayInv, SlotsAreCalls
    <3>4. forgotten = {} => Cardinality(Fair(Holding)) < ConcurrencyLimit
                         /\ Cardinality(Fair(Holding)) <= ConcurrencyLimit
      BY <1>t, <2>1, <3>2, <3>3 DEF CheckConcurrency
    <3> QED BY <1>u, <3>1, <3>4, Zenon DEF LimitInv
  <2>4. CASE Pending # {}
    <3>1. Fair(Pending)' = Fair(Pending) /\ Fair(Holding)' = Fair(Holding)
      BY <2>1, <2>2, <2>4, Zenon DEF Fair
    <3> QED BY <1>u, <3>1, Zenon DEF GatewayInv, LimitInv
  <2> QED BY <2>3, <2>4, Zenon
<1>2. CASE StartCall(c)
  <2>1. UNCHANGED raced /\ call[c] = "cleared" /\ call' = [call EXCEPT ![c] = "counted"]
    BY <1>2, Zenon DEF StartCall, MoveCall, history
  <2>2. /\ c \in Pending /\ Pending' = Pending \ {c}
        /\ c \notin Holding /\ Holding' = Holding \cup {c}
    BY <1>t, <2>1, Zenon DEF Pending, Holding
  <2>3. CASE c \in raced
    <3>1. Fair(Pending)' = Fair(Pending) /\ Fair(Holding)' = Fair(Holding)
      BY <2>1, <2>2, <2>3, Zenon DEF Fair
    <3> QED BY <1>u, <3>1, Zenon DEF GatewayInv, LimitInv
  <2>4. CASE c \notin raced
    <3>1. /\ c \in Fair(Pending) /\ Fair(Pending)' = Fair(Pending) \ {c}
          /\ c \notin Fair(Holding) /\ Fair(Holding)' = Fair(Holding) \cup {c}
      BY <2>1, <2>2, <2>4, Zenon DEF Fair
    <3>2. Fair(Pending)' = {}
      BY <3>1, Zenon DEF GatewayInv, LimitInv
    <3>3. Cardinality(Fair(Holding)') = Cardinality(Fair(Holding)) + 1
      BY <3>1, CallSetsFinite, FS_AddElement, Zenon
    <3>4. forgotten = {} => Cardinality(Fair(Holding)) < ConcurrencyLimit
      BY <3>1, Zenon DEF GatewayInv, LimitInv
    <3>5. forgotten = {} => Cardinality(Fair(Holding)') <= ConcurrencyLimit
      BY <1>t, <3>3, <3>4
    <3> QED BY <1>u, <3>2, <3>5, Zenon DEF LimitInv
  <2> QED BY <2>3, <2>4, Zenon
<1>3. CASE ~ValidateCall(c) /\ ~StartCall(c)
  <2>1. UNCHANGED raced
    BY <1>3 DEF CallStep, ValidateCall, RejectCall, LookUpTool, AuthorizeCall, CheckCircuit, AcquireToken,
         StartCall, LogStart, StartRaises, Succeed, LogSuccess, Fail, LogFailure, EndCall, history
  <2>2. Holding' \subseteq Holding /\ Pending' \subseteq Pending
    BY <1>3, StepHolds, Zenon
  <2> QED BY <1>u, <2>1, <2>2, LimitRelaxed, Zenon DEF GatewayInv
<1> QED BY <1>1, <1>2, <1>3, Zenon

LEMMA NextGateway == GatewayInv /\ [GatewayNext]_gatewayVars => GatewayInv'
<1> SUFFICES ASSUME GatewayInv, [GatewayNext]_gatewayVars PROVE GatewayInv'
  BY Zenon
<1>1. ASSUME NEW c \in GatewayCalls, CallStep(c) PROVE GatewayInv'
  BY <1>1, StepTypes, StepAudited, StepSlots, StepLimited, Zenon DEF GatewayInv
\* The steps that leave the calls alone.
<1>q. ASSUME UNCHANGED <<call, audit, denials>>, GatewayTypeOK', RegistryInv',
             circuit' \in Circuits, circuit'.state # "closed" => circuit.state # "closed",
             SlotsAreCalls', LimitInv'
      PROVE  GatewayInv'
  <2>1. AuditInv'
    BY <1>q, Zenon DEF GatewayInv, AuditInv, Denied
  <2> QED BY <1>q, <2>1, Zenon DEF GatewayInv
<1>k. ASSUME UNCHANGED <<call, concurrent, forgotten, raced>> PROVE SlotsAreCalls' /\ LimitInv'
  <2>1. Holding' = Holding /\ Pending' = Pending
    BY <1>k, Zenon DEF Holding, Pending
  <2> QED BY <1>k, <2>1, LimitRelaxed, Zenon DEF GatewayInv, SlotsAreCalls
<1>r. UNCHANGED registryVars => RegistryInv'
  BY Zenon DEF GatewayInv, RegistryInv, RegistryTypeOK, ActiveServes, ActiveStatus, registryVars
<1>2. CASE ChangeRegistry
  <2>1. RegistryInv'
    BY <1>2, NextRegistry, Zenon DEF ChangeRegistry, GatewayInv
  <2>2. UNCHANGED <<call, quota, denials, limits, audit, forgotten, raced>>
    BY <1>2, Zenon DEF ChangeRegistry
  <2>3. GatewayTypeOK' /\ circuit' \in Circuits
    BY <2>1, <2>2, Zenon DEF GatewayInv, GatewayTypeOK, RegistryInv, quota, limits
  <2> QED BY <1>q, <1>k, <2>1, <2>2, <2>3, Zenon DEF quota, limits
<1>3. CASE ResetQuotas
  <2>1. /\ UNCHANGED <<registryVars, call, denials, limits, audit, raced>>
        /\ window' = 0 /\ concurrent' = 0 /\ daily' = 0 /\ forgotten' = forgotten \cup Holding
    BY <1>3, Zenon DEF ResetQuotas
  <2>2. RegistryInv' /\ circuit' \in Circuits
    BY <1>r, <2>1, Zenon DEF GatewayInv, limits
  <2>3. GatewayTypeOK'
    BY <2>1, <2>2, Zenon DEF GatewayInv, GatewayTypeOK, RegistryInv, limits
  <2>4. Holding' = Holding /\ Pending' = Pending
    BY <2>1, Zenon DEF Holding, Pending
  <2>5. SlotsAreCalls'
    <3>1. Cardinality(Holding) \in Nat /\ (Holding = {} => Cardinality(Holding) = 0)
      BY CallSetsFinite, FS_EmptySet, Zenon
    <3> QED BY <2>1, <2>4, <3>1 DEF SlotsAreCalls
  <2>6. LimitInv'
    BY <2>1, <2>4, LimitRelaxed, Zenon DEF GatewayInv
  <2> QED BY <1>q, <2>1, <2>2, <2>3, <2>5, <2>6, Zenon DEF limits
<1>4. CASE SlideWindow \/ Refill
  <2>1. UNCHANGED <<registryVars, call, audit, denials, concurrent, daily, circuit, history>>
    BY <1>4, Zenon DEF SlideWindow, Refill, quota, limits
  <2>2. \/ window > 0 /\ window' = window - 1 /\ UNCHANGED <<tokens, refills>>
        \/ /\ tokens < MaxTokens /\ refills < MaxRefills
           /\ tokens' = tokens + 1 /\ refills' = refills + 1 /\ UNCHANGED window
    BY <1>4, Zenon DEF SlideWindow, Refill, quota, limits
  <2>3. /\ window \in Nat /\ tokens \in 0..MaxTokens /\ refills \in 0..MaxRefills
        /\ MaxTokens \in Nat /\ MaxRefills \in Nat
    BY GatewayAssumption, Zenon DEF GatewayInv, GatewayTypeOK
  <2>4. window' \in Nat /\ tokens' \in 0..MaxTokens /\ refills' \in 0..MaxRefills
    BY <2>2, <2>3
  <2>5. RegistryInv' /\ circuit' \in Circuits
    BY <1>r, <2>1, Zenon DEF GatewayInv
  <2>6. GatewayTypeOK'
    BY <2>1, <2>4, <2>5, Zenon DEF GatewayInv, GatewayTypeOK, RegistryInv
  <2> QED BY <1>q, <1>k, <2>1, <2>5, <2>6, Zenon DEF history
<1>5. CASE CoolDown
  <2>1. /\ UNCHANGED <<registryVars, call, quota, denials, tokens, refills, audit, history>>
        /\ circuit' = [state |-> "half_open", probes |-> 0]
    BY <1>5, Zenon DEF CoolDown
  <2>4. circuit.state # "closed"
    BY <1>5 DEF CoolDown
  <2>2. RegistryInv' /\ circuit' \in Circuits
    BY <1>r, <2>1, Zenon DEF Circuits
  <2>3. GatewayTypeOK'
    BY <2>1, <2>2, Zenon DEF GatewayInv, GatewayTypeOK, RegistryInv, quota
  <2> QED BY <1>q, <1>k, <2>1, <2>2, <2>3, <2>4, Zenon DEF history, quota
<1>6. CASE UNCHANGED gatewayVars
  <2>1. /\ UNCHANGED <<registryVars, call, window, concurrent, daily, denials>>
        /\ UNCHANGED <<circuit, tokens, refills, audit, forgotten, raced>>
    BY <1>6, Zenon DEF gatewayVars
  <2>2. RegistryInv' /\ circuit' \in Circuits
    BY <1>r, <2>1, Zenon DEF GatewayInv
  <2>3. GatewayTypeOK'
    BY <2>1, <2>2, Zenon DEF GatewayInv, GatewayTypeOK, RegistryInv
  <2> QED BY <1>q, <1>k, <2>1, <2>2, <2>3, Zenon
<1> QED BY <1>1, <1>2, <1>3, <1>4, <1>5, <1>6, Zenon DEF GatewayNext

LEMMA AlwaysGatewayInv == GatewaySpec => []GatewayInv
BY InitGateway, NextGateway, PTL DEF GatewaySpec

\* Whatever path a call takes out of the chain, the audit log tells it, each entry once and
\* in order; it agrees with the authorizer's own log, and shows a failure if the circuit is
\* not closed, for any number of concurrent calls.
THEOREM AuditAlwaysComplete == GatewaySpec => []AuditComplete
<1>1. ASSUME GatewayInv PROVE AuditComplete
  <2>t. \A c \in GatewayCalls : audit[c] \in LogsOf(call[c]) /\ call[c] \in Stages \cup Ends
    BY <1>1, Zenon DEF GatewayInv, GatewayTypeOK, AuditInv
  <2>1. \A c \in GatewayCalls : Ended(c) => audit[c] \in Story(call[c])
    <3>1. \A end \in Ends : LogsOf(end) = Story(end)
      BY Zenon DEF LogsOf, Ends
    <3> QED BY <2>t, <3>1, Zenon DEF Ended
  <2>2. ASSUME NEW c \in GatewayCalls PROVE Logged(c, "AUTH_DENIED") <=> call[c] = "denied"
    <3>1. CASE call[c] = "denied"
      <4>1. audit[c] = <<"AUTH_DENIED">>
        BY <2>t, <3>1, Zenon DEF LogsOf, Story
      <4> QED BY <3>1, <4>1 DEF Logged
    <3>2. CASE call[c] # "denied"
      <4>1. audit[c] \in {<<>>, <<"TOOL_CALL_REJECTED">>, <<"CIRCUIT_OPENED">>, <<"RATE_LIMITED">>,
                          <<"TOOL_CALL_START">>, <<"TOOL_CALL_START", "TOOL_CALL_SUCCESS">>,
                          <<"TOOL_CALL_START", "TOOL_CALL_FAILURE">>,
                          <<"TOOL_CALL_START", "TOOL_CALL_SUCCESS", "TOOL_CALL_FAILURE">>}
        BY <2>t, <3>2, Zenon DEF LogsOf, Story, Stages, Ends
      <4> QED BY <3>2, <4>1 DEF Logged
    <3> QED BY <3>1, <3>2, Zenon
  <2>3. {c \in GatewayCalls : Logged(c, "AUTH_DENIED")} = Denied
    BY <2>2, Zenon DEF Denied
  <2>4. denials = Cardinality(Denied)
    BY <1>1, Zenon DEF GatewayInv, AuditInv
  <2>5. ASSUME NEW c \in GatewayCalls, call[c] \in Failing
        PROVE  call[c] = "raised" \/ Logged(c, "TOOL_CALL_FAILURE")
    <3>1. CASE call[c] # "raised"
      <4>1. audit[c] \in {<<"TOOL_CALL_START", "TOOL_CALL_FAILURE">>,
                          <<"TOOL_CALL_START", "TOOL_CALL_SUCCESS", "TOOL_CALL_FAILURE">>}
        BY <2>t, <2>5, <3>1, Zenon DEF LogsOf, Story, Failing
      <4> QED BY <4>1 DEF Logged
    <3> QED BY <3>1, Zenon
  <2>6. circuit.state # "closed" => \E c \in GatewayCalls : call[c] \in Failing
    BY <1>1, Zenon DEF GatewayInv, AuditInv
  <2> QED BY <2>1, <2>3, <2>4, <2>5, <2>6, Zenon DEF AuditComplete
<1> QED BY <1>1, AlwaysGatewayInv, PTL

\* The counter of concurrent calls is the number of calls that hold a slot: none is freed
\* twice, and none leaks but that of a call whose start could not be logged.
THEOREM SlotsAlwaysCalls == GatewaySpec => []SlotsAreCalls
<1>1. GatewayInv => SlotsAreCalls
  BY Zenon DEF GatewayInv
<1> QED BY <1>1, AlwaysGatewayInv, PTL

\* The concurrency limit is exceeded by no more than the calls that were validated while
\* another was between its validation and its start, if no quotas were reset under a call.
THEOREM LimitAlwaysHeldUnlessRaced == GatewaySpec => []LimitHeldUnlessRaced
<1>1. GatewayInv => LimitHeldUnlessRaced
  BY Zenon DEF GatewayInv, LimitInv, LimitHeldUnlessRaced, Fair
<1> QED BY <1>1, AlwaysGatewayInv, PTL

\* Every counter, stage and record of the gateway keeps its type.
THEOREM GatewayTyped == GatewaySpec => []GatewayTypeOK
<1>1. GatewayInv => GatewayTypeOK
  BY Zenon DEF GatewayInv
<1> QED BY <1>1, AlwaysGatewayInv, PTL
=============================================================================
