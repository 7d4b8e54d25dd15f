--------------------------- MODULE SessionRecovery ---------------------------
(***************************************************************************)
(* InstanceRegistry and CrossInstanceRecovery over one shared database:    *)
(* instances register, send heartbeats and die; others sweep for expired   *)
(* instances and adopt the sessions these left.  A sweep is a SELECT, an   *)
(* UPDATE, one query per expired instance and one write per session, with  *)
(* everybody else's statements in between.  The owner of a session writes  *)
(* its record whole (SessionStoreBackend.put); that code is external.      *)
(***************************************************************************)
EXTENDS FiniteSets

CONSTANTS
    Instances,
    Sessions,
    Sweepers,       \* instances that call recover()
    Mortal,         \* instances that may die
    Late,           \* bound: instances whose heartbeat may come too late, once
    Returning,      \* bound: instances that may register again, once
    DiesSweeping,   \* bound: a sweeper may die in the middle of a sweep
    NoOwner

ASSUME RecoveryAssumption ==
    /\ Sweepers \subseteq Instances
    /\ Mortal \cup Late \cup Returning \subseteq Instances
    /\ NoOwner \notin Instances
    /\ DiesSweeping \in BOOLEAN

VARIABLES
    up,             \* instances whose process runs
    row,            \* instance -> its status in the table: "none", "alive", "expired"
    fresh,          \* instances whose last_heartbeat is within heartbeat_ttl
    session,        \* session -> the stored owner and state
    work,           \* instance -> sessions its process executes
    sweep,          \* instance -> where its recover() is
    adopted,        \* history: sessions a sweep has re-assigned
    suspect         \* history: instances that were late with a heartbeat, or
                    \* registered again after a death

recoveryVars == <<up, row, fresh, session, work, sweep, adopted, suspect>>

NoSweep == [at |-> "idle", expired |-> {}, orphans |-> {}]

RecoveryInit ==
    /\ up = {}
    /\ row = [i \in Instances |-> "none"]
    /\ fresh = {}
    /\ session = [s \in Sessions |-> [owner |-> NoOwner, state |-> "absent"]]
    /\ work = [i \in Instances |-> {}]
    /\ sweep = [i \in Instances |-> NoSweep]
    /\ adopted = {}
    /\ suspect = {}

-----------------------------------------------------------------------------
\* INSERT OR REPLACE: also what an instance that comes back does.
Register(i) ==
    /\ i \notin up
    /\ row[i] = "none" \/ i \in Returning \ suspect
    /\ up' = up \cup {i}
    /\ row' = [row EXCEPT ![i] = "alive"]
    /\ fresh' = fresh \cup {i}
    /\ suspect' = IF row[i] = "none" THEN suspect ELSE suspect \cup {i}
    /\ UNCHANGED <<session, work, sweep, adopted>>

Heartbeat(i) ==
    /\ i \in up
    /\ row' = [row EXCEPT ![i] = "alive"]
    /\ fresh' = fresh \cup {i}
    /\ UNCHANGED <<up, session, work, sweep, adopted, suspect>>

InstanceDies(i) ==
    /\ i \in up \cap Mortal
    /\ sweep[i] = NoSweep \/ DiesSweeping
    /\ up' = up \ {i}
    /\ work' = [work EXCEPT ![i] = {}]
    /\ sweep' = [sweep EXCEPT ![i] = NoSweep]
    /\ UNCHANGED <<row, fresh, session, adopted, suspect>>

\* heartbeat_ttl passes without a heartbeat.
Lapse(i) ==
    /\ i \in fresh
    /\ i \notin up \/ i \in Late \ suspect
    /\ fresh' = fresh \ {i}
    /\ suspect' = IF i \in up THEN suspect \cup {i} ELSE suspect
    /\ UNCHANGED <<up, row, session, work, sweep, adopted>>

PutSession(s, i, state) ==
    session' = [session EXCEPT ![s] = [owner |-> i, state |-> state]]

BeginSession(i, s) ==
    /\ i \in up
    /\ session[s].state = "absent"
    /\ PutSession(s, i, "running")
    /\ work' = [work EXCEPT ![i] = @ \cup {s}]
    /\ UNCHANGED <<up, row, fresh, sweep, adopted, suspect>>

\* The adopter decides to run a recovered session again.
ResumeSession(i, s) ==
    /\ i \in up
    /\ session[s] = [owner |-> i, state |-> "recovered"]
    /\ PutSession(s, i, "running")
    /\ work' = [work EXCEPT ![i] = @ \cup {s}]
    /\ UNCHANGED <<up, row, fresh, sweep, adopted, suspect>>

FinishSession(i, s) ==
    /\ s \in work[i]
    /\ PutSession(s, i, "completed")
    /\ work' = [work EXCEPT ![i] = @ \ {s}]
    /\ UNCHANGED <<up, row, fresh, sweep, adopted, suspect>>

-----------------------------------------------------------------------------
Owned(i) == {s \in Sessions : session[s].owner = i}

IsOrphan(s) == session[s].state \in {"running", "pending"}

\* Mutant: the query takes any other instance, whatever its heartbeat.
DetectExpiredAnyAge(r) ==
    /\ r \in up \cap Sweepers
    /\ sweep[r].at = "idle"
    /\ LET rows == {i \in Instances \ {r} : row[i] = "alive"}
       IN  /\ rows # {}
           /\ sweep' = [sweep EXCEPT ![r] = [NoSweep EXCEPT !.at = "mark", !.expired = rows]]
    /\ UNCHANGED <<up, row, fresh, session, work, adopted, suspect>>

\* Mutant: expired rows are deleted, as deregister does.
MarkExpiredDeletes(r) ==
    /\ sweep[r].at = "mark"
    /\ row' = [i \in Instances |-> IF i \notin fresh THEN "none" ELSE row[i]]
    /\ sweep' = [sweep EXCEPT ![r].at = "list"]
    /\ UNCHANGED <<up, fresh, session, work, adopted, suspect>>

\* The SELECT of detect_expired; with no rows the sweep is over.
DetectExpired(r) ==
    /\ r \in up \cap Sweepers
    /\ sweep[r].at = "idle"
    /\ LET rows == {i \in Instances \ fresh : row[i] = "alive"}
       IN  /\ rows # {}
           /\ sweep' = [sweep EXCEPT ![r] = [NoSweep EXCEPT !.at = "mark", !.expired = rows]]
    /\ UNCHANGED <<up, row, fresh, session, work, adopted, suspect>>

\* Its UPDATE, of the rows selected before.
MarkExpired(r) ==
    /\ sweep[r].at = "mark"
    /\ row' = [i \in Instances |->
                 IF i \in sweep[r].expired /\ row[i] # "none" THEN "expired" ELSE row[i]]
    /\ sweep' = [sweep EXCEPT ![r].at = "list"]
    /\ UNCHANGED <<up, fresh, session, work, adopted, suspect>>

\* Mutant: only the last instance's sessions are kept.
ListOrphansOfLast(r) ==
    /\ sweep[r].at = "list"
    /\ \E i \in sweep[r].expired :
          sweep' = [sweep EXCEPT ![r] =
              [at      |-> IF @.expired = {i} THEN "assign" ELSE "list",
               expired |-> @.expired \ {i},
               orphans |-> {s \in Owned(i) : IsOrphan(s)}]]
    /\ UNCHANGED <<up, row, fresh, session, work, adopted, suspect>>

\* Mutant: every session of an expired instance is an orphan.
ListAllSessions(r) ==
    /\ sweep[r].at = "list"
    /\ \E i \in sweep[r].expired :
          sweep' = [sweep EXCEPT ![r] =
              [at      |-> IF @.expired = {i} THEN "assign" ELSE "list",
               expired |-> @.expired \ {i},
               orphans |-> @.orphans \cup Owned(i)]]
    /\ UNCHANGED <<up, row, fresh, session, work, adopted, suspect>>

ListOrphans(r) ==
    /\ sweep[r].at = "list"
    /\ \E i \in sweep[r].expired :
          sweep' = [sweep EXCEPT ![r] =
              [at      |-> IF @.expired = {i} THEN "assign" ELSE "list",
               expired |-> @.expired \ {i},
               orphans |-> @.orphans \cup {s \in Owned(i) : IsOrphan(s)}]]
    /\ UNCHANGED <<up, row, fresh, session, work, adopted, suspect>>

Reassign(r) ==
    /\ sweep[r].at = "assign"
    /\ \/ /\ sweep[r].orphans = {}
          /\ sweep' = [sweep EXCEPT ![r] = NoSweep]
          /\ UNCHANGED <<session, adopted>>
       \/ \E s \in sweep[r].orphans :
             /\ PutSession(s, r, "recovered")
             /\ sweep' = [sweep EXCEPT ![r].orphans = @ \ {s}]
             /\ adopted' = adopted \cup {s}
    /\ UNCHANGED <<up, row, fresh, work, suspect>>

Recover(r) == DetectExpired(r) \/ MarkExpired(r) \/ ListOrphans(r) \/ Reassign(r)

RecoveryNext ==
    \/ \E i \in Instances :
          \/ Register(i) \/ Heartbeat(i) \/ InstanceDies(i) \/ Lapse(i)
          \/ \E s \in Sessions :
                BeginSession(i, s) \/ ResumeSession(i, s) \/ FinishSession(i, s)
    \/ \E r \in Instances : Recover(r)

\* Sweepers start and sweep again and again, and the heartbeat of a dead instance
\* runs out.
RecoverySpec ==
    /\ RecoveryInit /\ [][RecoveryNext]_recoveryVars
    /\ \A i \in Mortal : WF_recoveryVars(Lapse(i) /\ i \notin up)
    /\ \A r \in Sweepers : WF_recoveryVars(Recover(r)) /\ WF_recoveryVars(Register(r))

-----------------------------------------------------------------------------
\* The tables and the sweeps keep their types, and a sweep remembers only
\* instances that were registered.
RecoveryTypeOK ==
    /\ up \subseteq Instances
    /\ row \in [Instances -> {"none", "alive", "expired"}]
    /\ fresh \subseteq Instances
    /\ session \in [Sessions -> [owner : Instances \cup {NoOwner},
                                 state : {"absent", "running", "recovered", "completed"}]]
    /\ work \in [Instances -> SUBSET Sessions]
    /\ sweep \in [Instances -> [at : {"idle", "mark", "list", "assign"},
                                expired : SUBSET Instances, orphans : SUBSET Sessions]]
    /\ adopted \subseteq Sessions
    /\ suspect \subseteq Instances
    /\ \A r \in Instances : \A i \in sweep[r].expired : row[i] # "none"

\* What CrossInstanceRecovery says it does is recover the orphan sessions left by
\* expired instances.  So no session changes hands while its owner runs, unless
\* the owner was late or came back under its old id, or is a sweeper that adopted
\* it while another sweep was under way.
OnlyOrphansTaken ==
    [][\A s \in Sessions :
          LET owner == session[s].owner
          IN  session'[s].owner # owner =>
                  owner \notin up \/ owner \in suspect \/ s \in adopted]_recoveryVars

\* The steps listed in recover() re-assign sessions that are still "running" (or
\* pending).  So a session that its first owner completed stays completed, unless
\* that owner was late with a heartbeat or came back.
CompletedStays ==
    [][\A s \in Sessions :
          session[s].state = "completed" /\ session'[s].state # "completed" =>
              session[s].owner \in suspect \/ s \in adopted]_recoveryVars

\* While nobody dies in the middle of a sweep, the running sessions of a dead
\* instance are adopted, by whichever of the concurrent sweeps, unless the
\* instance was late before it died.
OrphansAdopted ==
    \A s \in Sessions :
        session[s].state = "running" /\ session[s].owner \notin up ~>
            session[s].state # "running" \/ session[s].owner \in up \cup suspect

\* What docs/ops/state-recovery.md says: the sessions of an instance that crashed
\* are recovered automatically.
AutomaticRecovery ==
    \A s \in Sessions :
        session[s].state = "running" /\ session[s].owner \notin up ~>
            session[s].state # "running" \/ session[s].owner \in up
=============================================================================
