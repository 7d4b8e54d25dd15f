------------------------- MODULE CoordinationProofs -------------------------
(***************************************************************************)
(* The services the agents share: the multi-agent memory and dispatcher,   *)
(* the message bus, the config center and the connection pool, for any     *)
(* number of roles, keys, assignments, agents, callers, threads, editors,  *)
(* callbacks, borrowers and connections.                                   *)
(***************************************************************************)
EXTENDS MCCoordination, ConfigCenter, FiniteSetTheorems, TLAPS

-----------------------------------------------------------------------------
(* The shared memory.  A conflict means a change because a role knows the  *)
(* version of every key that has not moved since it saw it, and            *)
(* expected_version is what it knows.  An operation outside crowded is the *)
(* only one there is, so that what it read of the backend still holds when *)
(* it writes.                                                              *)

KnownIsCurrent ==
    \A r \in Roles : \A k \in Keys \ moved[r] : known[r][k] = Version(memory[k])

ExpectedIsKnown ==
    \A r \in Busy : op[r].expected \in {NoCheck, known[r][op[r].key]}

AloneUnlessCrowded ==
    \A r \in Busy \ crowded : Busy = {r}

MemoryInv ==
    /\ MemoryTypeOK
    /\ KnownIsCurrent
    /\ ExpectedIsKnown
    /\ AloneUnlessCrowded
    /\ UncontendedIsAtomic

\* The shape of an operation in progress.
LEMMA InProgress ==
    ASSUME MemoryTypeOK, NEW r \in Roles, op[r].at # "idle"
    PROVE  /\ op[r] \in Operations
           /\ op[r].at \in {"cleaning", "storing"}
           /\ op[r].key \in Keys
           /\ op[r].doomed \subseteq Keys
           /\ op[r].next \in Entries \cup {NoEntry}
    BY DEF MemoryTypeOK, Operations, Idle

LEMMA VersionIsNat ==
    ASSUME NEW e \in Entries \cup {NoEntry}
    PROVE  Version(e) \in Nat
    BY Zenon DEF Version, Entries

LEMMA InitMemory == MemoryInit => MemoryInv
    BY MemoryAssumption
    DEF MemoryInit, MemoryInv, MemoryTypeOK, KnownIsCurrent, ExpectedIsKnown,
        AloneUnlessCrowded, UncontendedIsAtomic, Busy, Idle, Version

\* The beginning of an operation, by any role for any key.
LEMMA BeginKeepsMemory ==
    ASSUME MemoryInv, NEW r \in Roles, NEW k \in Keys,
           NEW kind \in {"read", "write", "cleanup"},
           NEW expected \in {NoCheck, known[r][k]},
           BeginMemoryOp(r, kind, k, expected),
           writes' \in 0..MaxWrites
    PROVE  MemoryInv'
<1> USE DEF MemoryInv
<1> DEFINE begun == [at |-> "cleaning", kind |-> kind, key |-> k, expected |-> expected,
                     doomed |-> ExpiredKeys, next |-> NoEntry]
<1>1. /\ op[r].at = "idle"
      /\ op' = [op EXCEPT ![r] = begun]
      /\ crowded' = IF Busy = {} THEN crowded \ {r} ELSE crowded \cup Busy \cup {r}
      /\ UNCHANGED <<memory, known, moved>>
    BY Zenon DEF BeginMemoryOp
<1>2. begun \in Operations
    BY DEF Operations, ExpiredKeys, MemoryTypeOK
<1>3. op'[r] = begun /\ \A s \in Roles \ {r} : op'[s] = op[s]
    BY <1>1, Zenon DEF MemoryTypeOK
<1>4. Busy' = Busy \cup {r} /\ r \notin Busy
    BY <1>1, <1>3 DEF Busy
<1>5. MemoryTypeOK'
    BY <1>1, <1>2, <1>3, <1>4, Zenon DEF MemoryTypeOK, Busy
<1>6. KnownIsCurrent'
    BY <1>1, Zenon DEF KnownIsCurrent
<1>7. ExpectedIsKnown'
    BY <1>1, <1>3, <1>4 DEF ExpectedIsKnown, Busy
<1>8. AloneUnlessCrowded'
    BY <1>1, <1>4, Zenon DEF AloneUnlessCrowded
<1>9. UncontendedIsAtomic'
    <2> SUFFICES ASSUME NEW s \in Roles \ crowded'
                 PROVE  /\ op'[s].at = "cleaning" =>
                              \A j \in op'[s].doomed : Expired(memory'[j])
                        /\ op'[s].at = "storing" =>
                              /\ op'[s].next.version = Version(memory'[op'[s].key]) + 1
                              /\ op'[s].expected \in {NoCheck, Version(memory'[op'[s].key])}
        BY Zenon DEF UncontendedIsAtomic
    <2>1. CASE s = r
        BY <1>1, <1>3, <2>1 DEF ExpiredKeys
    <2>2. CASE s # r
        <3>1. op'[s].at = "idle"
            BY <1>1, <1>3, <2>2, Zenon DEF Busy
        <3> QED
            BY <3>1, Zenon
    <2> QED
        BY <2>1, <2>2, Zenon
<1> QED
    BY <1>5, <1>6, <1>7, <1>8, <1>9, Zenon

\* The end of an operation that changes no entry and lets its role know the current
\* version of its key or nothing new.
LEMMA ReturnKeepsMemory ==
    ASSUME MemoryInv, NEW r \in Roles, op[r].at # "idle", Return(r),
           \/ UNCHANGED <<known, moved>>
           \/ /\ Learn(r, Version(memory[op[r].key]))
              /\ moved' = [moved EXCEPT ![r] = @ \ {op[r].key}],
           UNCHANGED <<memory, crowded, writes>>
    PROVE  MemoryInv'
<1> USE DEF MemoryInv
<1>1. op'[r] = Idle /\ \A s \in Roles \ {r} : op'[s] = op[s]
    BY Zenon DEF Return, MemoryTypeOK
<1>2. Busy' = Busy \ {r}
    BY <1>1 DEF Busy, Idle
<1>3. op[r].key \in Keys /\ Version(memory[op[r].key]) \in Nat
    BY InProgress, VersionIsNat, Zenon DEF MemoryTypeOK
<1>4. \A s \in Roles \ {r} : known'[s] = known[s]
    BY Zenon DEF Learn, MemoryTypeOK
<1>5. MemoryTypeOK'
    <2>1. op' \in [Roles -> Operations \cup {Idle}]
        BY Zenon DEF Return, MemoryTypeOK
    <2>2. known' \in [Roles -> [Keys -> Nat]] /\ moved' \in [Roles -> SUBSET Keys]
        <3>1. CASE UNCHANGED <<known, moved>>
            BY <3>1, Zenon DEF MemoryTypeOK
        <3>2. CASE /\ Learn(r, Version(memory[op[r].key]))
                   /\ moved' = [moved EXCEPT ![r] = @ \ {op[r].key}]
            <4>1. [known[r] EXCEPT ![op[r].key] = Version(memory[op[r].key])] \in [Keys -> Nat]
                BY <1>3, Zenon DEF MemoryTypeOK
            <4> QED
                BY <3>2, <4>1, Zenon DEF Learn, MemoryTypeOK
        <3> QED
            BY <3>1, <3>2, Zenon
    <2>3. \A s \in Roles : op'[s].at = "storing" => op'[s].next # NoEntry /\ op'[s].kind = "write"
        BY <1>1 DEF MemoryTypeOK, Idle
    <2> QED
        BY <2>1, <2>2, <2>3, Zenon DEF MemoryTypeOK
<1>6. KnownIsCurrent'
    BY <1>3 DEF KnownIsCurrent, Learn, MemoryTypeOK
<1>7. ExpectedIsKnown'
    BY <1>1, <1>2, <1>4, Zenon DEF ExpectedIsKnown, Busy
<1>8. AloneUnlessCrowded'
    BY <1>2, Zenon DEF AloneUnlessCrowded
<1>9. UncontendedIsAtomic'
    BY <1>1 DEF UncontendedIsAtomic, Idle
<1> QED
    BY <1>5, <1>6, <1>7, <1>8, <1>9, Zenon

LEMMA RemoveKeepsMemory ==
    ASSUME MemoryInv, NEW r \in Roles, RemoveExpired(r)
    PROVE  MemoryInv'
<1> USE DEF MemoryInv
<1>1. PICK k \in op[r].doomed :
         /\ op' = [op EXCEPT ![r].doomed = @ \ {k}]
         /\ SetEntry(k, NoEntry)
    BY Zenon DEF RemoveExpired
<1>2. op[r].at = "cleaning" /\ UNCHANGED <<known, crowded, writes>>
    BY Zenon DEF RemoveExpired
<1>3. op[r] \in Operations /\ k \in Keys
    BY <1>2, InProgress, Zenon
<1>4. /\ op'[r] = [op[r] EXCEPT !.doomed = @ \ {k}]
      /\ \A s \in Roles \ {r} : op'[s] = op[s]
    BY <1>1, Zenon DEF MemoryTypeOK
<1>5. /\ op'[r] \in Operations
      /\ op'[r].at = "cleaning" /\ op'[r].key = op[r].key
      /\ op'[r].expected = op[r].expected /\ op'[r].doomed = op[r].doomed \ {k}
    BY <1>2, <1>3, <1>4, Zenon DEF Operations
<1>6. Busy' = Busy /\ r \in Busy
    <2>1. op[r].at # "idle" /\ op'[r].at # "idle"
        BY <1>2, <1>5, Zenon
    <2>2. \A s \in Roles : op'[s].at = "idle" <=> op[s].at = "idle"
        BY <1>4, <2>1, Zenon
    <2> QED
        BY <2>1, <2>2, Zenon DEF Busy
<1>7. MemoryTypeOK'
    <2>1. op' \in [Roles -> Operations \cup {Idle}]
        BY <1>1, <1>4, <1>5, Zenon DEF MemoryTypeOK
    <2>2. \A s \in Roles : op'[s].at = "storing" => op'[s].next # NoEntry /\ op'[s].kind = "write"
        BY <1>4, <1>5, Zenon DEF MemoryTypeOK
    <2> QED
        BY <1>1, <1>2, <1>3, <2>1, <2>2, Zenon DEF MemoryTypeOK, SetEntry
<1>8. KnownIsCurrent'
    BY <1>1, <1>2, <1>3, Zenon DEF KnownIsCurrent, SetEntry, MemoryTypeOK
<1>9. ExpectedIsKnown'
    BY <1>2, <1>4, <1>5, <1>6, Zenon DEF ExpectedIsKnown, Busy
<1>10. AloneUnlessCrowded'
    BY <1>2, <1>6, Zenon DEF AloneUnlessCrowded
<1>11. UncontendedIsAtomic'
    <2> SUFFICES ASSUME NEW s \in Roles \ crowded
                 PROVE  /\ op'[s].at = "cleaning" =>
                              \A j \in op'[s].doomed : Expired(memory'[j])
                        /\ op'[s].at = "storing" =>
                              /\ op'[s].next.version = Version(memory'[op'[s].key]) + 1
                              /\ op'[s].expected \in {NoCheck, Version(memory'[op'[s].key])}
        BY <1>2, Zenon DEF UncontendedIsAtomic
    <2>1. CASE s = r
        <3>1. \A j \in op[r].doomed \ {k} : memory'[j] = memory[j]
            BY <1>1, <1>3, Zenon DEF SetEntry, MemoryTypeOK, Operations
        <3> QED
            BY <1>2, <1>5, <2>1, <3>1, Zenon DEF UncontendedIsAtomic
    <2>2. CASE s # r
        <3>1. op'[s].at = "idle"
            BY <1>4, <1>6, <2>2 DEF AloneUnlessCrowded, Busy
        <3> QED
            BY <3>1, Zenon
    <2> QED
        BY <2>1, <2>2, Zenon
<1> QED
    BY <1>7, <1>8, <1>9, <1>10, <1>11, Zenon

LEMMA LoadKeepsMemory ==
    ASSUME MemoryInv, NEW r \in Roles, LoadForWrite(r)
    PROVE  MemoryInv'
<1> USE DEF MemoryInv
<1> DEFINE v == Version(memory[op[r].key])
<1>1. PICK life \in {"forever", "fresh"} :
         op' = [op EXCEPT ![r].at = "storing",
                          ![r].next = [version |-> v + 1, life |-> life]]
    BY Zenon DEF LoadForWrite
<1>2. /\ op[r].at = "cleaning" /\ op[r].kind = "write"
      /\ op[r].expected \in {NoCheck, v}
      /\ UNCHANGED <<memory, known, moved, crowded, writes>>
    BY Zenon DEF LoadForWrite, Cleaned, Conflicts
<1>3. op[r] \in Operations /\ v \in Nat
    BY <1>2, InProgress, VersionIsNat, Zenon DEF MemoryTypeOK
<1>4. /\ op'[r] = [op[r] EXCEPT !.at = "storing", !.next = [version |-> v + 1, life |-> life]]
      /\ \A s \in Roles \ {r} : op'[s] = op[s]
    BY <1>1, Zenon DEF MemoryTypeOK
<1>5. [version |-> v + 1, life |-> life] \in Entries
    BY <1>3 DEF Entries
<1>6. /\ op'[r] \in Operations
      /\ op'[r].at = "storing" /\ op'[r].key = op[r].key /\ op'[r].kind = "write"
      /\ op'[r].expected = op[r].expected /\ op'[r].next = [version |-> v + 1, life |-> life]
    BY <1>2, <1>3, <1>4, <1>5, Zenon DEF Operations
<1>7. Busy' = Busy /\ r \in Busy
    BY <1>2, <1>4, <1>6, Zenon DEF Busy
<1>8. MemoryTypeOK'
    <2>1. op' \in [Roles -> Operations \cup {Idle}]
        <3>1. DOMAIN op' = Roles /\ op' = [s \in Roles |-> op'[s]]
            BY <1>1, Zenon DEF MemoryTypeOK
        <3>2. \A s \in Roles : op'[s] \in Operations \cup {Idle}
            BY <1>4, <1>6, Zenon DEF MemoryTypeOK
        <3> QED
            BY <3>1, <3>2, Zenon
    <2>2. \A s \in Roles : op'[s].at = "storing" => op'[s].next # NoEntry /\ op'[s].kind = "write"
        <3>1. op'[r].next # NoEntry
            BY <1>5, <1>6, MemoryAssumption, Zenon DEF Entries
        <3> QED
            BY <1>4, <1>6, <3>1, Zenon DEF MemoryTypeOK
    <2> QED
        BY <1>2, <2>1, <2>2, Zenon DEF MemoryTypeOK
<1>9. KnownIsCurrent'
    BY <1>2, Zenon DEF KnownIsCurrent
<1>10. ExpectedIsKnown'
    BY <1>2, <1>4, <1>6, <1>7, Zenon DEF ExpectedIsKnown, Busy
<1>11. AloneUnlessCrowded'
    BY <1>2, <1>7, Zenon DEF AloneUnlessCrowded
<1>12. UncontendedIsAtomic'
    <2> SUFFICES ASSUME NEW s \in Roles \ crowded
                 PROVE  /\ op'[s].at = "cleaning" =>
                              \A j \in op'[s].doomed : Expired(memory'[j])
                        /\ op'[s].at = "storing" =>
                              /\ op'[s].next.version = Version(memory'[op'[s].key]) + 1
                              /\ op'[s].expected \in {NoCheck, Version(memory'[op'[s].key])}
        BY <1>2, Zenon DEF UncontendedIsAtomic
    <2>1. CASE s = r
        <3>1. op'[r].next.version = v + 1 /\ memory' = memory
            BY <1>2, <1>6
        <3> QED
            BY <1>2, <1>6, <2>1, <3>1, Zenon
    <2>2. CASE s # r
        BY <1>2, <1>4, <2>2, Zenon DEF UncontendedIsAtomic
    <2> QED
        BY <2>1, <2>2, Zenon
<1> QED
    BY <1>8, <1>9, <1>10, <1>11, <1>12, Zenon

LEMMA StoreKeepsMemory ==
    ASSUME MemoryInv, NEW r \in Roles, StoreEntry(r)
    PROVE  MemoryInv'
<1> USE DEF MemoryInv
<1>1. /\ op[r].at = "storing" /\ Return(r) /\ Learn(r, op[r].next.version)
      /\ memory' = [memory EXCEPT ![op[r].key] = op[r].next]
      /\ moved' = [s \in Roles |-> IF s = r THEN moved[s] \ {op[r].key}
                                            ELSE moved[s] \cup {op[r].key}]
      /\ UNCHANGED <<crowded, writes>>
    BY Zenon DEF StoreEntry
<1>2. /\ op[r].key \in Keys /\ op[r].next \in Entries /\ op[r].next # NoEntry
      /\ op[r].next.version \in Nat /\ Version(op[r].next) = op[r].next.version
    BY <1>1, InProgress, Zenon DEF MemoryTypeOK, Entries, Version
<1>3. op'[r] = Idle /\ \A s \in Roles \ {r} : op'[s] = op[s]
    BY <1>1, Zenon DEF Return, MemoryTypeOK
<1>4. Busy' = Busy \ {r} /\ r \in Busy
    BY <1>1, <1>3 DEF Busy, Idle
<1>5. /\ known'[r] = [known[r] EXCEPT ![op[r].key] = op[r].next.version]
      /\ \A s \in Roles \ {r} : known'[s] = known[s]
    BY <1>1, Zenon DEF Learn, MemoryTypeOK
<1>6. MemoryTypeOK'
    <2>1. op' \in [Roles -> Operations \cup {Idle}]
        BY <1>1, Zenon DEF Return, MemoryTypeOK
    <2>2. known' \in [Roles -> [Keys -> Nat]]
        <3>1. known'[r] \in [Keys -> Nat]
            BY <1>2, <1>5 DEF MemoryTypeOK
        <3> QED
            BY <1>1, <1>5, <3>1, Zenon DEF Learn, MemoryTypeOK
    <2>3. moved' \in [Roles -> SUBSET Keys] /\ memory' \in [Keys -> Entries \cup {NoEntry}]
        BY <1>1, <1>2, Zenon DEF MemoryTypeOK
    <2>4. \A s \in Roles : op'[s].at = "storing" => op'[s].next # NoEntry /\ op'[s].kind = "write"
        BY <1>3 DEF MemoryTypeOK, Idle
    <2> QED
        BY <1>1, <2>1, <2>2, <2>3, <2>4, Zenon DEF MemoryTypeOK
<1>7. KnownIsCurrent'
    BY <1>1, <1>2, <1>5 DEF KnownIsCurrent, MemoryTypeOK
<1>8. ExpectedIsKnown'
    BY <1>3, <1>4, <1>5, Zenon DEF ExpectedIsKnown, Busy
<1>9. AloneUnlessCrowded'
    BY <1>1, <1>4, Zenon DEF AloneUnlessCrowded
<1>10. UncontendedIsAtomic'
    <2>1. \A s \in Roles \ crowded : op'[s].at = "idle"
        BY <1>3, <1>4 DEF AloneUnlessCrowded, Busy, Idle
    <2> QED
        BY <1>1, <2>1, Zenon DEF UncontendedIsAtomic
<1> QED
    BY <1>6, <1>7, <1>8, <1>9, <1>10, Zenon

LEMMA TimeKeepsMemory ==
    ASSUME MemoryInv, NEW k \in Keys, TimeToLiveOver(k)
    PROVE  MemoryInv'
<1> USE DEF MemoryInv
<1>1. memory[k] \in Entries /\ memory'[k] = [memory[k] EXCEPT !.life = "over"]
    BY Zenon DEF TimeToLiveOver, MemoryTypeOK
<1>2. memory'[k] \in Entries /\ memory'[k].version = memory[k].version /\ memory'[k].life = "over"
    BY <1>1, Zenon DEF Entries
<1>3. memory'[k] # NoEntry /\ memory[k] # NoEntry
    BY <1>1, <1>2, MemoryAssumption, Zenon DEF Entries
<1>4. \A j \in Keys : /\ Version(memory'[j]) = Version(memory[j])
                      /\ Expired(memory[j]) => Expired(memory'[j])
    BY <1>2, <1>3, Zenon DEF Version, Expired, TimeToLiveOver, MemoryTypeOK
<1>5. UNCHANGED <<op, known, moved, crowded, writes>>
    BY Zenon DEF TimeToLiveOver
<1>6. MemoryTypeOK'
    BY <1>2, <1>5, Zenon DEF TimeToLiveOver, MemoryTypeOK
<1>7. KnownIsCurrent'
    BY <1>4, <1>5, Zenon DEF KnownIsCurrent
<1>8. ExpectedIsKnown' /\ AloneUnlessCrowded'
    BY <1>5, Zenon DEF ExpectedIsKnown, AloneUnlessCrowded, Busy
<1>9. UncontendedIsAtomic'
    BY <1>4, <1>5, InProgress, Zenon DEF UncontendedIsAtomic
<1> QED
    BY <1>6, <1>7, <1>8, <1>9, Zenon

LEMMA NextMemory == MemoryInv /\ [MemoryNext]_memoryVars => MemoryInv'
<1> SUFFICES ASSUME MemoryInv, [MemoryNext]_memoryVars PROVE MemoryInv'
    BY Zenon
<1>1. ASSUME NEW r \in Roles, NEW k \in Keys, BeginRead(r, k) \/ BeginCleanup(r, k)
      PROVE  MemoryInv'
    BY <1>1, BeginKeepsMemory, Zenon DEF BeginRead, BeginCleanup, MemoryInv, MemoryTypeOK
<1>2. ASSUME NEW r \in Roles, NEW k \in Keys, BeginWrite(r, k)
      PROVE  MemoryInv'
    <2>1. writes' \in 0..MaxWrites
        BY <1>2, MemoryAssumption DEF BeginWrite, MemoryInv, MemoryTypeOK
    <2> QED
        BY <1>2, <2>1, BeginKeepsMemory, Zenon DEF BeginWrite
<1>3. ASSUME NEW r \in Roles, EndCleanup(r) \/ EndRead(r) \/ RaiseConflict(r)
      PROVE  MemoryInv'
    <2>1. op[r].at # "idle"
        BY <1>3, Zenon DEF EndCleanup, EndRead, RaiseConflict, Conflicts, Cleaned
    <2> QED
        BY <1>3, <2>1, ReturnKeepsMemory, Zenon DEF EndCleanup, EndRead, RaiseConflict
<1>4. CASE UNCHANGED memoryVars
    BY <1>4, Zenon
    DEF memoryVars, MemoryInv, MemoryTypeOK, KnownIsCurrent, ExpectedIsKnown,
        AloneUnlessCrowded, UncontendedIsAtomic, Busy
<1> QED
    BY <1>1, <1>2, <1>3, <1>4, RemoveKeepsMemory, LoadKeepsMemory, StoreKeepsMemory,
       TimeKeepsMemory
    DEF MemoryNext

\* VersionConflictError is never spurious: write raises it only if the key was written or
\* removed after the role saw the version it passes.
THEOREM ConflictsAreReal == MemorySpec => []ConflictMeansChange
<1>1. MemoryInv => ConflictMeansChange
    <2> SUFFICES ASSUME MemoryInv, NEW r \in Roles, Conflicts(r)
                 PROVE  op[r].key \in moved[r]
        BY Zenon DEF ConflictMeansChange
    <2>1. op[r].at # "idle" /\ r \in Busy
        BY Zenon DEF Conflicts, Cleaned, Busy
    <2>2. op[r].key \in Keys
        BY <2>1, InProgress, Zenon DEF MemoryInv
    <2> QED
        BY <2>1, <2>2, Zenon DEF MemoryInv, Conflicts, ExpectedIsKnown, KnownIsCurrent
<1> QED
    BY <1>1, InitMemory, NextMemory, PTL DEF MemorySpec

\* A write or cleanup that no other operation overlaps is as good as atomic: it removes
\* expired entries only, and stores the version after the one it compared.
THEOREM AloneIsAtomic == MemorySpec => []UncontendedIsAtomic
<1>1. MemoryInv => UncontendedIsAtomic
    BY Zenon DEF MemoryInv
<1> QED
    BY <1>1, InitMemory, NextMemory, PTL DEF MemorySpec

-----------------------------------------------------------------------------
(* The dispatcher.  The retry budget is inductive with the type.  That     *)
(* callbacks, announcements and statuses agree needs the path a callback   *)
(* takes: it is still with the agent that recorded it, or that agent went  *)
(* away, or it was announced.                                              *)

\* An announced assignment is settled, and with that outcome.
AnnouncedSettles ==
    \A t \in Assignments : announced[t] # "none" => status[t] = announced[t]

\* What an agent recorded, and what was announced, is among the callbacks.
OutcomesRecorded ==
    /\ \A a \in Agents :
          recorded[a] # "no" => hands[a] # Nothing /\ recorded[a] \in callbacks[hands[a]]
    /\ \A t \in Assignments : announced[t] # "none" => announced[t] \in callbacks[t]

\* Where the callbacks of an assignment have gone.
CallbackPath ==
    \A t \in Assignments \ orphaned :
        callbacks[t] # {} =>
            announced[t] # "none" \/ \E a \in Agents : hands[a] = t /\ recorded[a] # "no"

DispatcherInv ==
    /\ DispatcherTypeOK
    /\ RetryBudget
    /\ \A t \in Assignments : status[t] = "new" => attempts[t] = 0
    /\ AnnouncedSettles
    /\ OutcomesRecorded
    /\ CallbackPath

LEMMA InitDispatcher == DispatcherInit => DispatcherInv
    BY DispatcherAssumption
    DEF DispatcherInit, DispatcherInv, DispatcherTypeOK, RetryBudget, AnnouncedSettles,
        OutcomesRecorded, CallbackPath, Outcomes

LEMMA NextDispatcher == DispatcherInv /\ [DispatcherNext]_dispatcherVars => DispatcherInv'
<1> SUFFICES ASSUME DispatcherInv, [DispatcherNext]_dispatcherVars PROVE DispatcherInv'
    BY Zenon
<1> USE DispatcherAssumption DEF DispatcherInv, DispatcherTypeOK, Outcomes, Settled
<1>1. ASSUME NEW t \in Assignments, EnqueueAssignment(t)
      PROVE  DispatcherInv'
    BY <1>1
    DEF EnqueueAssignment, RetryBudget, AnnouncedSettles, OutcomesRecorded, CallbackPath
<1>2. ASSUME NEW t \in Assignments, TimeOut(t)
      PROVE  DispatcherInv'
    BY <1>2 DEF TimeOut, RetryBudget, AnnouncedSettles, OutcomesRecorded, CallbackPath
<1>3. ASSUME NEW a \in Agents, DispatchNext(a)
      PROVE  DispatcherInv'
    <2>1. PICK t \in Candidates(AgentRole[a]) :
             /\ status' = [status EXCEPT ![t] = "running"]
             /\ attempts' = [attempts EXCEPT ![t] = @ + 1]
             /\ hands' = [hands EXCEPT ![a] = t]
        BY <1>3, Zenon DEF DispatchNext
    <2>2. t \in Assignments /\ status[t] = "pending"
        BY Zenon DEF Candidates
    <2>3. hands[a] = Nothing
          /\ UNCHANGED <<overdue, recorded, callbacks, announced, orphaned>>
        BY <1>3, Zenon DEF DispatchNext
    <2>4. recorded[a] = "no"
        BY <2>3, Zenon DEF OutcomesRecorded
    <2>5. DispatcherTypeOK'
        BY <2>1, <2>2, <2>3
    <2>6. RetryBudget' /\ \A u \in Assignments : status'[u] = "new" => attempts'[u] = 0
        BY <2>1, <2>2, <2>3 DEF RetryBudget
    <2>7. AnnouncedSettles'
        BY <2>1, <2>2, <2>3 DEF AnnouncedSettles
    <2>8. OutcomesRecorded' /\ CallbackPath'
        BY <2>1, <2>2, <2>3, <2>4 DEF OutcomesRecorded, CallbackPath
    <2> QED
        BY <2>5, <2>6, <2>7, <2>8, Zenon
<1>4. ASSUME NEW a \in Agents, NEW o \in Outcomes, RecordCallback(a, o)
      PROVE  DispatcherInv'
    <2>1. hands[a] \in Assignments
        BY <1>4 DEF RecordCallback
    <2>2. RetryBudget' /\ AnnouncedSettles'
        BY <1>4, Zenon DEF RecordCallback, RetryBudget, AnnouncedSettles
    <2>3. OutcomesRecorded'
        BY <1>4, <2>1 DEF RecordCallback, OutcomesRecorded
    <2>4. CallbackPath'
        BY <1>4, <2>1 DEF RecordCallback, CallbackPath
    <2> QED
        BY <1>4, <2>1, <2>2, <2>3, <2>4, Zenon DEF RecordCallback
<1>5. ASSUME NEW a \in Agents, CompleteAssignment(a)
      PROVE  DispatcherInv'
    <2>1. hands[a] \in Assignments /\ recorded[a] \in Outcomes
        BY <1>5 DEF CompleteAssignment
    <2>2. RetryBudget' /\ AnnouncedSettles'
        BY <1>5, <2>1, Zenon DEF CompleteAssignment, RetryBudget, AnnouncedSettles
    <2>3. OutcomesRecorded'
        BY <1>5, <2>1 DEF CompleteAssignment, OutcomesRecorded
    <2>4. CallbackPath'
        BY <1>5, <2>1 DEF CompleteAssignment, CallbackPath
    <2>5. DispatcherTypeOK'
        BY <1>5, <2>1, Zenon DEF CompleteAssignment
    <2> QED
        BY <1>5, <2>1, <2>2, <2>3, <2>4, <2>5 DEF CompleteAssignment
<1>6. ASSUME NEW a \in Agents, AbandonAssignment(a)
      PROVE  DispatcherInv'
    <2>1. hands[a] \in Assignments
        BY <1>6 DEF AbandonAssignment
    <2>2. RetryBudget' /\ AnnouncedSettles'
        BY <1>6, Zenon DEF AbandonAssignment, RetryBudget, AnnouncedSettles
    <2>3. OutcomesRecorded'
        BY <1>6 DEF AbandonAssignment, OutcomesRecorded
    <2>4. CallbackPath'
        BY <1>6, <2>1 DEF AbandonAssignment, CallbackPath
    <2> QED
        BY <1>6, <2>1, <2>2, <2>3, <2>4, Zenon DEF AbandonAssignment
<1>7. CASE RecycleTimedOut
    <2>1. DispatcherTypeOK'
        BY <1>7, Zenon DEF RecycleTimedOut, Recycled
    <2>2. RetryBudget' /\ \A u \in Assignments : status'[u] = "new" => attempts'[u] = 0
        BY <1>7 DEF RecycleTimedOut, Recycled, RetryBudget
    <2>3. AnnouncedSettles'
        BY <1>7, Zenon DEF RecycleTimedOut, Recycled, AnnouncedSettles
    <2>4. OutcomesRecorded' /\ CallbackPath'
        BY <1>7 DEF RecycleTimedOut, OutcomesRecorded, CallbackPath
    <2> QED
        BY <2>1, <2>2, <2>3, <2>4, Zenon
<1>8. CASE UNCHANGED dispatcherVars
    BY <1>8 DEF dispatcherVars, RetryBudget, AnnouncedSettles, OutcomesRecorded, CallbackPath
<1> QED
    BY <1>1, <1>2, <1>3, <1>4, <1>5, <1>6, <1>7, <1>8, Zenon DEF DispatcherNext, Report, AllDone

\* recycle_timed_out and dispatch_next never give an assignment more than retry_limit + 1
\* attempts, whatever its late agents do.
THEOREM RetriesBounded == DispatcherSpec => []RetryBudget
<1>1. DispatcherInv => RetryBudget
    BY Zenon DEF DispatcherInv
<1> QED
    BY <1>1, InitDispatcher, NextDispatcher, PTL DEF DispatcherSpec

\* The last task.completed on the bus agrees with the status the dispatcher keeps.
THEOREM AnnouncementsAgree == DispatcherSpec => []AnnouncedIsStatus
<1>1. DispatcherInv => AnnouncedIsStatus
    BY Zenon DEF DispatcherInv, AnnouncedSettles, AnnouncedIsStatus
<1> QED
    BY <1>1, InitDispatcher, NextDispatcher, PTL DEF DispatcherSpec

\* aggregate_task says all_succeeded only for a completed assignment, once no agent is
\* between its record and its complete and none went away there.
THEOREM AggregatesAgree == DispatcherSpec => []AggregateAgrees
<1>1. DispatcherInv => AggregateAgrees
    <2> SUFFICES ASSUME DispatcherInv, NEW t \in Assignments \ orphaned, AllSucceeded(t),
                        \A a \in Agents : hands[a] = t => recorded[a] = "no"
                 PROVE  status[t] = "completed"
        BY Zenon DEF AggregateAgrees
    <2>1. announced[t] # "none"
        BY Zenon DEF DispatcherInv, CallbackPath, AllSucceeded
    <2> QED
        BY <2>1, Zenon DEF DispatcherInv, AnnouncedSettles, OutcomesRecorded, AllSucceeded
<1> QED
    BY <1>1, InitDispatcher, NextDispatcher, PTL DEF DispatcherSpec

\* No step, a late recycle or a late complete included, makes a settled assignment
\* pending or running again.
THEOREM SettledForGood == DispatcherSpec => SettledStays
<1>1. ASSUME DispatcherInv, [DispatcherNext]_dispatcherVars
      PROVE  [\A t \in Assignments : Settled(t) => status'[t] \in Outcomes]_dispatcherVars
    <2> SUFFICES ASSUME NEW t \in Assignments, Settled(t) PROVE status'[t] \in Outcomes
        BY Zenon
    <2> USE <1>1 DEF DispatcherInv, DispatcherTypeOK, Settled, Outcomes
    <2>1. ASSUME NEW u \in Assignments, EnqueueAssignment(u) PROVE status'[t] \in Outcomes
        BY <2>1, Zenon DEF EnqueueAssignment
    <2>2. ASSUME NEW u \in Assignments, TimeOut(u) PROVE status'[t] \in Outcomes
        BY <2>2, Zenon DEF TimeOut
    <2>3. ASSUME NEW a \in Agents, DispatchNext(a) PROVE status'[t] \in Outcomes
        BY <2>3, Zenon DEF DispatchNext, Candidates
    <2>4. ASSUME NEW a \in Agents, Report(a) \/ AbandonAssignment(a)
          PROVE  status'[t] \in Outcomes
        BY <2>4, Zenon DEF Report, RecordCallback, CompleteAssignment, AbandonAssignment
    <2>5. CASE RecycleTimedOut
        BY <2>5, Zenon DEF RecycleTimedOut, Recycled
    <2>6. CASE UNCHANGED dispatcherVars
        BY <2>6, Zenon DEF dispatcherVars
    <2> QED
        BY <2>1, <2>2, <2>3, <2>4, <2>5, <2>6, Zenon DEF DispatcherNext, AllDone
<1> QED
    BY <1>1, InitDispatcher, NextDispatcher, PTL DEF DispatcherSpec, SettledStays

-----------------------------------------------------------------------------
(* The message bus.  That a topic with handlers is subscribed is inductive *)
(* with the type.  The type needs that a thread runs the handlers of one   *)
(* topic, and, for the listener that two callers may both start, that no   *)
(* more listeners run than callers have come past _ensure_listener.        *)

Messages == [topic : Requesters \cup {Service}, about : Requesters]
Stages == {"out", "subscribing", "ensuring", "starting", "ready", "dispatching", "waiting",
           "leaving", "returned"}
Agendas == [about : Requesters \cup {Service}, left : SUBSET Callers]

\* A reply topic has the handler of its requester only, the service topic those of servers.
OwnHandlers ==
    /\ \A q \in Requesters : handlers[q] \subseteq {q}
    /\ handlers[Service] \subseteq Servers

\* A thread with handlers to run knows the requester, and they are of one topic.
AgendaSorted ==
    \A t \in Threads :
        /\ agenda[t].left # {} => agenda[t].about \in Requesters
        /\ agenda[t].left \subseteq Servers \/ agenda[t].left \subseteq Requesters

\* The callers that have come past _ensure_listener.
Started ==
    {c \in Callers : at[c] \notin {"out", "subscribing", "ensuring", "starting"}}

BusInv ==
    /\ BusTypeOK
    /\ OwnHandlers
    /\ AgendaSorted
    /\ Cardinality(listening) <= Cardinality(Started)
    /\ RegisteredIsSubscribed

\* The parts of a sequence are of its type.
LEMMA SeqParts ==
    ASSUME NEW S, NEW s \in Seq(S)
    PROVE  /\ \A x \in S : Append(s, x) \in Seq(S)
           /\ s # <<>> => Head(s) \in S /\ Tail(s) \in Seq(S)
    OBVIOUS

\* BusTypeOK, with the topics for DOMAIN handlers.
LEMMA BusTypes ==
    BusTypeOK <=>
        /\ bus \in {"memory", "redis"}
        /\ handlers \in [Requesters \cup {Service} -> SUBSET Callers]
        /\ at \in [Callers -> Stages]
        /\ subscribed \subseteq Requesters \cup {Service}
        /\ inbox \in Seq(Messages)
        /\ running \in BOOLEAN
        /\ listening \subseteq Listeners
        /\ agenda \in [Threads -> Agendas]
        /\ answered \subseteq Requesters
        /\ owed \subseteq Requesters
<1> SUFFICES ASSUME handlers \in [Requesters \cup {Service} -> SUBSET Callers]
             PROVE  DOMAIN handlers = Requesters \cup {Service}
    BY Zenon DEF BusTypeOK, Messages, Stages, Agendas
<1> QED
    BY Zenon

\* Both counts are of finite sets.
LEMMA ListenersFinite ==
    ASSUME BusTypeOK
    PROVE  /\ IsFiniteSet(Callers) /\ IsFiniteSet(Started) /\ IsFiniteSet(listening)
           /\ Cardinality(Callers) \in Nat /\ Cardinality(Started) \in Nat
           /\ Cardinality(listening) \in Nat
<1>1. IsFiniteSet(Callers)
    BY BusAssumption, FS_Union, Zenon DEF Callers
<1>2. IsFiniteSet(Started) /\ IsFiniteSet(listening)
    BY <1>1, BusAssumption, FS_Subset, Zenon DEF Started, BusTypeOK
<1> QED
    BY <1>1, <1>2, FS_CardinalityType, Zenon

\* A step that starts no listener keeps the count.
LEMMA NoListenerStarted ==
    ASSUME BusInv, BusTypeOK', listening' \subseteq listening, Started \subseteq Started'
    PROVE  Cardinality(listening') <= Cardinality(Started')
<1>1. /\ IsFiniteSet(Started) /\ IsFiniteSet(listening)
      /\ Cardinality(Started) \in Nat /\ Cardinality(listening) \in Nat
    BY ListenersFinite, Zenon DEF BusInv
<1>2. (BusTypeOK => IsFiniteSet(Started) /\ Cardinality(Started) \in Nat)'
    BY ListenersFinite, PTL
<1>3. Cardinality(listening') \in Nat /\ Cardinality(listening') <= Cardinality(listening)
    BY <1>1, FS_Subset, FS_CardinalityType, Zenon
<1>4. Cardinality(Started) <= Cardinality(Started')
    BY <1>2, FS_Subset, Zenon
<1> QED
    BY <1>1, <1>2, <1>3, <1>4 DEF BusInv

\* There is always a thread for a new listener.
LEMMA ListenerLeft ==
    ASSUME BusInv, NEW c \in Callers, at[c] = "starting"
    PROVE  \E l \in Listeners : l \notin listening
<1>1. /\ IsFiniteSet(Callers) /\ Cardinality(Started) \in Nat
      /\ Cardinality(listening) \in Nat /\ Cardinality(Callers) \in Nat
    BY ListenersFinite, Zenon DEF BusInv
<1>2. Started \subseteq Callers /\ Started # Callers
    BY Zenon DEF Started
<1>3. Cardinality(Started) < Cardinality(Callers)
    BY <1>1, <1>2, FS_Subset
<1>4. Cardinality(Listeners) \in Nat /\ Cardinality(Callers) <= Cardinality(Listeners)
    BY BusAssumption, FS_CardinalityType, Zenon DEF Callers
<1>5. listening # Listeners
    BY <1>1, <1>3, <1>4 DEF BusInv
<1> QED
    BY <1>5, Zenon DEF BusInv, BusTypeOK

\* Where a caller's topic is.
LEMMA TopicIsKnown ==
    ASSUME NEW c \in Callers
    PROVE  /\ TopicOf(c) \in Requesters \cup {Service}
           /\ c \in Requesters => TopicOf(c) = c
           /\ c \in Servers => TopicOf(c) = Service
           /\ TopicOf(c) \in Requesters => c \in Requesters
    BY BusAssumption, Zenon DEF TopicOf, Callers

LEMMA InitBus == BusInit => BusInv
<1> SUFFICES ASSUME BusInit PROVE BusInv
    BY Zenon
<1>1. BusTypeOK
    <2>1. agenda \in [Threads -> [about : DOMAIN handlers, left : SUBSET Callers]]
        BY Zenon DEF BusInit, Free
    <2>2. handlers \in [Requesters \cup {Service} -> SUBSET Callers] /\ inbox = <<>>
        BY Zenon DEF BusInit
    <2>3. inbox \in Seq([topic : DOMAIN handlers, about : Requesters])
        BY <2>2
    <2>4. running \in BOOLEAN
        BY Zenon DEF BusInit
    <2>5. at \in [Callers -> Stages]
        BY Zenon DEF BusInit, Stages
    <2> QED
        BY <2>1, <2>2, <2>3, <2>4, <2>5, Zenon DEF BusInit, BusTypeOK
<1>2. OwnHandlers /\ RegisteredIsSubscribed
    BY Zenon DEF BusInit, OwnHandlers, RegisteredIsSubscribed
<1>3. AgendaSorted
    BY Zenon DEF BusInit, AgendaSorted, Free
<1>4. Started = {} /\ listening = {}
    BY Zenon DEF BusInit, Started
<1> QED
    BY <1>1, <1>2, <1>3, <1>4, FS_EmptySet DEF BusInv

\* A caller goes on without touching the handlers or the transport.
LEMMA CallerMoves ==
    ASSUME BusInv, NEW c \in Callers, NEW from, NEW to, MoveCaller(c, from, to),
           from # "subscribing",
           \/ from = "ensuring" /\ to \in {"starting", "ready"}
           \/ /\ from \in {"ready", "dispatching", "waiting", "leaving"}
              /\ to \in {"dispatching", "waiting", "leaving", "returned"}
    PROVE  /\ at' \in [Callers -> Stages]
           /\ Started \subseteq Started'
           /\ \A d \in Callers : at[d] = "subscribing" => at'[d] = "subscribing"
    BY Zenon DEF BusInv, BusTypeOK, MoveCaller, Started, Stages

\* subscribe, the locked part.
LEMMA RegisterKeepsBus ==
    ASSUME BusInv, NEW c \in Callers, Register(c)
    PROVE  BusInv'
<1> USE DEF BusInv
<1>1. /\ ~closed /\ at[c] = "out" /\ at' = [at EXCEPT ![c] = AfterRegister(c)]
      /\ handlers' = [handlers EXCEPT ![TopicOf(c)] = @ \cup {c}]
      /\ UNCHANGED <<bus, subscribed, inbox, running, listening, agenda, answered, owed,
                     closed>>
    BY Zenon DEF Register, MoveCaller, transport
<1>2. AfterRegister(c) \in {"ready", "subscribing", "ensuring"}
    BY Zenon DEF AfterRegister
<1>3. DOMAIN handlers' = DOMAIN handlers /\ TopicOf(c) \in DOMAIN handlers
    BY <1>1, TopicIsKnown, Zenon DEF BusTypeOK
<1>4. BusTypeOK'
    <2>1. handlers' \in [Requesters \cup {Service} -> SUBSET Callers]
        BY <1>1, <1>3, Zenon DEF BusTypeOK
    <2>2. at' \in [Callers -> Stages]
        BY <1>1, <1>2, Zenon DEF BusTypeOK, Stages
    <2> QED
        BY <1>1, <1>3, <2>1, <2>2, Zenon DEF BusTypeOK, Stages
<1>5. OwnHandlers'
    BY <1>1, <1>3, TopicIsKnown, BusAssumption DEF OwnHandlers, BusTypeOK, Callers
<1>6. AgendaSorted'
    BY <1>1, Zenon DEF AgendaSorted
<1>7. Started \subseteq Started'
    BY <1>1, Zenon DEF Started, BusTypeOK
<1>8. RegisteredIsSubscribed'
    <2> SUFFICES ASSUME bus = "redis", NEW t \in DOMAIN handlers, handlers'[t] # {},
                        t \notin subscribed
                 PROVE  \E d \in Callers : TopicOf(d) = t /\ at'[d] = "subscribing"
        BY <1>1, <1>3, Zenon DEF RegisteredIsSubscribed
    <2>1. CASE handlers[t] = {}
        <3>1. t = TopicOf(c) /\ AfterRegister(c) = "subscribing"
            BY <1>1, <2>1, Zenon DEF AfterRegister, BusTypeOK
        <3> QED
            BY <1>1, <3>1, Zenon DEF BusTypeOK
    <2>2. CASE handlers[t] # {}
        <3>1. PICK d \in Callers : TopicOf(d) = t /\ at[d] = "subscribing"
            BY <1>1, <2>2, Zenon DEF RegisteredIsSubscribed
        <3> QED
            BY <1>1, <3>1, Zenon DEF BusTypeOK
    <2> QED
        BY <2>1, <2>2, Zenon
<1> QED
    BY <1>1, <1>4, <1>5, <1>6, <1>7, <1>8, NoListenerStarted, Zenon

\* pubsub.subscribe.
LEMMA SubscribeKeepsBus ==
    ASSUME BusInv, NEW c \in Callers, SubscribeTopic(c)
    PROVE  BusInv'
<1> USE DEF BusInv
<1>1. /\ at[c] = "subscribing" /\ at' = [at EXCEPT ![c] = "ensuring"]
      /\ subscribed' = subscribed \cup {TopicOf(c)}
      /\ UNCHANGED <<bus, handlers, inbox, running, listening, agenda, answered, owed,
                     closed>>
    BY Zenon DEF SubscribeTopic, MoveCaller
<1>2. TopicOf(c) \in DOMAIN handlers
    BY TopicIsKnown, Zenon DEF BusTypeOK
<1>3. BusTypeOK'
    BY <1>1, <1>2, Zenon DEF BusTypeOK
<1>4. OwnHandlers' /\ AgendaSorted'
    BY <1>1, Zenon DEF OwnHandlers, AgendaSorted
<1>5. Started \subseteq Started'
    BY <1>1, Zenon DEF Started, BusTypeOK
<1>6. \A d \in Callers \ {c} : at'[d] = at[d]
    BY <1>1, Zenon DEF BusTypeOK
<1>7. RegisteredIsSubscribed'
    BY <1>1, <1>6, Zenon DEF RegisteredIsSubscribed
<1> QED
    BY <1>1, <1>3, <1>4, <1>5, <1>7, NoListenerStarted, Zenon

\* _ensure_listener starts a thread.
LEMMA StartKeepsBus ==
    ASSUME BusInv, NEW c \in Callers, StartListener(c)
    PROVE  BusInv'
<1> USE DEF BusInv
<1>1. /\ at[c] = "starting" /\ at' = [at EXCEPT ![c] = "ready"]
      /\ running' = TRUE
      /\ UNCHANGED <<bus, handlers, subscribed, inbox, agenda, answered, owed, closed>>
    BY Zenon DEF StartListener, MoveCaller
<1>2. PICK l \in Listeners : l \notin listening /\ listening' = listening \cup {l}
    <2>1. \E l \in Listeners : l \notin listening
        BY <1>1, ListenerLeft, Zenon
    <2> QED
        BY <2>1, Zenon DEF StartListener
<1>3. BusTypeOK'
    BY <1>1, <1>2, Zenon DEF BusTypeOK
<1>4. OwnHandlers' /\ AgendaSorted'
    BY <1>1, Zenon DEF OwnHandlers, AgendaSorted
<1>5. Started' = Started \cup {c} /\ c \notin Started
    BY <1>1, Zenon DEF Started, BusTypeOK
<1>6. Cardinality(listening') <= Cardinality(Started')
    <2>1. /\ IsFiniteSet(Started) /\ IsFiniteSet(listening)
          /\ Cardinality(Started) \in Nat /\ Cardinality(listening) \in Nat
        BY ListenersFinite, Zenon
    <2>2. Cardinality(listening') = Cardinality(listening) + 1
        BY <1>2, <2>1, FS_AddElement, Zenon
    <2>3. Cardinality(Started') = Cardinality(Started) + 1
        BY <1>5, <2>1, FS_AddElement, Zenon
    <2> QED
        BY <2>1, <2>2, <2>3
<1>7. \A d \in Callers : at[d] = "subscribing" => at'[d] = "subscribing"
    BY <1>1, Zenon DEF BusTypeOK
<1>8. RegisteredIsSubscribed'
    BY <1>1, <1>7, Zenon DEF RegisteredIsSubscribed
<1> QED
    BY <1>3, <1>4, <1>6, <1>8, Zenon

\* A step that leaves the topics alone and no subscriber undone.
LEMMA TopicsStand ==
    ASSUME BusInv, UNCHANGED <<bus, handlers, subscribed, closed>>,
           \A d \in Callers : at[d] = "subscribing" => at'[d] = "subscribing"
    PROVE  OwnHandlers' /\ RegisteredIsSubscribed'
    BY Zenon DEF BusInv, OwnHandlers, RegisteredIsSubscribed

\* The steps that only move a caller.
LEMMA MoveKeepsBus ==
    ASSUME BusInv, NEW c \in Callers, CheckRunning(c) \/ EndDispatch(c) \/ StopWaiting(c)
    PROVE  BusInv'
<1>1. UNCHANGED <<bus, handlers, subscribed, inbox, running, listening, agenda, answered,
                  owed, closed>>
    BY Zenon DEF CheckRunning, EndDispatch, StopWaiting, transport
<1>2. /\ at' \in [Callers -> Stages]
      /\ Started \subseteq Started'
      /\ \A d \in Callers : at[d] = "subscribing" => at'[d] = "subscribing"
    <2>1. CASE CheckRunning(c)
        BY <2>1, CallerMoves, Zenon DEF CheckRunning
    <2>2. CASE EndDispatch(c)
        BY <2>2, CallerMoves, Zenon DEF EndDispatch
    <2>3. CASE StopWaiting(c)
        BY <2>3, CallerMoves, Zenon DEF StopWaiting
    <2> QED
        BY <2>1, <2>2, <2>3, Zenon
<1>3. BusTypeOK'
    BY <1>1, <1>2, Zenon DEF BusInv, BusTypeOK, Stages
<1>4. AgendaSorted'
    BY <1>1, Zenon DEF BusInv, AgendaSorted
<1> QED
    BY <1>1, <1>2, <1>3, <1>4, TopicsStand, NoListenerStarted, Zenon DEF BusInv

\* unsubscribe: a topic that keeps a handler stays subscribed.
LEMMA UnregisterKeepsTopics ==
    ASSUME BusInv, NEW c \in Callers, Unregister(c), UNCHANGED <<bus, closed>>,
           \A d \in Callers : at[d] = "subscribing" => at'[d] = "subscribing"
    PROVE  /\ handlers' \in [Requesters \cup {Service} -> SUBSET Callers]
           /\ subscribed' \subseteq subscribed
           /\ OwnHandlers' /\ RegisteredIsSubscribed'
<1> USE DEF BusInv
<1>1. /\ handlers' = [handlers EXCEPT ![TopicOf(c)] = @ \ {c}]
      /\ subscribed' = IF handlers[TopicOf(c)] = {c} THEN subscribed \ {TopicOf(c)}
                                                     ELSE subscribed
    BY Zenon DEF Unregister
<1>2. TopicOf(c) \in Requesters \cup {Service}
    BY TopicIsKnown, Zenon
<1>3. handlers' \in [Requesters \cup {Service} -> SUBSET Callers]
    BY <1>1, <1>2, Zenon DEF BusTypeOK
<1>4. /\ DOMAIN handlers' = DOMAIN handlers /\ DOMAIN handlers = Requesters \cup {Service}
      /\ \A t \in DOMAIN handlers : handlers'[t] \subseteq handlers[t]
    BY <1>1, <1>2, Zenon DEF BusTypeOK
<1>5. OwnHandlers'
    BY <1>4, Zenon DEF OwnHandlers
<1>6. \A t \in DOMAIN handlers : handlers'[t] # {} /\ t \in subscribed => t \in subscribed'
    BY <1>1, <1>2, Zenon DEF BusTypeOK
<1>7. RegisteredIsSubscribed'
    BY <1>4, <1>6, Zenon DEF RegisteredIsSubscribed
<1> QED
    BY <1>1, <1>3, <1>5, <1>7, Zenon

LEMMA UnsubscribeKeepsBus ==
    ASSUME BusInv, NEW c \in Callers, UnsubscribeServer(c) \/ LeaveRequest(c)
    PROVE  BusInv'
<1>1. Unregister(c) /\ UNCHANGED <<bus, inbox, running, listening, agenda, answered, owed, closed>>
    BY Zenon DEF UnsubscribeServer, LeaveRequest, Unregister
<1>2. /\ at' \in [Callers -> Stages]
      /\ Started \subseteq Started'
      /\ \A d \in Callers : at[d] = "subscribing" => at'[d] = "subscribing"
    <2>1. CASE UnsubscribeServer(c)
        BY <2>1, Zenon DEF UnsubscribeServer, BusInv, BusTypeOK, Started, Stages
    <2>2. CASE LeaveRequest(c)
        BY <2>2, CallerMoves, Zenon DEF LeaveRequest
    <2> QED
        BY <2>1, <2>2, Zenon
<1>3. /\ handlers' \in [Requesters \cup {Service} -> SUBSET Callers]
      /\ subscribed' \subseteq subscribed
      /\ OwnHandlers' /\ RegisteredIsSubscribed'
    BY <1>1, <1>2, UnregisterKeepsTopics, Zenon
<1>4. DOMAIN handlers' = DOMAIN handlers
    BY <1>3, Zenon DEF BusInv, BusTypeOK
<1>5. BusTypeOK'
    BY <1>1, <1>2, <1>3, <1>4, Zenon DEF BusInv, BusTypeOK, Stages
<1>6. AgendaSorted'
    BY <1>1, Zenon DEF BusInv, AgendaSorted
<1> QED
    BY <1>1, <1>2, <1>3, <1>5, <1>6, NoListenerStarted, Zenon DEF BusInv

\* A message of a known topic about a requester.
LEMMA PostTyped ==
    ASSUME BusInv, NEW topic \in Requesters \cup {Service}, NEW q \in Requesters, Post(topic, q)
    PROVE  inbox' \in Seq(Messages)
<1>1. [topic |-> topic, about |-> q] \in Messages
    BY Zenon DEF Messages
<1>2. inbox \in Seq(Messages)
    BY BusTypes, Zenon DEF BusInv
<1> QED
    BY <1>1, <1>2, SeqParts, Zenon DEF Post

LEMMA SendReplyTyped ==
    ASSUME BusInv, NEW q \in Requesters, SendReply(q)
    PROVE  inbox' \in Seq(Messages) /\ answered' \subseteq Requesters
<1>1. inbox \in Seq(Messages) /\ answered \subseteq Requesters
    BY BusTypes, Zenon DEF BusInv
<1>2. CASE bus = "memory" /\ UNCHANGED inbox
           /\ answered' = IF q \in handlers[q] THEN answered \cup {q} ELSE answered
    BY <1>1, <1>2, Zenon
<1>3. CASE Post(q, q) /\ UNCHANGED answered
    BY <1>1, <1>3, PostTyped, Zenon
<1> QED
    BY <1>2, <1>3, Zenon DEF SendReply

\* A thread's agenda is replaced.
LEMMA AgendaSet ==
    ASSUME BusInv, NEW t \in Threads, NEW x \in Agendas, agenda' = [agenda EXCEPT ![t] = x],
           x.left # {} => x.about \in Requesters,
           x.left \subseteq Servers \/ x.left \subseteq Requesters
    PROVE  agenda' \in [Threads -> Agendas] /\ AgendaSorted'
<1>1. agenda \in [Threads -> Agendas]
    BY BusTypes, Zenon DEF BusInv
<1>2. agenda' \in [Threads -> Agendas]
    BY <1>1, Zenon
<1>3. agenda'[t] = x /\ \A u \in Threads \ {t} : agenda'[u] = agenda[u]
    BY <1>1, Zenon
<1> QED
    BY <1>2, <1>3, Zenon DEF BusInv, AgendaSorted

\* The steps of the threads that run handlers: they leave the topics alone and start
\* no listener.
LEMMA ThreadKeepsBus ==
    ASSUME BusInv,
           UNCHANGED <<bus, handlers, subscribed, running, closed>>,
           at' \in [Callers -> Stages],
           Started \subseteq Started',
           \A d \in Callers : at[d] = "subscribing" => at'[d] = "subscribing",
           listening' \subseteq listening,
           inbox' \in Seq(Messages),
           answered' \subseteq Requesters, owed' \subseteq Requesters,
           agenda' \in [Threads -> Agendas], AgendaSorted'
    PROVE  BusInv'
<1>1. BusTypeOK'
    BY BusTypes, Zenon DEF BusInv, BusTypeOK, Messages, Stages, Agendas
<1> QED
    BY <1>1, TopicsStand, NoListenerStarted, Zenon DEF BusInv

LEMMA PublishKeepsBus ==
    ASSUME BusInv, NEW q \in Requesters, PublishRequest(q)
    PROVE  BusInv'
<1>1. /\ MoveCaller(q, "ready", IF bus = "memory" THEN "dispatching" ELSE "waiting")
      /\ UNCHANGED <<bus, handlers, subscribed, running, listening, answered, owed, closed>>
    BY Zenon DEF PublishRequest
<1>2. q \in Callers /\ q \in Threads
    BY Zenon DEF Callers, Threads
<1>3. /\ at' \in [Callers -> Stages]
      /\ Started \subseteq Started'
      /\ \A d \in Callers : at[d] = "subscribing" => at'[d] = "subscribing"
    BY <1>1, <1>2, CallerMoves, Zenon DEF Stages
<1>4. inbox' \in Seq(Messages) /\ agenda' \in [Threads -> Agendas] /\ AgendaSorted'
    <2>1. /\ inbox \in Seq(Messages) /\ agenda \in [Threads -> Agendas] /\ AgendaSorted
          /\ handlers \in [Requesters \cup {Service} -> SUBSET Callers]
          /\ handlers[Service] \subseteq Servers
        BY BusTypes, Zenon DEF BusInv, OwnHandlers
    <2>2. CASE UNCHANGED inbox
               /\ agenda' = [agenda EXCEPT ![q] = [about |-> q, left |-> handlers[Service]]]
        <3>1. [about |-> q, left |-> handlers[Service]] \in Agendas
            BY <2>1, Zenon DEF Agendas
        <3> QED
            BY <1>2, <2>1, <2>2, <3>1, AgendaSet, Zenon
    <2>3. CASE Post(Service, q) /\ UNCHANGED agenda
        BY <2>1, <2>3, PostTyped, Zenon DEF AgendaSorted
    <2> QED
        BY <2>2, <2>3, Zenon DEF PublishRequest
<1>5. answered \subseteq Requesters /\ owed \subseteq Requesters
    BY BusTypes, Zenon DEF BusInv
<1> QED
    BY <1>1, <1>3, <1>4, <1>5, ThreadKeepsBus, Zenon

LEMMA TakeKeepsBus ==
    ASSUME BusInv, NEW l \in Listeners, TakeMessage(l)
    PROVE  BusInv'
<1>1. /\ inbox # <<>> /\ inbox' = Tail(inbox)
      /\ agenda' = [agenda EXCEPT ![l] = [about |-> Head(inbox).about,
                                          left |-> handlers[Head(inbox).topic]]]
      /\ UNCHANGED <<bus, handlers, at, subscribed, running, listening, answered, owed,
                     closed>>
    BY Zenon DEF TakeMessage
<1>2. /\ inbox \in Seq(Messages) /\ at \in [Callers -> Stages]
      /\ handlers \in [Requesters \cup {Service} -> SUBSET Callers]
      /\ answered \subseteq Requesters /\ owed \subseteq Requesters
    BY BusTypes, Zenon DEF BusInv
<1>3. PICK m \in Messages : m = Head(inbox) /\ inbox' \in Seq(Messages)
    BY <1>1, <1>2, SeqParts, Zenon
<1>4. /\ m.topic \in Requesters \cup {Service} /\ m.about \in Requesters /\ l \in Threads
      /\ [about |-> m.about, left |-> handlers[m.topic]] \in Agendas
    BY <1>2, Zenon DEF Messages, Agendas, Threads
<1>5. handlers[m.topic] \subseteq Servers \/ handlers[m.topic] \subseteq Requesters
    BY <1>4, Zenon DEF BusInv, OwnHandlers
<1>6. agenda' \in [Threads -> Agendas] /\ AgendaSorted'
    BY <1>1, <1>3, <1>4, <1>5, AgendaSet, Zenon
<1>7. Started \subseteq Started'
    BY <1>1, Zenon DEF Started
<1> QED
    BY <1>1, <1>2, <1>3, <1>6, <1>7, ThreadKeepsBus, Zenon

LEMMA LeaveKeepsBus ==
    ASSUME BusInv, NEW l \in Listeners, LeaveLoop(l)
    PROVE  BusInv'
<1>1. /\ listening' = listening \ {l}
      /\ UNCHANGED <<bus, handlers, at, subscribed, inbox, running, agenda, answered, owed,
                     closed>>
    BY Zenon DEF LeaveLoop
<1>2. /\ inbox' \in Seq(Messages) /\ at' \in [Callers -> Stages]
      /\ answered' \subseteq Requesters /\ owed' \subseteq Requesters
      /\ agenda' \in [Threads -> Agendas]
    BY <1>1, BusTypes, Zenon DEF BusInv
<1>3. AgendaSorted' /\ Started \subseteq Started'
    BY <1>1, Zenon DEF AgendaSorted, Started, BusInv
<1> QED
    BY <1>1, <1>2, <1>3, ThreadKeepsBus, Zenon

\* A server's handler replies, or leaves the reply to another thread.
LEMMA ServeKeepsBus ==
    ASSUME BusInv, NEW t \in Threads, NEW s \in Servers, RunServer(t, s)
    PROVE  BusInv'
<1>1. /\ s \in agenda[t].left
      /\ agenda' = [agenda EXCEPT ![t].left = @ \ {s}]
      /\ \/ SendReply(agenda[t].about) /\ UNCHANGED owed
         \/ owed' = owed \cup {agenda[t].about} /\ UNCHANGED <<answered, inbox>>
      /\ UNCHANGED <<bus, handlers, at, subscribed, running, listening, closed>>
    BY Zenon DEF RunServer, NextHandler
<1>2. /\ inbox \in Seq(Messages) /\ at \in [Callers -> Stages]
      /\ answered \subseteq Requesters /\ owed \subseteq Requesters
      /\ agenda \in [Threads -> Agendas]
    BY BusTypes, Zenon DEF BusInv
<1>3. agenda[t].about \in Requesters
    BY <1>1, Zenon DEF BusInv, AgendaSorted
<1>4. inbox' \in Seq(Messages) /\ answered' \subseteq Requesters /\ owed' \subseteq Requesters
    <2>1. CASE SendReply(agenda[t].about) /\ UNCHANGED owed
        BY <1>2, <1>3, <2>1, SendReplyTyped, Zenon
    <2>2. CASE owed' = owed \cup {agenda[t].about} /\ UNCHANGED <<answered, inbox>>
        BY <1>2, <1>3, <2>2, Zenon
    <2> QED
        BY <1>1, <2>1, <2>2, Zenon
<1>5. PICK x \in Agendas : /\ agenda' = [agenda EXCEPT ![t] = x]
                           /\ x.about = agenda[t].about /\ x.left = agenda[t].left \ {s}
    <2>1. [agenda[t] EXCEPT !.left = @ \ {s}] \in Agendas
        BY <1>2, Zenon DEF Agendas
    <2> QED
        BY <1>1, <1>2, <2>1, Zenon DEF Agendas
<1>6. x.left \subseteq Servers \/ x.left \subseteq Requesters
    BY <1>5, Zenon DEF BusInv, AgendaSorted
<1>7. agenda' \in [Threads -> Agendas] /\ AgendaSorted'
    BY <1>3, <1>5, <1>6, AgendaSet, Zenon
<1>8. Started \subseteq Started'
    BY <1>1, Zenon DEF Started
<1> QED
    BY <1>1, <1>2, <1>4, <1>7, <1>8, ThreadKeepsBus, Zenon

\* It raises.
LEMMA RaiseKeepsBus ==
    ASSUME BusInv, NEW t \in Threads, NEW s \in Servers, RaiseInHandler(t, s)
    PROVE  BusInv'
<1>1. /\ agenda' = [agenda EXCEPT ![t] = Free]
      /\ \/ listening' = listening \ {t} /\ UNCHANGED at
         \/ t \in Requesters /\ MoveCaller(t, "dispatching", "leaving") /\ UNCHANGED listening
      /\ UNCHANGED <<bus, handlers, subscribed, inbox, running, answered, owed, closed>>
    BY Zenon DEF RaiseInHandler
<1>2. /\ inbox \in Seq(Messages) /\ at \in [Callers -> Stages]
      /\ answered \subseteq Requesters /\ owed \subseteq Requesters
    BY BusTypes, Zenon DEF BusInv
<1>3. /\ at' \in [Callers -> Stages] /\ Started \subseteq Started'
      /\ \A d \in Callers : at[d] = "subscribing" => at'[d] = "subscribing"
    <2>1. CASE UNCHANGED at
        BY <1>2, <2>1, Zenon DEF Started
    <2>2. CASE t \in Requesters /\ MoveCaller(t, "dispatching", "leaving")
        BY <2>2, CallerMoves, Zenon DEF Stages, Callers
    <2> QED
        BY <1>1, <2>1, <2>2, Zenon
<1>4. Free \in Agendas /\ Free.left = {}
    BY Zenon DEF Free, Agendas
<1>5. agenda' \in [Threads -> Agendas] /\ AgendaSorted'
    BY <1>1, <1>4, AgendaSet, Zenon
<1>6. listening' \subseteq listening
    BY <1>1, Zenon
<1> QED
    BY <1>1, <1>2, <1>3, <1>5, <1>6, ThreadKeepsBus, Zenon

\* _on_reply, in a listener.
LEMMA OnReplyKeepsBus ==
    ASSUME BusInv, NEW l \in Listeners, RunOnReply(l)
    PROVE  BusInv'
<1>1. /\ agenda[l].left \cap Requesters # {}
      /\ answered' = answered \cup agenda[l].left
      /\ agenda' = [agenda EXCEPT ![l] = Free]
      /\ UNCHANGED <<bus, handlers, at, subscribed, inbox, running, listening, owed, closed>>
    BY Zenon DEF RunOnReply, transport
<1>2. /\ inbox \in Seq(Messages) /\ at \in [Callers -> Stages]
      /\ answered \subseteq Requesters /\ owed \subseteq Requesters
    BY BusTypes, Zenon DEF BusInv
<1>3. l \in Threads
    BY Zenon DEF Threads
<1>4. agenda[l].left \subseteq Requesters
    BY <1>1, <1>3, BusAssumption, Zenon DEF BusInv, AgendaSorted
<1>5. Free \in Agendas /\ Free.left = {}
    BY Zenon DEF Free, Agendas
<1>6. agenda' \in [Threads -> Agendas] /\ AgendaSorted'
    BY <1>1, <1>3, <1>5, AgendaSet, Zenon
<1>7. answered' \subseteq Requesters /\ Started \subseteq Started'
    BY <1>1, <1>2, <1>4, Zenon DEF Started
<1> QED
    BY <1>1, <1>2, <1>6, <1>7, ThreadKeepsBus, Zenon

LEMMA LateReplyKeepsBus ==
    ASSUME BusInv, NEW q \in Requesters, ReplyLate(q)
    PROVE  BusInv'
<1>1. /\ owed' = owed \ {q} /\ SendReply(q)
      /\ UNCHANGED <<bus, handlers, at, subscribed, running, listening, agenda, closed>>
    BY Zenon DEF ReplyLate
<1>2. /\ at \in [Callers -> Stages] /\ owed \subseteq Requesters
      /\ agenda \in [Threads -> Agendas]
    BY BusTypes, Zenon DEF BusInv
<1>3. inbox' \in Seq(Messages) /\ answered' \subseteq Requesters
    BY <1>1, SendReplyTyped, Zenon
<1>4. AgendaSorted' /\ Started \subseteq Started'
    BY <1>1, Zenon DEF AgendaSorted, Started, BusInv
<1> QED
    BY <1>1, <1>2, <1>3, <1>4, ThreadKeepsBus, Zenon

\* close, and its end: the handlers go.
LEMMA CloseKeepsBus ==
    ASSUME BusInv, CloseBus \/ ClearHandlers
    PROVE  BusInv'
<1> USE DEF BusInv
<1>1. /\ closed' = TRUE
      /\ handlers' \in {handlers, [t \in DOMAIN handlers |-> {}]}
      /\ \/ subscribed' = {} /\ inbox' = <<>> /\ running' = FALSE
         \/ UNCHANGED <<subscribed, inbox, running>>
      /\ UNCHANGED <<bus, at, listening, agenda, answered, owed>>
    BY Zenon DEF CloseBus, ClearHandlers, transport
<1>2. /\ handlers' \in [Requesters \cup {Service} -> SUBSET Callers]
      /\ OwnHandlers'
    BY <1>1, Zenon DEF BusTypeOK, OwnHandlers
<1>3. subscribed' \subseteq Requesters \cup {Service} /\ inbox' \in Seq(Messages)
    <2>1. subscribed \subseteq Requesters \cup {Service} /\ inbox \in Seq(Messages)
        BY BusTypes, Zenon
    <2>2. <<>> \in Seq(Messages)
        OBVIOUS
    <2> QED
        BY <1>1, <2>1, <2>2, Zenon
<1>4. running' \in BOOLEAN
    BY <1>1, Zenon DEF BusTypeOK
<1>5. BusTypeOK'
    BY <1>1, <1>2, <1>3, <1>4, Zenon DEF BusTypeOK, Messages
<1>6. AgendaSorted' /\ RegisteredIsSubscribed' /\ Started' = Started
    BY <1>1, Zenon DEF AgendaSorted, RegisteredIsSubscribed, Started
<1> QED
    BY <1>1, <1>2, <1>5, <1>6, Zenon

LEMMA NextBus == BusInv /\ [BusNext]_busVars => BusInv'
<1> SUFFICES ASSUME BusInv, [BusNext]_busVars PROVE BusInv'
    BY Zenon
<1>1. ASSUME NEW c \in Callers,
             \/ Register(c) \/ SubscribeTopic(c) \/ CheckRunning(c) \/ StartListener(c)
             \/ EndDispatch(c) \/ StopWaiting(c) \/ LeaveRequest(c) \/ UnsubscribeServer(c)
      PROVE  BusInv'
    BY <1>1, RegisterKeepsBus, SubscribeKeepsBus, StartKeepsBus, MoveKeepsBus,
       UnsubscribeKeepsBus, Zenon
<1>2. ASSUME NEW q \in Requesters, RequestStep(q) \/ ReplyLate(q)
      PROVE  BusInv'
    <2>1. q \in Callers
        BY Zenon DEF Callers
    <2> QED
        BY <1>1, <1>2, <2>1, PublishKeepsBus, LateReplyKeepsBus, Zenon DEF RequestStep
<1>3. ASSUME NEW s \in Servers,
             \/ Register(s) \/ SubscribeTopic(s) \/ CheckRunning(s) \/ StartListener(s)
             \/ UnsubscribeServer(s)
      PROVE  BusInv'
    <2>1. s \in Callers
        BY Zenon DEF Callers
    <2> QED
        BY <1>1, <1>3, <2>1, Zenon
<1>4. ASSUME NEW t \in Threads, RunHandler(t)
      PROVE  BusInv'
    BY <1>4, ServeKeepsBus, RaiseKeepsBus, OnReplyKeepsBus, Zenon DEF RunHandler
<1>5. CASE UNCHANGED busVars
    BY <1>5, Zenon
    DEF busVars, transport, BusInv, BusTypeOK, OwnHandlers, AgendaSorted, Started,
        RegisteredIsSubscribed
<1> QED
    BY <1>2, <1>3, <1>4, <1>5, TakeKeepsBus, LeaveKeepsBus, CloseKeepsBus, Zenon DEF BusNext

\* RedisMessageBus never leaves a topic with handlers unsubscribed, however subscribe,
\* unsubscribe and request interleave: if the topic is not subscribed yet, the caller that
\* found it new is about to.
THEOREM RegisteredAlwaysSubscribed == BusSpec => []RegisteredIsSubscribed
<1>1. BusInv => RegisteredIsSubscribed
    BY Zenon DEF BusInv
<1> QED
    BY <1>1, InitBus, NextBus, PTL DEF BusSpec

-----------------------------------------------------------------------------
(* The config center.  An undisturbed edit is the only one, its event      *)
(* carries the stored version, and the callbacks it has called, on the     *)
(* lists as they are, are in step; at its end that is all of them.         *)

\* The states of an editor, with versions that are not ahead of the edits begun.
EditStates(n) ==
    {NoEdit}
    \cup [at : {"read"}, kind : {"delete"}, old : 0 .. n]
    \cup {x \in [at : {"read"}, kind : {"put"}, old : 0 .. n] : x.old + 1 <= n}
    \cup [at : {"notifying"}, event : Events, list : Lists, next : Nat \ {0}]

ConfigTypes ==
    /\ edits \in 0 .. MaxEdits
    /\ stored \in 0 .. edits
    /\ past \in Seq(1 .. MaxEdits)
    /\ watchers \in [Lists -> Seq(Callbacks)]
    /\ edit \in [Editors -> EditStates(edits)]
    /\ mirror \in [Callbacks -> Events \cup {Unknown}]
    /\ disturbed \in BOOLEAN

\* The callbacks of the event being delivered that have been called.
CalledBy(e, l, i) ==
    \/ l = edit[e].list /\ i < edit[e].next
    \/ l = "key" /\ edit[e].list = "*"

\* An undisturbed edit is the only one, and the callbacks it has called are in step.
EditInStep ==
    ~disturbed =>
        /\ \A e, f \in Active : e = f
        /\ \A e \in Notifying :
              /\ Shown(edit[e].event) = stored
              /\ \A l \in Lists : \A i \in 1 .. Len(watchers[l]) :
                    CalledBy(e, l, i) => Agrees(mirror[watchers[l][i]], stored)

ConfigInv == ConfigTypes /\ EditInStep /\ MirrorInStep

\* A sequence and one more of its elements.
LEMMA Appended ==
    ASSUME NEW S, NEW s \in Seq(S), NEW x \in S
    PROVE  Append(s, x) \in Seq(S)
    OBVIOUS

\* An element of the longer list is the new one, or one of the list.
LEMMA AppendedAt ==
    ASSUME NEW S, NEW s \in Seq(S), NEW x, NEW i \in 1 .. Len(Append(s, x))
    PROVE  Append(s, x)[i] = x \/ (i \in 1 .. Len(s) /\ Append(s, x)[i] = s[i])
    OBVIOUS

\* Every callback of r is one of s.
Among(r, s) == \A i \in 1 .. Len(r) : \E j \in 1 .. Len(s) : r[i] = s[j]

\* list.remove takes one registration away and no other.
LEMMA FirstRemoved ==
    ASSUME NEW S, NEW s \in Seq(S), NEW c, \E i \in DOMAIN s : s[i] = c
    PROVE  Removed(s, c) \in Seq(S) /\ Among(Removed(s, c), s)
<1> DEFINE I == {i \in DOMAIN s : s[i] = c}
<1>1. I \subseteq Nat /\ I # {}
    OBVIOUS
<1>2. PICK m \in I : \A x \in I : ~(<<x, m>> \in OpToRel(<, Nat))
    BY <1>1, NatLessThanWellFounded, WFMin, Zenon
<1>3. \A x \in I : ~(x < m)
    BY <1>1, <1>2, Zenon DEF OpToRel
<1>4. m \in DOMAIN s /\ s[m] = c /\ \A j \in 1 .. (m - 1) : s[j] # c
    BY <1>3
<1>5. PICK k \in 1 .. Len(s) :
         Removed(s, c) = SubSeq(s, 1, k - 1) \o SubSeq(s, k + 1, Len(s))
    <2> DEFINE first == CHOOSE i \in DOMAIN s : s[i] = c /\ \A j \in 1 .. (i - 1) : s[j] # c
    <2>1. first \in 1 .. Len(s)
        BY <1>4
    <2>2. Removed(s, c) = SubSeq(s, 1, first - 1) \o SubSeq(s, first + 1, Len(s))
        BY Zenon DEF Removed
    <2> HIDE DEF first
    <2> QED
        BY <2>1, <2>2, Zenon
<1>6. PICK a \in Seq(S) : /\ a = SubSeq(s, 1, k - 1) /\ Len(a) = k - 1
                          /\ \A i \in 1 .. Len(a) : a[i] = s[i]
    <2>1. SubSeq(s, 1, k - 1) \in Seq(S) /\ Len(SubSeq(s, 1, k - 1)) = k - 1
        OBVIOUS
    <2>2. \A i \in 1 .. k - 1 : SubSeq(s, 1, k - 1)[i] = s[i]
        OBVIOUS
    <2> QED
        BY <2>1, <2>2, Zenon
<1>7. PICK b \in Seq(S) : /\ b = SubSeq(s, k + 1, Len(s)) /\ Len(b) = Len(s) - k
                          /\ \A i \in 1 .. Len(b) : b[i] = s[k + i]
    <2>1. /\ SubSeq(s, k + 1, Len(s)) \in Seq(S)
          /\ Len(SubSeq(s, k + 1, Len(s))) = Len(s) - k
        OBVIOUS
    <2>2. \A i \in 1 .. Len(s) - k : SubSeq(s, k + 1, Len(s))[i] = s[k + i]
        OBVIOUS
    <2> QED
        BY <2>1, <2>2, Zenon
<1>8. Removed(s, c) = a \o b
    BY <1>5, <1>6, <1>7, Zenon
<1>9. a \o b \in Seq(S) /\ Len(a \o b) = Len(a) + Len(b)
    OBVIOUS
<1>10. ASSUME NEW i \in 1 .. Len(a \o b)
       PROVE  \E j \in 1 .. Len(s) : (a \o b)[i] = s[j]
    <2>1. CASE i <= Len(a)
        <3>1. (a \o b)[i] = a[i] /\ a[i] = s[i] /\ i \in 1 .. Len(s)
            BY <1>6, <2>1
        <3> QED
            BY <3>1, Zenon
    <2>2. CASE ~(i <= Len(a))
        <3>1. PICK p \in 1 .. Len(b) : (a \o b)[i] = b[p]
            BY <1>9, <2>2
        <3>2. b[p] = s[k + p] /\ k + p \in 1 .. Len(s)
            BY <1>7
        <3> QED
            BY <3>1, <3>2, Zenon
    <2> QED
        BY <2>1, <2>2, Zenon
<1> QED
    BY <1>8, <1>9, <1>10, Zenon DEF Among

\* More edits allow more versions.
LEMMA EditStatesGrow ==
    ASSUME NEW n \in Nat, NEW x \in EditStates(n)
    PROVE  x \in EditStates(n + 1)
    BY DEF EditStates

\* An editor in its notification comes to another place of a list.
LEMMA ListMoved ==
    ASSUME NEW A, NEW V, NEW L, NEW N, NEW x \in [at : A, event : V, list : L, next : N],
           NEW l \in L, NEW n \in N
    PROVE  [x EXCEPT !.list = l, !.next = n] \in [at : A, event : V, list : L, next : N]
    BY Zenon

\* What an editor's stage says of its record.
LEMMA EditShape ==
    ASSUME ConfigTypes, NEW e \in Editors
    PROVE  /\ edit[e].at \in {"idle", "read", "notifying"}
           /\ edit[e].at = "read" =>
                 edit[e].old \in 0 .. edits /\ edit[e].kind \in {"put", "delete"}
                 /\ (edit[e].kind = "put" => edit[e].old + 1 <= edits)
           /\ edit[e].at = "notifying" =>
                 edit[e] \in [at : {"notifying"}, event : Events, list : Lists, next : Nat \ {0}]
<1>1. edit[e] \in EditStates(edits)
    BY Zenon DEF ConfigTypes
<1> QED
    BY <1>1 DEF EditStates, NoEdit

LEMMA InitConfig == ConfigInit => ConfigInv
<1> SUFFICES ASSUME ConfigInit PROVE ConfigInv
    BY Zenon
<1>1. ConfigTypes
    <2>1. NoEdit \in EditStates(0)
        BY Zenon DEF EditStates
    <2>2. edit \in [Editors -> EditStates(edits)]
        BY <2>1, Zenon DEF ConfigInit
    <2>3. past \in Seq(1 .. MaxEdits) /\ watchers \in [Lists -> Seq(Callbacks)]
        BY DEF ConfigInit
    <2>4. disturbed \in BOOLEAN
        BY Zenon DEF ConfigInit
    <2> QED
        BY <2>2, <2>3, <2>4, ConfigAssumption DEF ConfigInit, ConfigTypes
<1>2. Active = {} /\ Notifying = {}
    BY Zenon DEF Active, Notifying, ConfigInit, NoEdit
<1>3. \A l \in Lists : Len(watchers[l]) = 0
    BY Zenon DEF ConfigInit
<1> QED
    BY <1>1, <1>2, <1>3 DEF ConfigInv, EditInStep, MirrorInStep

\* An editor that has just read the record.
LEMMA EditBegun ==
    ASSUME NEW n \in Nat, NEW v \in 0 .. n, NEW kind \in {"put", "delete"}
    PROVE  [at |-> "read", kind |-> kind, old |-> v] \in EditStates(n + 1)
    BY DEF EditStates

\* An editor that starts to notify.
LEMMA EditNotifies ==
    ASSUME NEW n \in Nat, NEW ev \in Events
    PROVE  [at |-> "notifying", list |-> "key", next |-> 1, event |-> ev] \in EditStates(n)
    BY DEF EditStates, Lists

\* put and delete begin.
LEMMA BeginKeepsConfig ==
    ASSUME ConfigInv, NEW e \in Editors, NEW kind \in {"put", "delete"}, BeginEdit(e, kind)
    PROVE  ConfigInv'
<1> USE DEF ConfigInv
<1> DEFINE begun == [at |-> "read", kind |-> kind, old |-> stored]
<1>1. /\ edits < MaxEdits /\ edits' = edits + 1
      /\ edit' = [edit EXCEPT ![e] = begun]
      /\ disturbed' = (Active # {})
      /\ UNCHANGED <<stored, past, watchers, mirror>>
    BY Zenon DEF BeginEdit
<1>2. edits \in Nat /\ stored \in 0 .. edits /\ MaxEdits \in Nat /\ edits <= MaxEdits
    BY ConfigAssumption DEF ConfigTypes
<1>3. begun \in EditStates(edits + 1)
    BY <1>2, EditBegun, Zenon
<1>4. edit' \in [Editors -> EditStates(edits + 1)]
    <2>1. edit \in [Editors -> EditStates(edits)]
        BY Zenon DEF ConfigTypes
    <2>2. \A f \in Editors : edit[f] \in EditStates(edits + 1)
        BY <1>2, <2>1, EditStatesGrow, Zenon
    <2> HIDE DEF begun
    <2> QED
        BY <1>1, <1>3, <2>1, <2>2, Zenon
<1>5. ConfigTypes'
    <2>1. edits' \in 0 .. MaxEdits /\ stored' \in 0 .. edits'
        BY <1>1, <1>2
    <2>2. mirror' \in [Callbacks -> Events \cup {Unknown}]
        BY <1>1, <1>2 DEF ConfigTypes
    <2>3. disturbed' \in BOOLEAN
        BY <1>1, Zenon
    <2> QED
        BY <1>1, <1>4, <2>1, <2>2, <2>3, Zenon DEF ConfigTypes
<1>6. edit'[e].at = "read" /\ \A f \in Editors \ {e} : edit'[f] = edit[f]
    BY <1>1, Zenon DEF ConfigTypes
<1>7. e \in Active' /\ (~disturbed' => Active' = {e} /\ Notifying' = {})
    <2>1. ~disturbed' => Active = {}
        BY <1>1, Zenon
    <2>2. e \in Active' /\ (Active = {} => Active' = {e} /\ Notifying' = {})
        BY <1>6, Zenon DEF Active, Notifying
    <2> QED
        BY <2>1, <2>2, Zenon
<1> QED
    BY <1>5, <1>7, Zenon DEF EditInStep, MirrorInStep

\* The backend changes.
LEMMA ChangeKeepsConfig ==
    ASSUME ConfigInv, NEW e \in Editors, ChangeRecord(e)
    PROVE  ConfigInv'
<1> USE DEF ConfigInv
<1> DEFINE v == NewVersion(e)
           ev == [type |-> EventType(e), version |-> v]
           x == [at |-> "notifying", list |-> "key", next |-> 1, event |-> ev]
<1>1. /\ edit[e].at = "read" /\ stored' = IF edit[e].kind = "put" THEN v ELSE 0
      /\ past' = IF edit[e].kind = "put" THEN Append(past, v) ELSE past
      /\ edit' = [edit EXCEPT ![e] = x]
      /\ UNCHANGED <<watchers, edits, mirror, disturbed>>
    BY Zenon DEF ChangeRecord, StartNotify
<1>2. /\ v \in 0 .. edits /\ v \in 0 .. MaxEdits /\ edits \in Nat
      /\ (edit[e].kind = "put" => v \in 1 .. MaxEdits)
    <2>1. PICK o \in 0 .. edits : o = edit[e].old /\ (edit[e].kind = "put" => o + 1 <= edits)
        BY <1>1, EditShape, Zenon
    <2>2. v = IF edit[e].kind = "put" THEN o + 1 ELSE o
        BY <2>1, Zenon DEF NewVersion
    <2>3. edits \in 0 .. MaxEdits /\ MaxEdits \in Nat
        BY ConfigAssumption, Zenon DEF ConfigTypes
    <2> HIDE DEF v
    <2> QED
        BY <2>1, <2>2, <2>3
<1>8. edit[e].kind \in {"put", "delete"}
    BY <1>1, EditShape, Zenon
<1> HIDE DEF v
<1>9. ev \in Events /\ Shown(ev) = stored' /\ stored' \in 0 .. edits
    <2>1. EventType(e) \in {"created", "updated", "deleted"}
        BY Zenon DEF EventType
    <2>2. edit[e].kind = "delete" <=> EventType(e) = "deleted"
        BY <1>8, Zenon DEF EventType
    <2>3. ev \in Events
        BY <1>2, <2>1 DEF Events
    <2>4. Shown(ev) = IF EventType(e) = "deleted" THEN 0 ELSE v
        BY DEF Shown
    <2> QED
        BY <1>1, <1>2, <1>8, <2>2, <2>3, <2>4
<1> HIDE DEF ev
<1>3. x \in EditStates(edits)
    BY <1>2, <1>9, EditNotifies, Zenon
<1>4. /\ edit'[e] = x /\ \A f \in Editors \ {e} : edit'[f] = edit[f]
      /\ edit' \in [Editors -> EditStates(edits)]
    <2> HIDE DEF x
    <2> QED
        BY <1>1, <1>3, Zenon DEF ConfigTypes
<1>5. ConfigTypes'
    <2>1. past' \in Seq(1 .. MaxEdits)
        <3>1. past \in Seq(1 .. MaxEdits)
            BY Zenon DEF ConfigTypes
        <3> QED
            BY <1>1, <1>2, <3>1, Appended, Zenon
    <2> QED
        BY <1>1, <1>4, <1>9, <2>1, Zenon DEF ConfigTypes
<1>6. Active' = Active /\ e \in Active
    BY <1>1, <1>4, Zenon DEF Active
<1>7. EditInStep'
    <2> SUFFICES ASSUME ~disturbed
                 PROVE  /\ \A f, g \in Active' : f = g
                        /\ \A f \in Notifying' :
                              /\ Shown(edit'[f].event) = stored'
                              /\ \A l \in Lists : \A i \in 1 .. Len(watchers'[l]) :
                                    CalledBy(f, l, i)' =>
                                        Agrees(mirror'[watchers'[l][i]], stored')
        BY <1>1, Zenon DEF EditInStep
    <2>1. \A f, g \in Active' : f = g
        BY <1>6, Zenon DEF EditInStep
    <2>2. \A f \in Notifying' : f = e
        BY <1>6, <2>1, Zenon DEF Notifying, Active
    <2>3. \A l \in Lists : \A i \in 1 .. Len(watchers'[l]) : ~CalledBy(e, l, i)'
        <3>4. edit'[e] = x
            BY <1>4, Zenon
        <3>1. edit'[e].list = "key" /\ edit'[e].next = 1
            BY <3>4
        <3>2. ASSUME NEW l \in Lists, NEW i \in 1 .. Len(watchers'[l]) PROVE ~(i < 1)
            BY <3>2, SMT
        <3>3. edit'[e].list # "*"
            BY <3>1, Zenon
        <3> QED
            BY <3>1, <3>2, <3>3, Zenon DEF CalledBy
    <2>4. Shown(edit'[e].event) = stored'
        <3>1. edit'[e] = x
            BY <1>4, Zenon
        <3>2. edit'[e].event = ev
            BY <3>1
        <3> QED
            BY <1>9, <3>2, Zenon
    <2> QED
        BY <2>1, <2>2, <2>3, <2>4, Zenon
<1> QED
    BY <1>5, <1>6, <1>7, Zenon DEF MirrorInStep

\* A callback is called, and may unwatch itself.
LEMMA CallKeepsConfig ==
    ASSUME ConfigInv, NEW e \in Editors, CallWatcher(e)
    PROVE  ConfigInv'
<1> USE DEF ConfigInv
<1> DEFINE l == edit[e].list
           n == edit[e].next
           c == watchers[l][n]
<1>1. /\ edit[e].at = "notifying" /\ n <= Len(watchers[l])
      /\ mirror' = [mirror EXCEPT ![c] = edit[e].event]
      /\ watchers' = IF c \in OneShots THEN [watchers EXCEPT ![l] = Removed(@, c)]
                                       ELSE watchers
      /\ disturbed' = (disturbed \/ c \in OneShots)
      /\ edit' = [edit EXCEPT ![e].next = @ + 1]
      /\ UNCHANGED <<stored, past, edits>>
    BY Zenon DEF CallWatcher, Turn
<1>2. edit[e] \in [at : {"notifying"}, event : Events, list : Lists, next : Nat \ {0}]
    BY <1>1, EditShape, Zenon
<1>3. l \in Lists /\ n \in Nat \ {0} /\ edit[e].event \in Events
    BY <1>2, Zenon
<1>4. /\ watchers[l] \in Seq(Callbacks) /\ c \in Callbacks
      /\ \E i \in DOMAIN watchers[l] : watchers[l][i] = c
    BY <1>1, <1>3 DEF ConfigTypes
<1>5. PICK x \in EditStates(edits) :
         /\ edit' = [edit EXCEPT ![e] = x] /\ x.at = "notifying" /\ x.event = edit[e].event
         /\ x.list = l /\ x.next = n + 1
    <2>1. [edit[e] EXCEPT !.next = @ + 1]
            \in [at : {"notifying"}, event : Events, list : Lists, next : Nat \ {0}]
        BY <1>2
    <2>2. [edit[e] EXCEPT !.next = @ + 1] \in EditStates(edits)
        BY <2>1, Zenon DEF EditStates
    <2>3. edit' = [edit EXCEPT ![e] = [edit[e] EXCEPT !.next = @ + 1]]
        BY <1>1, Zenon DEF ConfigTypes
    <2> QED
        BY <1>2, <2>1, <2>2, <2>3, Zenon
<1>6. /\ edit'[e] = x /\ \A f \in Editors \ {e} : edit'[f] = edit[f]
      /\ edit' \in [Editors -> EditStates(edits)]
    BY <1>5, Zenon DEF ConfigTypes
<1>7. Active' = Active /\ e \in Active /\ Notifying' = Notifying /\ e \in Notifying
    BY <1>1, <1>5, <1>6, Zenon DEF Active, Notifying
<1> HIDE DEF l, n, c
<1>8. ConfigTypes'
    <2>1. watchers' \in [Lists -> Seq(Callbacks)]
        <3>1. CASE c \in OneShots
            <4>1. Removed(watchers[l], c) \in Seq(Callbacks)
                BY <1>4, FirstRemoved, Zenon
            <4> QED
                BY <1>1, <1>3, <3>1, <4>1, Zenon DEF ConfigTypes
        <3>2. CASE c \notin OneShots
            BY <1>1, <3>2, Zenon DEF ConfigTypes
        <3> QED
            BY <3>1, <3>2, Zenon
    <2>2. mirror' \in [Callbacks -> Events \cup {Unknown}]
        BY <1>1, <1>3, <1>4, Zenon DEF ConfigTypes
    <2>3. disturbed' \in BOOLEAN
        BY <1>1, Zenon DEF ConfigTypes
    <2> QED
        BY <1>1, <1>6, <2>1, <2>2, <2>3, Zenon DEF ConfigTypes
<1>9. ~disturbed' => ~disturbed /\ watchers' = watchers
    BY <1>1, Zenon
<1>10. EditInStep'
    <2> SUFFICES ASSUME ~disturbed, watchers' = watchers
                 PROVE  /\ \A f, g \in Active' : f = g
                        /\ \A f \in Notifying' :
                              /\ Shown(edit'[f].event) = stored'
                              /\ \A m \in Lists : \A i \in 1 .. Len(watchers'[m]) :
                                    CalledBy(f, m, i)' =>
                                        Agrees(mirror'[watchers'[m][i]], stored')
        BY <1>9, Zenon DEF EditInStep
    <2>1. /\ \A f, g \in Active : f = g
          /\ Shown(edit[e].event) = stored
          /\ \A m \in Lists : \A i \in 1 .. Len(watchers[m]) :
                CalledBy(e, m, i) => Agrees(mirror[watchers[m][i]], stored)
        BY <1>7, Zenon DEF EditInStep
    <2>2. \A f \in Notifying' : f = e
        BY <1>7, <2>1, Zenon DEF Notifying, Active
    <2>3. ASSUME NEW m \in Lists, NEW i \in 1 .. Len(watchers[m]), CalledBy(e, m, i)'
          PROVE  Agrees(mirror'[watchers[m][i]], stored)
        <3>1. watchers[m][i] \in Callbacks
            BY DEF ConfigTypes
        <3>2. CalledBy(e, m, i) \/ watchers[m][i] = c
            <4>1. edit'[e].list = edit[e].list /\ edit'[e].next = edit[e].next + 1
                BY <1>5, <1>6, Zenon DEF l, n
            <4>2. edit[e].next \in Nat /\ i \in Nat
                BY <1>3 DEF n
            <4>3. i < edit[e].next + 1 => i < edit[e].next \/ i = edit[e].next
                BY <4>2
            <4> QED
                BY <2>3, <4>1, <4>3, Zenon DEF CalledBy, l, n, c
        <3>3. mirror'[watchers[m][i]] = IF watchers[m][i] = c THEN edit[e].event
                                                              ELSE mirror[watchers[m][i]]
            BY <1>1, <3>1, Zenon DEF ConfigTypes
        <3>4. CASE watchers[m][i] = c
            <4>1. mirror'[watchers[m][i]] = edit[e].event
                BY <3>3, <3>4, Zenon
            <4> QED
                BY <2>1, <4>1, Zenon DEF Agrees
        <3>5. CASE watchers[m][i] # c
            BY <2>1, <3>2, <3>3, <3>5, Zenon
        <3> QED
            BY <3>4, <3>5, Zenon
    <2> QED
        BY <1>1, <1>5, <1>6, <1>7, <2>1, <2>2, <2>3
<1> QED
    BY <1>7, <1>8, <1>10, Zenon DEF MirrorInStep

\* The callback raises.
LEMMA RaiseKeepsConfig ==
    ASSUME ConfigInv, NEW e \in Editors, WatcherRaises(e)
    PROVE  ConfigInv'
<1>1. /\ edit' = [edit EXCEPT ![e] = NoEdit] /\ disturbed' = TRUE
      /\ UNCHANGED <<stored, past, watchers, edits, mirror>>
    BY Zenon DEF WatcherRaises
<1>2. NoEdit \in EditStates(edits)
    BY Zenon DEF EditStates
<1>3. ConfigTypes'
    BY <1>1, <1>2, Zenon DEF ConfigInv, ConfigTypes
<1> QED
    BY <1>1, <1>3, Zenon DEF ConfigInv, EditInStep, MirrorInStep

\* A list is at its end.
LEMMA EndKeepsConfig ==
    ASSUME ConfigInv, NEW e \in Editors, EndList(e)
    PROVE  ConfigInv'
<1> USE DEF ConfigInv
<1>1. /\ edit[e].at = "notifying" /\ edit[e].next > Len(watchers[edit[e].list])
      /\ UNCHANGED <<stored, past, watchers, edits, mirror, disturbed>>
    BY Zenon DEF EndList, Turn
<1>2. edit[e] \in [at : {"notifying"}, event : Events, list : Lists, next : Nat \ {0}]
    BY <1>1, EditShape, Zenon
<1>3. e \in Active /\ e \in Notifying
    BY <1>1, Zenon DEF Active, Notifying
<1>4. \A m \in Lists : Len(watchers[m]) \in Nat
    BY DEF ConfigTypes
<1>5. CASE edit[e].list = "key"
    <2>1. PICK x \in EditStates(edits) :
             /\ edit' = [edit EXCEPT ![e] = x] /\ x.at = "notifying" /\ x.event = edit[e].event
             /\ x.list = "*" /\ x.next = 1
        <3>1. [edit[e] EXCEPT !.list = "*", !.next = 1]
                \in [at : {"notifying"}, event : Events, list : Lists, next : Nat \ {0}]
            <4>1. "*" \in Lists /\ 1 \in Nat \ {0}
                BY DEF Lists
            <4> QED
                BY <1>2, <4>1, ListMoved, Zenon
        <3>2. [edit[e] EXCEPT !.list = "*", !.next = 1] \in EditStates(edits)
            BY <3>1, Zenon DEF EditStates
        <3>3. edit' = [edit EXCEPT ![e] = [edit[e] EXCEPT !.list = "*", !.next = 1]]
            BY <1>5, Zenon DEF EndList
        <3> QED
            BY <1>2, <3>1, <3>2, <3>3, Zenon
    <2>2. /\ edit'[e] = x /\ \A f \in Editors \ {e} : edit'[f] = edit[f]
          /\ edit' \in [Editors -> EditStates(edits)]
        BY <2>1, Zenon DEF ConfigTypes
    <2>3. Active' = Active /\ Notifying' = Notifying
        BY <1>1, <2>1, <2>2, Zenon DEF Active, Notifying
    <2>4. ConfigTypes'
        BY <1>1, <2>2, Zenon DEF ConfigTypes
    <2>5. \A f \in Notifying, m \in Lists, i \in Nat \ {0} :
             f = e /\ i <= Len(watchers[m]) /\ CalledBy(f, m, i)' => CalledBy(f, m, i)
        BY <1>1, <1>2, <1>4, <1>5, <2>1, <2>2 DEF CalledBy, Lists
    <2>6. EditInStep'
        <3> SUFFICES ASSUME ~disturbed
                     PROVE  /\ \A f, g \in Active : f = g
                            /\ \A f \in Notifying :
                                  /\ Shown(edit'[f].event) = stored
                                  /\ \A m \in Lists : \A i \in 1 .. Len(watchers[m]) :
                                        CalledBy(f, m, i)' =>
                                            Agrees(mirror[watchers[m][i]], stored)
            BY <1>1, <2>3, Zenon DEF EditInStep
        <3>1. (\A f, g \in Active : f = g) /\ (\A f \in Notifying : f = e)
            BY <1>3, Zenon DEF EditInStep, Active, Notifying
        <3>2. ASSUME NEW m \in Lists, NEW i \in 1 .. Len(watchers[m]), CalledBy(e, m, i)'
              PROVE  Agrees(mirror[watchers[m][i]], stored)
            <4>1. CalledBy(e, m, i)
                BY <1>3, <1>4, <2>5, <3>2
            <4> QED
                BY <1>3, <4>1, Zenon DEF EditInStep
        <3>3. Shown(edit'[e].event) = stored
            BY <1>3, <2>1, <2>2, Zenon DEF EditInStep
        <3> QED
            BY <3>1, <3>2, <3>3, Zenon
    <2> QED
        BY <1>3, <2>3, <2>4, <2>6, Zenon DEF MirrorInStep
<1>6. CASE edit[e].list # "key"
    <2>1. edit' = [edit EXCEPT ![e] = NoEdit] /\ edit[e].list = "*"
        BY <1>2, <1>6, Zenon DEF EndList, Lists
    <2>2. NoEdit \in EditStates(edits) /\ NoEdit.at = "idle"
        BY Zenon DEF EditStates, NoEdit
    <2>3. /\ edit'[e] = NoEdit /\ \A f \in Editors \ {e} : edit'[f] = edit[f]
          /\ edit' \in [Editors -> EditStates(edits)]
        BY <2>1, <2>2, Zenon DEF ConfigTypes
    <2>4. ConfigTypes'
        BY <1>1, <2>3, Zenon DEF ConfigTypes
    <2>5. Active' = Active \ {e} /\ Notifying' \subseteq Active'
        BY <1>3, <2>2, <2>3, Zenon DEF Active, Notifying
    <2>6. ~disturbed => Active' = {}
        BY <1>3, <2>5, Zenon DEF EditInStep
    <2>7. ASSUME ~disturbed, NEW m \in Lists, NEW i \in 1 .. Len(watchers[m])
          PROVE  Agrees(mirror[watchers[m][i]], stored)
        <3>1. CalledBy(e, m, i)
            BY <1>1, <1>2, <1>4, <2>1 DEF CalledBy, Lists
        <3> QED
            BY <1>3, <2>7, <3>1, Zenon DEF EditInStep
    <2> QED
        BY <1>1, <2>4, <2>5, <2>6, <2>7, Zenon DEF EditInStep, MirrorInStep
<1> QED
    BY <1>5, <1>6, Zenon

\* watch: the new callback has had no event.
LEMMA WatchKeepsConfig ==
    ASSUME ConfigInv, NEW c \in Callbacks, NEW l \in Lists, Watch(c, l)
    PROVE  ConfigInv'
<1> USE DEF ConfigInv
<1>1. /\ watchers' = [watchers EXCEPT ![l] = Append(@, c)]
      /\ mirror' = [mirror EXCEPT ![c] = Unknown]
      /\ disturbed' = (disturbed \/ Notifying # {})
      /\ UNCHANGED <<stored, past, edit, edits>>
    BY Zenon DEF Watch
<1>2. watchers \in [Lists -> Seq(Callbacks)]
    BY Zenon DEF ConfigTypes
<1>3. watchers' \in [Lists -> Seq(Callbacks)]
    <2>1. Append(watchers[l], c) \in Seq(Callbacks)
        BY <1>2
    <2> QED
        BY <1>1, <1>2, <2>1, Zenon
<1>4. ConfigTypes'
    <2>1. disturbed' \in BOOLEAN
        BY <1>1, Zenon DEF ConfigTypes
    <2> QED
        BY <1>1, <1>3, <2>1, Zenon DEF ConfigTypes
<1>5. Active' = Active /\ Notifying' = Notifying
    BY <1>1, Zenon DEF Active, Notifying
<1>6. ~disturbed' => ~disturbed /\ Notifying = {}
    BY <1>1, Zenon
<1>7. EditInStep'
    BY <1>5, <1>6, Zenon DEF EditInStep
<1>8. ASSUME ~disturbed, Active = {}, NEW m \in Lists, NEW i \in 1 .. Len(watchers'[m])
      PROVE  Agrees(mirror'[watchers'[m][i]], stored)
    <2>1. watchers'[m][i] = c \/ (i \in 1 .. Len(watchers[m]) /\ watchers'[m][i] = watchers[m][i])
        <3>1. CASE m = l
            <4>1. watchers'[m] = Append(watchers[l], c)
                BY <1>1, <1>2, <3>1, Zenon
            <4>2. PICK r \in Seq(Callbacks) : r = watchers[l]
                BY <1>2, Zenon
            <4>3. i \in 1 .. Len(Append(r, c))
                BY <3>1, <4>1, <4>2, Zenon
            <4>4. Append(r, c)[i] = c \/ (i \in 1 .. Len(r) /\ Append(r, c)[i] = r[i])
                BY <4>2, <4>3, AppendedAt, Zenon
            <4> QED
                BY <3>1, <4>1, <4>2, <4>4, Zenon
        <3>2. CASE m # l
            BY <1>1, <1>2, <3>2, Zenon
        <3> QED
            BY <3>1, <3>2, Zenon
    <2>2. watchers'[m][i] \in Callbacks
        BY <1>3
    <2>3. watchers'[m][i] # c => Agrees(mirror[watchers'[m][i]], stored)
        BY <1>8, <2>1, Zenon DEF MirrorInStep
    <2> QED
        <3>1. CASE watchers'[m][i] = c
            BY <1>1, <2>2, <3>1, Zenon DEF ConfigTypes, Agrees
        <3>2. CASE watchers'[m][i] # c
            BY <1>1, <2>2, <2>3, <3>2, Zenon DEF ConfigTypes
        <3> QED
            BY <3>1, <3>2, Zenon
<1> QED
    BY <1>1, <1>4, <1>5, <1>6, <1>7, <1>8, Zenon DEF MirrorInStep

\* unwatch: the callbacks that are left were there before.
LEMMA UnwatchKeepsConfig ==
    ASSUME ConfigInv, NEW c \in Callbacks, NEW l \in Lists, Unwatch(c, l)
    PROVE  ConfigInv'
<1> USE DEF ConfigInv
<1>1. /\ watchers' = [watchers EXCEPT ![l] = Removed(@, c)]
      /\ disturbed' = (disturbed \/ Notifying # {})
      /\ UNCHANGED <<stored, past, edit, edits, mirror>>
    BY Zenon DEF Unwatch
<1>2. watchers \in [Lists -> Seq(Callbacks)]
    BY Zenon DEF ConfigTypes
<1>3. /\ watchers' \in [Lists -> Seq(Callbacks)]
      /\ \A m \in Lists : Among(watchers'[m], watchers[m])
    <2>1. /\ Removed(watchers[l], c) \in Seq(Callbacks)
          /\ Among(Removed(watchers[l], c), watchers[l])
        <3>1. watchers[l] \in Seq(Callbacks) /\ \E i \in DOMAIN watchers[l] : watchers[l][i] = c
            BY <1>2, Zenon DEF Unwatch
        <3> QED
            BY <3>1, FirstRemoved, Zenon
    <2>2. /\ watchers'[l] = Removed(watchers[l], c)
          /\ \A m \in Lists \ {l} : watchers'[m] = watchers[m]
        BY <1>1, <1>2, Zenon
    <2>3. watchers' \in [Lists -> Seq(Callbacks)]
        BY <1>1, <1>2, <2>1, Zenon
    <2>4. \A m \in Lists : Among(watchers[m], watchers[m])
        BY Zenon DEF Among
    <2> QED
        BY <2>1, <2>2, <2>3, <2>4, Zenon
<1>4. ConfigTypes'
    <2>1. disturbed' \in BOOLEAN
        BY <1>1, Zenon DEF ConfigTypes
    <2> QED
        BY <1>1, <1>3, <2>1, Zenon DEF ConfigTypes
<1>5. Active' = Active /\ Notifying' = Notifying
    BY <1>1, Zenon DEF Active, Notifying
<1>6. ~disturbed' => ~disturbed /\ Notifying = {}
    BY <1>1, Zenon
<1>7. EditInStep'
    BY <1>5, <1>6, Zenon DEF EditInStep
<1> QED
    <2>1. ASSUME ~disturbed, Active = {}, NEW m \in Lists, NEW i \in 1 .. Len(watchers'[m])
          PROVE  Agrees(mirror[watchers'[m][i]], stored)
        <3>1. PICK j \in 1 .. Len(watchers[m]) : watchers'[m][i] = watchers[m][j]
            BY <1>3, Zenon DEF Among
        <3> QED
            BY <2>1, <3>1, Zenon DEF MirrorInStep
    <2> QED
        BY <1>1, <1>4, <1>5, <1>6, <1>7, <2>1, Zenon DEF MirrorInStep

LEMMA NextConfig == ConfigInv /\ [ConfigNext]_configVars => ConfigInv'
<1> SUFFICES ASSUME ConfigInv, [ConfigNext]_configVars PROVE ConfigInv'
    BY Zenon
<1>1. CASE UNCHANGED configVars
    BY <1>1
    DEF configVars, ConfigInv, ConfigTypes, EditInStep, CalledBy, MirrorInStep, Active,
        Notifying
<1> QED
    BY <1>1, BeginKeepsConfig, ChangeKeepsConfig, CallKeepsConfig, RaiseKeepsConfig,
       EndKeepsConfig, WatchKeepsConfig, UnwatchKeepsConfig, Zenon
    DEF ConfigNext

LEMMA ConfigTyped == ConfigInv => ConfigTypeOK
<1> SUFFICES ASSUME ConfigInv PROVE ConfigTypeOK
    BY Zenon
<1>1. /\ edits \in 0 .. MaxEdits /\ stored \in 0 .. MaxEdits
      /\ mirror \in [Callbacks -> Events \cup {Unknown}]
    BY ConfigAssumption DEF ConfigInv, ConfigTypes
<1>2. \A e \in Editors : edit[e].at \in {"idle", "read", "notifying"}
    BY EditShape, Zenon DEF ConfigInv
<1> QED
    BY <1>1, <1>2, Zenon DEF ConfigInv, ConfigTypes, ConfigTypeOK

\* What a watcher knows from its last event, a delete's included, is the stored record
\* after an edit that ran alone, whatever overlapping edits, raising callbacks and registrations
\* went before; and no version exceeds the number of edits.
THEOREM MirrorsAlwaysInStep == ConfigSpec => [](ConfigTypeOK /\ MirrorInStep)
<1>1. ConfigInv => ConfigTypeOK /\ MirrorInStep
    BY ConfigTyped, Zenon DEF ConfigInv
<1> QED
    BY <1>1, InitConfig, NextConfig, PTL DEF ConfigSpec

-----------------------------------------------------------------------------
(* The connection pool.  PoolBound is inductive once nothing counts as     *)
(* drained outside close_all.  What its proof needs is how the number of   *)
(* lent connections changes when one borrower moves.                       *)

Holders == {b \in Borrowers : borrower[b] = "has"}

LEMMA LentIsNat ==
    ASSUME PoolTypeOK
    PROVE  IsFiniteSet(Holders) /\ Lent \in Nat /\ Lent = Cardinality(Holders)
<1>1. IsFiniteSet(Holders)
    BY PoolAssumption, FS_Subset, Zenon DEF Holders
<1> QED
    BY <1>1, FS_CardinalityType, Zenon DEF Lent, Holders

LEMMA LentGrows ==
    ASSUME PoolTypeOK, NEW b \in Borrowers, borrower[b] # "has",
           borrower' = [borrower EXCEPT ![b] = "has"]
    PROVE  Lent' = Lent + 1
<1>1. Holders' = Holders \cup {b} /\ b \notin Holders
    BY Zenon DEF Holders, PoolTypeOK
<1>2. Cardinality(Holders') = Cardinality(Holders) + 1
    BY <1>1, LentIsNat, FS_AddElement, Zenon
<1> QED
    BY <1>2, LentIsNat, Zenon DEF Lent, Holders

LEMMA LentShrinks ==
    ASSUME PoolTypeOK, NEW b \in Borrowers, borrower[b] = "has",
           borrower' = [borrower EXCEPT ![b] = "out"]
    PROVE  Lent' = Lent - 1
<1>1. Holders' = Holders \ {b} /\ b \in Holders
    BY Zenon DEF Holders, PoolTypeOK
<1>2. Cardinality(Holders') = Cardinality(Holders) - 1
    BY <1>1, LentIsNat, FS_RemoveElement, Zenon
<1> QED
    BY <1>2, LentIsNat, Zenon DEF Lent, Holders

LEMMA LentStays ==
    ASSUME PoolTypeOK, NEW b \in Borrowers, borrower[b] # "has",
           NEW to, to # "has", borrower' = [borrower EXCEPT ![b] = to]
    PROVE  Lent' = Lent
<1>1. Holders' = Holders
    BY Zenon DEF Holders, PoolTypeOK
<1> QED
    BY <1>1, Zenon DEF Lent, Holders

PoolInv == PoolTypeOK /\ PoolBound /\ (closing = "no" => drained = 0)

LEMMA InitPool == PoolInit => PoolInv
<1> SUFFICES ASSUME PoolInit PROVE PoolInv
    BY Zenon
<1>1. PoolTypeOK
    BY PoolAssumption DEF PoolInit, PoolTypeOK
<1>2. {b \in Borrowers : borrower[b] = "has"} = {}
    BY Zenon DEF PoolInit
<1>3. Lent = 0
    BY <1>2, FS_EmptySet, Zenon DEF Lent
<1> QED
    BY <1>1, <1>3, PoolAssumption DEF PoolInit, PoolInv, PoolBound

LEMMA NextPool == PoolInv /\ [PoolNext]_poolVars => PoolInv'
<1> SUFFICES ASSUME PoolInv, [PoolNext]_poolVars PROVE PoolInv'
    BY Zenon
<1> USE PoolAssumption DEF PoolInv, PoolTypeOK, PoolBound
<1>0. Lent \in Nat
    BY LentIsNat, Zenon
<1>1. ASSUME NEW b \in Borrowers, TakeIdle(b) PROVE PoolInv'
    <2>1. Lent' = Lent + 1
        BY <1>1, LentGrows, Zenon DEF TakeIdle, MoveBorrower
    <2> QED
        BY <1>0, <1>1, <2>1 DEF TakeIdle, MoveBorrower
<1>2. ASSUME NEW b \in Borrowers, MissIdle(b) PROVE PoolInv'
    <2>1. Lent' = Lent
        BY <1>2, LentStays, Zenon DEF MissIdle, MoveBorrower
    <2> QED
        BY <1>0, <1>2, <2>1, Zenon DEF MissIdle, MoveBorrower
<1>3. ASSUME NEW b \in Borrowers, CreateConnection(b) PROVE PoolInv'
    <2>1. Lent' = Lent + 1
        BY <1>3, LentGrows, Zenon DEF CreateConnection, MoveBorrower
    <2> QED
        BY <1>0, <1>3, <2>1 DEF CreateConnection, MoveBorrower, RoomInPool
<1>4. ASSUME NEW b \in Borrowers, WaitForIdle(b) \/ GiveUpWaiting(b) PROVE PoolInv'
    <2>1. Lent' = Lent
        BY <1>4, LentStays, Zenon DEF WaitForIdle, GiveUpWaiting, MoveBorrower
    <2> QED
        BY <1>0, <1>4, <2>1, Zenon DEF WaitForIdle, GiveUpWaiting, MoveBorrower
<1>5. ASSUME NEW b \in Borrowers, ReleaseConnection(b) PROVE PoolInv'
    <2>1. Lent' = Lent - 1 /\ Lent' \in Nat
        <3>1. PoolTypeOK'
            BY <1>5 DEF ReleaseConnection, MoveBorrower
        <3>2. Lent' = Lent - 1
            BY <1>5, LentShrinks, Zenon DEF ReleaseConnection, MoveBorrower
        <3>3. (PoolTypeOK => Lent \in Nat)'
            BY LentIsNat, PTL
        <3> QED
            BY <3>1, <3>2, <3>3, Zenon
    <2> QED
        BY <1>0, <1>5, <2>1 DEF ReleaseConnection, MoveBorrower
<1>6. CASE UNCHANGED borrower /\ (BeginCloseAll \/ DrainOne \/ SeeEmpty \/ ResetCreated)
    <2>1. Lent' = Lent
        BY <1>6, Zenon DEF Lent
    <2> QED
        BY <1>0, <1>6, <2>1 DEF BeginCloseAll, DrainOne, SeeEmpty, ResetCreated
<1>7. CASE UNCHANGED poolVars
    <2>1. Lent' = Lent
        BY <1>7, Zenon DEF Lent, poolVars
    <2> QED
        BY <1>7, <2>1, Zenon DEF poolVars
<1> QED
    BY <1>1, <1>2, <1>3, <1>4, <1>5, <1>6, <1>7, Zenon
    DEF PoolNext, BeginCloseAll, DrainOne, SeeEmpty, ResetCreated

\* Whatever the borrowers and close_all do, no more than max_connections are open besides
\* those that were lent out, or came back, while close_all reset the counter.
THEOREM PoolStaysBounded == PoolSpec => []PoolBound
<1>1. PoolInv => PoolBound
    BY Zenon DEF PoolInv
<1> QED
    BY <1>1, InitPool, NextPool, PTL DEF PoolSpec

-----------------------------------------------------------------------------
(* The four components that a run composes, side by side.                  *)

CoordinationInv == MemoryInv /\ DispatcherInv /\ BusInv /\ PoolInv

\* Every shared service keeps the types of its state, and the bounds on versions, attempts,
\* queues and connections that belong to them, while the others run.
THEOREM CoordinationTyped == CoordinationSpec => []CoordinationTypeOK
<1>1. CoordinationInit => CoordinationInv
  BY InitMemory, InitDispatcher, InitBus, InitPool, Zenon DEF CoordinationInit, CoordinationInv
<1>2. CoordinationInv /\ [CoordinationNext]_coordinationVars => CoordinationInv'
  <2>1. [CoordinationNext]_coordinationVars =>
           /\ [MemoryNext]_memoryVars /\ [DispatcherNext]_dispatcherVars
           /\ [BusNext]_busVars /\ [PoolNext]_poolVars
    BY Zenon DEF CoordinationNext, coordinationVars
  <2> QED BY <2>1, NextMemory, NextDispatcher, NextBus, NextPool, Zenon DEF CoordinationInv
<1>3. CoordinationInv => CoordinationTypeOK
  BY Zenon DEF CoordinationInv, CoordinationTypeOK, MemoryInv, DispatcherInv, BusInv, PoolInv
<1> QED BY <1>1, <1>2, <1>3, PTL DEF CoordinationSpec
=============================================================================
