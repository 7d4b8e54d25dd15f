---------------------------- MODULE SharedMemory ----------------------------
(***************************************************************************)
(* SharedMemoryStore of the multi-agent roles, over one shared backend.    *)
(* A backend call is one step and nothing else is locked: an operation     *)
(* lists the entries, removes the expired ones one by one, loads its key,  *)
(* and a write then stores.  Values are left out: an entry is its version  *)
(* and what is left of its TTL.                                            *)
(***************************************************************************)
EXTENDS Naturals

CONSTANTS
    Roles,          \* the callers, each with an operation at a time
    Keys,
    MaxWrites,      \* bound on the writes a behaviour begins
    NoEntry,
    NoCheck         \* a write without expected_version

ASSUME MemoryAssumption ==
    /\ MaxWrites \in Nat
    /\ NoCheck \notin Nat
    /\ NoEntry \notin [version : Nat, life : {"forever", "fresh", "over"}]

VARIABLES
    memory,         \* key -> its entry, or NoEntry
    op,             \* role -> the operation it is in
    known,          \* role -> key -> the version it saw last, 0 for no entry
    moved,          \* history: role -> keys stored or removed since it saw them
    crowded,        \* history: roles whose operation another one overlapped
    writes          \* the writes begun, for the bound

memoryVars == <<memory, op, known, moved, crowded, writes>>

Entries == [version : Nat, life : {"forever", "fresh", "over"}]

Version(e) == IF e = NoEntry THEN 0 ELSE e.version

Expired(e) == e # NoEntry /\ e.life = "over"

Operations ==
    [at : {"cleaning", "storing"},
     kind : {"read", "write", "cleanup"},
     key : Keys,
     expected : Nat \cup {NoCheck},
     doomed : SUBSET Keys,
     next : Entries \cup {NoEntry}]

Idle == [at |-> "idle"]

Busy == {r \in Roles : op[r].at # "idle"}

MemoryInit ==
    /\ memory = [k \in Keys |-> NoEntry]
    /\ op = [r \in Roles |-> Idle]
    /\ known = [r \in Roles |-> [k \in Keys |-> 0]]
    /\ moved = [r \in Roles |-> {}]
    /\ crowded = {}
    /\ writes = 0

\* Mutant: an entry is expired as soon as it has a TTL.
ExpiredEarly == {k \in Keys : memory[k] # NoEntry /\ memory[k].life # "forever"}

\* What cleanup_expired decides to remove, from the list of all the entries.
ExpiredKeys == {k \in Keys : Expired(memory[k])}

\* Any operation begins with cleanup_expired.  snapshot is a cleanup and a list.
BeginMemoryOp(r, kind, k, expected) ==
    /\ op[r].at = "idle"
    /\ op' = [op EXCEPT ![r] = [at |-> "cleaning", kind |-> kind, key |-> k,
                                expected |-> expected, doomed |-> ExpiredKeys,
                                next |-> NoEntry]]
    /\ crowded' = IF Busy = {} THEN crowded \ {r} ELSE crowded \cup Busy \cup {r}
    /\ UNCHANGED <<memory, known, moved>>

BeginRead(r, k) == BeginMemoryOp(r, "read", k, NoCheck) /\ UNCHANGED writes

BeginCleanup(r, k) == BeginMemoryOp(r, "cleanup", k, NoCheck) /\ UNCHANGED writes

\* write, without expected_version or with the version the role saw last.
BeginWrite(r, k) ==
    /\ writes < MaxWrites
    /\ writes' = writes + 1
    /\ \E expected \in {NoCheck, known[r][k]} : BeginMemoryOp(r, "write", k, expected)

\* The entry of k becomes e.
SetEntry(k, e) ==
    /\ memory' = [memory EXCEPT ![k] = e]
    /\ moved' = [r \in Roles |-> moved[r] \cup {k}]

\* _remove of one key of the list, whatever entry it has by now.
RemoveExpired(r) ==
    /\ op[r].at = "cleaning"
    /\ \E k \in op[r].doomed :
          /\ op' = [op EXCEPT ![r].doomed = @ \ {k}]
          /\ SetEntry(k, NoEntry)
    /\ UNCHANGED <<known, crowded, writes>>

Cleaned(r, kind) == op[r].at = "cleaning" /\ op[r].doomed = {} /\ op[r].kind = kind

Return(r) == op' = [op EXCEPT ![r] = Idle]

\* r learns the version of its key.
Learn(r, version) == known' = [known EXCEPT ![r][op[r].key] = version]

EndCleanup(r) ==
    /\ Cleaned(r, "cleanup")
    /\ Return(r)
    /\ UNCHANGED <<memory, known, moved, crowded, writes>>

EndRead(r) ==
    /\ Cleaned(r, "read")
    /\ Return(r)
    /\ Learn(r, Version(memory[op[r].key]))
    /\ moved' = [moved EXCEPT ![r] = @ \ {op[r].key}]
    /\ UNCHANGED <<memory, crowded, writes>>

Conflicts(r) ==
    /\ Cleaned(r, "write")
    /\ op[r].expected # NoCheck
    /\ op[r].expected # Version(memory[op[r].key])

\* VersionConflictError
RaiseConflict(r) ==
    /\ Conflicts(r)
    /\ Return(r)
    /\ UNCHANGED <<memory, known, moved, crowded, writes>>

\* Mutant: an entry that has a version keeps it.
LoadKeepsVersion(r) ==
    /\ Cleaned(r, "write")
    /\ ~Conflicts(r)
    /\ \E life \in {"forever", "fresh"} :
          op' = [op EXCEPT ![r].at = "storing",
                           ![r].next = [version |-> IF memory[op[r].key] = NoEntry
                                                    THEN 1 ELSE memory[op[r].key].version,
                                        life |-> life]]
    /\ UNCHANGED <<memory, known, moved, crowded, writes>>

\* _load, the check and the new entry, with or without ttl_seconds.
LoadForWrite(r) ==
    /\ Cleaned(r, "write")
    /\ ~Conflicts(r)
    /\ \E life \in {"forever", "fresh"} :
          op' = [op EXCEPT ![r].at = "storing",
                           ![r].next = [version |-> Version(memory[op[r].key]) + 1,
                                        life |-> life]]
    /\ UNCHANGED <<memory, known, moved, crowded, writes>>

\* _store; write returns a copy of the stored entry.
StoreEntry(r) ==
    /\ op[r].at = "storing"
    /\ Return(r)
    /\ Learn(r, op[r].next.version)
    /\ memory' = [memory EXCEPT ![op[r].key] = op[r].next]
    /\ moved' = [s \in Roles |-> IF s = r THEN moved[s] \ {op[r].key}
                                          ELSE moved[s] \cup {op[r].key}]
    /\ UNCHANGED <<crowded, writes>>

\* A TTL runs out.  The entry stays in the backend.
TimeToLiveOver(k) ==
    /\ memory[k] # NoEntry
    /\ memory[k].life = "fresh"
    /\ memory' = [memory EXCEPT ![k].life = "over"]
    /\ UNCHANGED <<op, known, moved, crowded, writes>>

MemoryNext ==
    \/ \E r \in Roles, k \in Keys : BeginRead(r, k) \/ BeginWrite(r, k) \/ BeginCleanup(r, k)
    \/ \E r \in Roles :
          \/ RemoveExpired(r) \/ EndCleanup(r) \/ EndRead(r)
          \/ RaiseConflict(r) \/ LoadForWrite(r) \/ StoreEntry(r)
    \/ \E k \in Keys : TimeToLiveOver(k)

MemorySpec == MemoryInit /\ [][MemoryNext]_memoryVars

-----------------------------------------------------------------------------
MemoryTypeOK ==
    /\ memory \in [Keys -> Entries \cup {NoEntry}]
    /\ op \in [Roles -> Operations \cup {Idle}]
    /\ \A r \in Roles : op[r].at = "storing" => op[r].next # NoEntry /\ op[r].kind = "write"
    /\ known \in [Roles -> [Keys -> Nat]]
    /\ moved \in [Roles -> SUBSET Keys]
    /\ crowded \subseteq Roles
    /\ writes \in 0..MaxWrites

\* VersionConflictError is never spurious: a role that passes the version it saw
\* last is refused only if the key was written or removed after it saw it.
ConflictMeansChange ==
    \A r \in Roles : Conflicts(r) => op[r].key \in moved[r]

\* An operation no other one overlaps is as good as atomic: what it is about to
\* remove is expired, and its store takes the key from the version it compared to
\* the next one.
UncontendedIsAtomic ==
    \A r \in Roles \ crowded :
        /\ op[r].at = "cleaning" => \A k \in op[r].doomed : Expired(memory[k])
        /\ op[r].at = "storing" =>
              /\ op[r].next.version = Version(memory[op[r].key]) + 1
              /\ op[r].expected \in {NoCheck, Version(memory[op[r].key])}

\* What docs/multi-agent/memory-consistency.md says without a condition: a write with
\* expected_version is a compare-and-set, it replaces that version and no other.
CompareAndSet ==
    \A r \in Roles :
        op[r].at = "storing" =>
            op[r].expected \in {NoCheck, Version(memory[op[r].key])}
=============================================================================
