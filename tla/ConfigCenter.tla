---------------------------- MODULE ConfigCenter ----------------------------
(***************************************************************************)
(* One key of the ConfigCenter, its backend and its ConfigWatcher.  A put  *)
(* or delete reads the record, changes it, and calls the watchers of the   *)
(* key and then those of "*", on the live lists.  Nothing is locked: each  *)
(* backend call and each callback is a step, and other threads come in     *)
(* between.  A record is its version; 0 is no record.                      *)
(***************************************************************************)
EXTENDS Naturals, Sequences

CONSTANTS
    Editors,        \* the threads that put and delete
    Callbacks,
    OneShots,       \* callbacks that unwatch themselves when called
    MaxEdits,       \* bound on the puts and deletes begun
    MaxWatches,     \* bound on the registrations of callbacks
    Unknown         \* what a watcher has that has had no event

ASSUME ConfigAssumption == OneShots \subseteq Callbacks /\ MaxEdits \in Nat

VARIABLES
    stored,         \* the version in the backend
    past,           \* the versions of the backend's history, oldest first
    watchers,       \* "key" and "*" -> the registered callbacks, in order
    edit,           \* editor -> its operation
    edits,          \* the operations begun, for the bound
    mirror,         \* history: callback -> its last event since it was registered last, or
                    \* Unknown
    disturbed       \* history: the last operation overlapped another one, or a list
                    \* changed while its event was delivered

configVars == <<stored, past, watchers, edit, edits, mirror, disturbed>>

Lists == {"key", "*"}
NoEdit == [at |-> "idle"]
Active == {e \in Editors : edit[e].at # "idle"}
Notifying == {e \in Editors : edit[e].at = "notifying"}

ConfigInit ==
    /\ stored = 0
    /\ past = <<>>
    /\ watchers = [l \in Lists |-> <<>>]
    /\ edit = [e \in Editors |-> NoEdit]
    /\ edits = 0
    /\ mirror = [c \in Callbacks |-> Unknown]
    /\ disturbed = FALSE

\* put and delete begin with backend.get; the delete of no record returns False.
BeginEdit(e, kind) ==
    /\ edit[e].at = "idle"
    /\ edits < MaxEdits
    /\ kind = "delete" => stored # 0
    /\ edits' = edits + 1
    /\ edit' = [edit EXCEPT ![e] = [at |-> "read", kind |-> kind, old |-> stored]]
    /\ disturbed' = (Active # {})
    /\ UNCHANGED <<stored, past, watchers, mirror>>

\* The event's new_version: that of a delete is the version it removed.
NewVersion(e) == IF edit[e].kind = "put" THEN edit[e].old + 1 ELSE edit[e].old

EventType(e) == IF edit[e].kind = "delete" THEN "deleted"
                ELSE IF edit[e].old = 0 THEN "created" ELSE "updated"

StartNotify(e, version) ==
    edit' = [edit EXCEPT ![e] = [at |-> "notifying", list |-> "key", next |-> 1,
                                 event |-> [type |-> EventType(e), version |-> version]]]

\* Mutant: the event carries the version before the change.
ChangeRecordOldEvent(e) ==
    /\ edit[e].at = "read"
    /\ stored' = IF edit[e].kind = "put" THEN NewVersion(e) ELSE 0
    /\ past' = IF edit[e].kind = "put" THEN Append(past, NewVersion(e)) ELSE past
    /\ StartNotify(e, edit[e].old)
    /\ UNCHANGED <<watchers, edits, mirror, disturbed>>

\* backend.put, which also appends to the history, or backend.delete.
ChangeRecord(e) ==
    /\ edit[e].at = "read"
    /\ stored' = IF edit[e].kind = "put" THEN NewVersion(e) ELSE 0
    /\ past' = IF edit[e].kind = "put" THEN Append(past, NewVersion(e)) ELSE past
    /\ StartNotify(e, NewVersion(e))
    /\ UNCHANGED <<watchers, edits, mirror, disturbed>>

\* list.remove: the first registration of c goes.
Removed(list, c) ==
    LET first == CHOOSE i \in DOMAIN list : list[i] = c /\ \A j \in 1..(i - 1) : list[j] # c
    IN SubSeq(list, 1, first - 1) \o SubSeq(list, first + 1, Len(list))

Turn(e) == watchers[edit[e].list]

\* notify calls the next callback of the live list.  A one-shot callback removes
\* itself, and the one after it moves into its place and is passed over.
CallWatcher(e) ==
    /\ edit[e].at = "notifying"
    /\ edit[e].next <= Len(Turn(e))
    /\ LET c == Turn(e)[edit[e].next]
           l == edit[e].list
       IN /\ mirror' = [mirror EXCEPT ![c] = edit[e].event]
          /\ watchers' = IF c \in OneShots
                         THEN [watchers EXCEPT ![l] = Removed(@, c)]
                         ELSE watchers
          /\ disturbed' = (disturbed \/ c \in OneShots)
    /\ edit' = [edit EXCEPT ![e].next = @ + 1]
    /\ UNCHANGED <<stored, past, edits>>

\* The callback raises: put or delete raises too, after the change, and the callbacks
\* that are left are not called.
WatcherRaises(e) ==
    /\ edit[e].at = "notifying"
    /\ edit[e].next <= Len(Turn(e))
    /\ edit' = [edit EXCEPT ![e] = NoEdit]
    /\ disturbed' = TRUE
    /\ UNCHANGED <<stored, past, watchers, edits, mirror>>

\* The list is at its end: the wildcard list follows, then the operation returns.
EndList(e) ==
    /\ edit[e].at = "notifying"
    /\ edit[e].next > Len(Turn(e))
    /\ edit' = [edit EXCEPT ![e] = IF @.list = "key" THEN [@ EXCEPT !.list = "*", !.next = 1]
                                                     ELSE NoEdit]
    /\ UNCHANGED <<stored, past, watchers, edits, mirror, disturbed>>

\* watch, by any thread; a callback may be registered more than once.
Watch(c, l) ==
    /\ Len(watchers["key"]) + Len(watchers["*"]) < MaxWatches
    /\ watchers' = [watchers EXCEPT ![l] = Append(@, c)]
    /\ mirror' = [mirror EXCEPT ![c] = Unknown]
    /\ disturbed' = (disturbed \/ Notifying # {})
    /\ UNCHANGED <<stored, past, edit, edits>>

\* unwatch, by any thread: the first registration of the callback.
Unwatch(c, l) ==
    /\ \E i \in DOMAIN watchers[l] : watchers[l][i] = c
    /\ watchers' = [watchers EXCEPT ![l] = Removed(@, c)]
    /\ disturbed' = (disturbed \/ Notifying # {})
    /\ UNCHANGED <<stored, past, edit, edits, mirror>>

ConfigNext ==
    \/ \E e \in Editors :
          \/ \E kind \in {"put", "delete"} : BeginEdit(e, kind)
          \/ ChangeRecord(e) \/ CallWatcher(e) \/ WatcherRaises(e) \/ EndList(e)
    \/ \E c \in Callbacks, l \in Lists : Watch(c, l) \/ Unwatch(c, l)

ConfigSpec == ConfigInit /\ [][ConfigNext]_configVars

-----------------------------------------------------------------------------
Events == [type : {"created", "updated", "deleted"}, version : 0..MaxEdits]

ConfigTypeOK ==
    /\ stored \in 0..MaxEdits
    /\ past \in Seq(1..MaxEdits)
    /\ watchers \in [Lists -> Seq(Callbacks)]
    /\ edits \in 0..MaxEdits
    /\ mirror \in [Callbacks -> Events \cup {Unknown}]
    /\ \A e \in Editors : edit[e].at \in {"idle", "read", "notifying"}

\* The record a watcher knows from an event: none if it says "deleted".
Shown(event) == IF event.type = "deleted" THEN 0 ELSE event.version
Agrees(seen, version) == seen = Unknown \/ Shown(seen) = version

\* What a watcher knows from its last event is the stored record when no edit is in
\* progress, whenever it was registered, if the last edit overlapped no other, none of its
\* callbacks raised and no list changed under its notification: such an edit repairs what
\* others left.
MirrorInStep ==
    ~disturbed /\ Active = {} =>
        \A l \in Lists : \A i \in 1..Len(watchers[l]) :
            Agrees(mirror[watchers[l][i]], stored)
=============================================================================
