---------------------------- MODULE ToolRegistry ----------------------------
(***************************************************************************)
(* ToolRegistry: the versions of one tool name, their lifecycle, and the   *)
(* active version that get(name) returns.  Versions are numbered in the    *)
(* order of their registration; everything else in a ToolMeta is left out. *)
(***************************************************************************)
EXTENDS Naturals, Sequences

CONSTANT MaxVersions    \* bound on the versions registered at a time

ASSUME RegistryAssumption == MaxVersions \in Nat

VARIABLES
    versions,           \* the status of each version, in registration order
    active              \* the active version, 0 if the name has none

registryVars == <<versions, active>>

Statuses == {"draft", "available", "deprecated"}

RegistryInit == versions = <<>> /\ active = 0

\* A version of a name that has no active one, whatever its status, or any available
\* version.
ActiveAfterRegister(status) ==
    IF active = 0 \/ status = "available" THEN Len(versions) + 1 ELSE active

\* register; the same version twice raises.
RegisterVersion(status) ==
    /\ Len(versions) < MaxVersions
    /\ versions' = Append(versions, status)
    /\ active' = ActiveAfterRegister(status)

AvailableBut(v) == {w \in 1..Len(versions) : versions[w] = "available" /\ w # v}

\* The latest registered version that is available, 0 if there is none.
Fallback(v) ==
    IF AvailableBut(v) = {} THEN 0
    ELSE CHOOSE w \in AvailableBut(v) : \A x \in AvailableBut(v) : x <= w

Publish(v) ==
    /\ versions[v] = "draft"
    /\ versions' = [versions EXCEPT ![v] = "available"]
    /\ active' = v

Deprecate(v) ==
    /\ versions[v] \in {"draft", "available"}
    /\ versions' = [versions EXCEPT ![v] = "deprecated"]
    /\ active' = IF active = v THEN Fallback(v) ELSE active

\* unregister: all the versions of the name.
UnregisterTool ==
    /\ versions # <<>>
    /\ versions' = <<>>
    /\ active' = 0

RegistryNext ==
    \/ \E status \in Statuses : RegisterVersion(status)
    \/ \E v \in 1..Len(versions) : Publish(v) \/ Deprecate(v)
    \/ UnregisterTool

RegistrySpec == RegistryInit /\ [][RegistryNext]_registryVars

\* get(name): the active version's status, or "none".
ActiveStatus == IF active = 0 THEN "none" ELSE versions[active]

-----------------------------------------------------------------------------
RegistryTypeOK ==
    /\ versions \in Seq(Statuses)
    /\ Len(versions) <= MaxVersions
    /\ active \in 0..Len(versions)

\* As long as some version is available get(name) returns an available one, whatever
\* was registered, published and deprecated in between.  (Without one it may return a
\* deprecated version: register makes the first version active, whatever its status.)
ActiveServes ==
    (\E v \in 1..Len(versions) : versions[v] = "available") => ActiveStatus = "available"
=============================================================================
