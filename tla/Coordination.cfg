CONSTANTS
    Roles = {planner, executor}
    Keys = {k1}
    MaxWrites = 3
    NoEntry = NoEntry
    NoCheck = NoCheck
    Assignments = {1, 2}
    Agents = {"executor1", "executor2", "auditor"}
    RoleOf <- MCRoleOf
    AgentRole <- MCAgentRole
    RetryLimit = 1
    Nothing = Nothing
    Requesters = {q1}
    Servers = {s1, s2}
    Listeners = {l1, l2, l3}
    Service = Service
    Borrowers = {b1, b2, b3}
    MaxConnections = 2
    MaxClosings = 2
SPECIFICATION CoordinationSpec
INVARIANTS
    CoordinationTypeOK
    UncontendedIsAtomic
    RegisteredIsSubscribed
    PoolBound
PROPERTIES
    EveryAssignmentSettles
    EveryRequestReturns
