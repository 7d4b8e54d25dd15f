CONSTANTS
    Roles = {planner, executor}
    Keys = {k1}
    MaxWrites = 3
    NoEntry = NoEntry
    NoCheck = NoCheck
SPECIFICATION MemorySpec
INVARIANTS
    CompareAndSet
