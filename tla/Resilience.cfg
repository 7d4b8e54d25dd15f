CONSTANTS
    Instances = {a, b, c}
    Sessions = {s1, s2}
    Sweepers = {b, c}
    Mortal = {a, b}
    Late = {a}
    Returning = {a}
    DiesSweeping = FALSE
    NoOwner = NoOwner
    Breakers = {b1, b2}
    Calls = {k1, k2}
    FailureThreshold = 2
    SuccessThreshold = 2
    MaxFailures = 4
    MaxRestarts = 1
    NotLoaded = NotLoaded
    NoRecord = NoRecord
SPECIFICATION ResilienceSpec
INVARIANTS
    ResilienceTypeOK
PROPERTIES
    OnlyOrphansTaken
    CompletedStays
    OrphansAdopted
    Recovers
