CONSTANTS
    Instances = {a, b, c}
    Sessions = {s1, s2}
    Sweepers = {b, c}
    Mortal = {a, b}
    Late = {}
    Returning = {}
    DiesSweeping = TRUE
    NoOwner = NoOwner
SPECIFICATION RecoverySpec
PROPERTIES
    AutomaticRecovery
