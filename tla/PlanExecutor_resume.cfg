CONSTANTS
    Executions = {1, 2}
    Submission <- LastRefused
    Template <- AnalysisPlan
    MaxParallel = 2
    MaxRetry = 0
    MaxReplan = 1
    MaxActive = 1
    MayCancel = FALSE
    MayExpire = FALSE
SPECIFICATION Spec
INVARIANTS
    SettledWhenQuiet
