CONSTANTS
    Executions = {1}
    Submission <- Unregistered
    Template <- SinglePlan
    MaxParallel = 2
    MaxRetry = 0
    MaxReplan = 1
    MaxActive = 1
    MayCancel = FALSE
    MayExpire = FALSE
SPECIFICATION Spec
INVARIANTS
    FailedStepsEndFailed
