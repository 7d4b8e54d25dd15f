CONSTANTS
    Executions = {1, 2}
    Submission <- FirstToolGone
    Template <- UnorderedPlan
    MaxParallel = 2
    MaxRetry = 0
    MaxReplan = 2
    MaxActive = 2
    MayCancel = FALSE
    MayExpire = FALSE
SPECIFICATION Spec
INVARIANTS
    DependenciesRespected
    SuccessIsEarned
