CONSTANTS
    Executions = {1}
    Submission <- OneRequest
    Template <- AnalysisPlan
    MaxParallel = 2
    MaxRetry = 1
    MaxReplan = 1
    MaxActive = 1
    MayCancel = TRUE
    MayExpire = TRUE
SPECIFICATION Spec
INVARIANTS
    CancelStopsCalls
    NeverBlocked
    AttemptBudget
    NoRepeatWithinExecution
PROPERTIES
    EveryExecutionReturns
