CONSTANTS
    p1 = p1
    Procs <- MCProcs
    Autopilots <- MCProcs
    Operators <- MCNobody
    Commands <- MCNobody
    Overrides <- MCOverrides
    NumTasks = 1
    Deps <- MCDeps
    AcpTasks <- MCTasks
    ReviewRequired <- MCTasks
    RejectPolicy = "blocked"
    MaxRejectRetries = 0
    RejectBound = 0
    MaxConcurrent = 1
    MaxAttempts = 2
    RetryOn <- MCRetryOn
    MaxRecoveries = 2
    ErrorsRecorded = TRUE
    MaxRuns = 3
SPECIFICATION SupervisedSpec
INVARIANT RetriesExhaust
CHECK_DEADLOCK FALSE
