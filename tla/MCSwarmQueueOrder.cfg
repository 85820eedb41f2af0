CONSTANTS
    p1 = p1
    Procs <- MCProcs
    Autopilots <- MCProcs
    Operators <- MCNobody
    Commands <- MCNobody
    Overrides <- MCOverrides
    NumTasks = 3
    Deps <- MCDeps
    AcpTasks <- MCTasks
    ReviewRequired <- MCTasks
    RejectPolicy = "ready_retry"
    MaxRejectRetries = 3
    RejectBound = 1
    MaxConcurrent = 1
    MaxAttempts = 0
    RetryOn <- MCRetryOn
    MaxRecoveries = 0
    ErrorsRecorded = TRUE
    MaxRuns = 3
SPECIFICATION QueueSpec
PROPERTY FirstInFirstOut
CHECK_DEADLOCK FALSE
