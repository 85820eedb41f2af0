CONSTANTS
    p1 = p1
    Procs <- MCProcs
    Autopilots <- MCProcs
    Operators <- MCNobody
    Commands <- MCNobody
    Overrides <- MCOverrides
    NumTasks = 4
    Deps <- MCDeps
    AcpTasks <- MCAcpTasks
    ReviewRequired <- MCReviewRequired
    RejectPolicy = "ready_retry"
    MaxRejectRetries = 1
    RejectBound = 1
    MaxConcurrent = 2
    MaxAttempts = 2
    RetryOn <- MCRetryOn
    MaxRecoveries = 1
    ErrorsRecorded = FALSE
    MaxRuns = 3
SPECIFICATION SupervisedSpec
INVARIANTS
    NoDuplicateSession
    ConcurrencyLimit
    DependencyOrder
    SessionsTracked
    RecoveryBudget
PROPERTIES
    SerialSpec
CHECK_DEADLOCK FALSE
