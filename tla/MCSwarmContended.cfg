CONSTANTS
    p1 = p1
    p2 = p2
    Procs <- MCProcs
    Autopilots <- MCAutopilots
    Operators <- MCOperators
    Commands <- MCCommands
    Overrides <- MCOverrides
    NumTasks = 1
    Deps <- MCDeps
    AcpTasks <- MCAcpTasks
    ReviewRequired <- MCReviewRequired
    RejectPolicy = "ready_retry"
    MaxRejectRetries = 0
    RejectBound = 1
    MaxConcurrent = 1
    MaxAttempts = 2
    RetryOn <- MCRetryOn
    MaxRecoveries = 1
    ErrorsRecorded = FALSE
    MaxRuns = 1
SPECIFICATION Spec
INVARIANTS
    TypeOK
    LedgerBacksWorkflow
    Coherent
    VerdictsAreTrue
