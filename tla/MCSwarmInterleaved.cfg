CONSTANTS
    p1 = p1
    p2 = p2
    Procs <- MCProcs
    Autopilots <- MCAutopilots
    Operators <- MCOperators
    Commands <- MCCommands
    Overrides <- MCOverrides
    NumTasks = 2
    Deps <- MCDeps
    AcpTasks <- MCAcpTasks
    ReviewRequired <- MCReviewRequired
    RejectPolicy = "blocked"
    MaxRejectRetries = 1
    RejectBound = 0
    MaxConcurrent = 1
    MaxAttempts = 1
    RetryOn <- MCRetryOn
    MaxRecoveries = 1
    ErrorsRecorded = FALSE
    MaxRuns = 1
SPECIFICATION Spec
INVARIANTS
    Coherent
    LedgerBacksWorkflow
