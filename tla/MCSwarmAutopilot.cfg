CONSTANTS
    p1 = p1
    key = key
    Procs <- MCProcs
    Autopilots <- MCProcs
    Operators <- MCNobody
    Commands <- MCNobody
    Overrides <- MCOverrides
    NumTasks = 2
    Deps <- MCDeps
    AcpTasks <- MCAll
    ReviewRequired <- MCReviewRequired
    RejectPolicy = "blocked"
    MaxRejectRetries = 1
    RejectBound = 1
    MaxConcurrent = 1
    MaxAttempts = 2
    RetryOn <- MCRetryOn
    MaxRecoveries = 1
    ErrorsRecorded = TRUE
    MaxRuns = 3
    SessionPolicy <- MCSessionPolicy
    BindingKey <- MCBindingKey
    ReviewMode = "auto_safe"
    Denied <- MCNobody
    Allowed <- MCNobody
    MaxDispatch = 2
    DegradedWindow = 3
    DegradedMinRuns = 2
    DegradedPercent = 100
    MaxDisturbances = 1
SPECIFICATION AutopilotSpec
INVARIANTS
    AutopilotTypeOK
    DoneIsEarned
    SessionRecordsAreTrue
PROPERTIES
    EndedIsNoticed
    IdleIsClosed
    StallsForAReason
CHECK_DEADLOCK FALSE
