CONSTANTS
    NumTasks = 4
    Deps <- MCDeps
    AcpTasks <- MCAcpTasks
    ReviewRequired <- MCReviewRequired
    RejectPolicy = "ready_retry"
    MaxRejectRetries = 1
    RejectBound = 2
    Slugs <- MCSlugs
    Specs <- MCSpecs
SPECIFICATION Spec
INVARIANTS
    TypeOK
    Coherent
    DependenciesHonoured
    ReviewIsOfUnfinished
    PlansFollowTheSpec
PROPERTIES
    DoneIsFinal
CHECK_DEADLOCK FALSE
