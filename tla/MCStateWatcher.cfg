SPECIFICATION Spec
CONSTANTS
    runA = runA
    runB = runB
    lock = lock
    Path <- MCPath
    Kind <- MCKind
    Libraries = {"auto", "parcel", "node"}
    MaxGeneration = 4
    MaxChanges = 2
INVARIANTS
    TypeOK
    NoLeak
PROPERTIES
    OnlyCurrentReports
    NoticedIsReported
    ContractSpec
CHECK_DEADLOCK FALSE
