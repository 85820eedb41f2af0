SPECIFICATION Spec
CONSTANTS
    File = {runs}
    Autopilot = autopilot
    Modes = {"polling", "watch"}
    MaxWrites = 1
    MaxFaults = 1
INVARIANTS
    TypeOK
    NeverDeaf
    StoppedIsQuiet
    LoadsAreFresh
CHECK_DEADLOCK FALSE
PROPERTIES
    CacheCatchesUp
    ChangeReachesATick
    DemandSpec
