SPECIFICATION IdleSpec
CONSTANTS
    File = {runs}
    Autopilot = autopilot
    Modes = {"watch"}
    MaxWrites = 0
    MaxFaults = 0
PROPERTIES
    IdleIsQuiet
CHECK_DEADLOCK FALSE
