SPECIFICATION FairSpec
CONSTANTS
    Hooks = {a, b, c}
    Slow = {a}
    Pausable = TRUE
    Faults = {"error", "raised", "refused"}
    MaxCrashes = 1
    Recovery = recovery
    None = None

    
PROPERTIES
    LatestIsRun
    NoneLeftRunning
CHECK_DEADLOCK FALSE
