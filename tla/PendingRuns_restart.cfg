SPECIFICATION FairSpec
CONSTANTS
    Dashboard = {d1}
    Slack = {s1}
    Headless = {}
    None = None
    MaxEntries = 5
    MaxDrains = 2
    MaxCrashes = 1
    MaxStops = 1
PROPERTIES
    QueuedIsSettled
    OnlyRestartsLose
    RunsAtMostOnce
CHECK_DEADLOCK FALSE
