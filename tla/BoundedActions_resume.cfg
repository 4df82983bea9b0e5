SPECIFICATION FairSpec
CONSTANTS
    Runs = {r1, r2}
    Workers = {w1}
    Exacts = {a}
    Allowed = {}
    Stoppable = {}
    Slow = {}
    Expiring = {r1}
    MaxSteps = 1
    MaxEdits = 0
    MaxCrashes = 1
    None = None
PROPERTIES
    DecidedRunsResume
    ExecutingIsSettled
    UnknownIsNotRepeated
CHECK_DEADLOCK FALSE
