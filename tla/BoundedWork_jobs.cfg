SPECIFICATION FairSpec
CONSTANTS
    Events = {e1, e2}
    Repeated = {e2}
    Fallible = {e1}
    Delegating = {}
    Expiring = {e1}
    Stoppable = {}
    Revocable = FALSE
    Workers = {w1}
    Slow = {}
    Ops = {"done"}
    Bills = {0}
    Reserved = 0
    Cap = 0
    MaxSteps = 1
    MaxRetries = 0
    MaxCrashes = 1
    None = None
INVARIANT
    OneActiveRun
PROPERTIES
    SlotIsGivenUp
CHECK_DEADLOCK FALSE
