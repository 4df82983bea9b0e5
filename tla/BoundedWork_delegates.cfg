SPECIFICATION FairSpec
CONSTANTS
    Events = {e1}
    Repeated = {}
    Fallible = {}
    Delegating = {e1}
    Expiring = {}
    Stoppable = {e1}
    Revocable = TRUE
    Workers = {w1, w2}
    Slow = {w1}
    Ops = {"done", "delegate", "input", "again"}
    Bills = {1, 3}
    Reserved = 2
    Cap = 4
    MaxSteps = 2
    MaxRetries = 1
    MaxCrashes = 0
    None = None
INVARIANT
    SpendWithinCap
PROPERTIES
    EndedRunsStayEnded
    ChildrenEnd
    OwnerIsTold
CHECK_DEADLOCK FALSE
