SPECIFICATION Spec
CONSTANTS
    r1 = r1
    r2 = r2
    a1 = a1
    Runs = {r1, r2}
    Accounts = {a1}
    Capacity = 1
    Budget = 3
    Hold = 2
    MaxCalls = 2
    Costs = {1, 3}
    MaxEvents = 2
    None = None
INVARIANTS SpendIsCovered SlotCoversUse
PROPERTIES WithdrawnPostsNothing
CHECK_DEADLOCK FALSE
