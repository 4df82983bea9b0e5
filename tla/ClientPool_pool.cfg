SPECIFICATION FairPoolSpec
CONSTANTS
    PoolSize = 1
    MaxSlots = 3
    Requests = {q1, q2, q3}
    OneOff = {q3}
    Accounts = {a, b}
    Readers = {k1, k2}
    WarmRetries = 2
    MaxEvents = 2
    Nobody = Nobody

    
PROPERTIES
    
    ClosedIsEmptied
CHECK_DEADLOCK FALSE
