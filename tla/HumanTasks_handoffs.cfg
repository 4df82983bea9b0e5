SPECIFICATION FairSpec
CONSTANTS
    Requests = {q1}
    People = {p1, p2}
    None = None
    MaxVersion = 3
    MaxRunning = 1
    MaxTurns = 1
    MaxDrains = 1
    MaxMishaps = 1
INVARIANTS
    NoticeReachesAssignee
    CompletedIsTrue
PROPERTIES
    ContinuesOnce
    HandoffNotReplayed
    AnsweredIsSettled
CHECK_DEADLOCK FALSE
