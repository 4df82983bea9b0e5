SPECIFICATION Spec
CONSTANTS
    Runs = {r1}
    Workers = {w1, w2}
    Exacts = {a, b, c, d}
    Allowed = {c, d}
    Stoppable = {r1}
    Slow = {w1, w2}
    Expiring = {}
    MaxSteps = 1
    MaxEdits = 1
    MaxCrashes = 0
    None = None
SYMMETRY NameSymmetry
INVARIANTS
    WritesAreRecorded
    AskedWritesHaveConsent
PROPERTIES
    WritesAtMostOnce
    EndedRunsStayQuiet
CHECK_DEADLOCK FALSE
