SPECIFICATION FairSpec
CONSTANTS
    Kinds = {"once", "recurring"}
    Tasks = {t1, t2}
    Requests = {q1, q2}
    Ops = {"pause", "resume", "reschedule", "patch", "delete", "run_now"}
    Clearable = TRUE
    Failing = TRUE
    MaxFires = 1
    MaxDrains = 1
    MaxStops = 1
INVARIANT
    ScheduleIsKept
PROPERTIES
    FiredIsRun
CHECK_DEADLOCK FALSE
