SPECIFICATION FairSpec
CONSTANTS
    Tasks = {c1, h1}
    Chats = {c1}
    Mortal = {c1, h1}
    NoTask = NoTask
    MaxAttempts = 2
    MaxStops = 1
INVARIANTS
    OneRun
    HandleIsReachable
    HandleStopHonoured
PROPERTIES
    ImplementsLock
    FinishAnswersInjections
    WaitingRunStarts
