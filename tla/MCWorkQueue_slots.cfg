\* A held slot comes back and a waiting item starts.
SPECIFICATION FairSpec
CONSTANTS
    Items = {1, 2}
    Priorities = {0}
    Callers = {owner}
    Owner = owner
    HostCallers = {owner}
    LimitChoices = {}
    InitialLimits <- NoShell
    GateStates = {TRUE}
    Retain = 1
    RecheckLimit = 2
    MaxClock = 0
    MaxCrashes = 0
    MaxWriteFailures = 0
    MaxCallFailures = 1
    MaxRows = 1
    MaxLags = 1
VIEW View
PROPERTIES
    SlotComesBack
    EventuallyStarts
