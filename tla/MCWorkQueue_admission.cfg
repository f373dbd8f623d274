\* Submissions, cancels, limits, gate, priorities, a crash and a refused
\* write.
SPECIFICATION Spec
CONSTANTS
    Items = {1, 2}
    Priorities = {0, 1}
    Callers = {owner}
    Owner = owner
    HostCallers = {owner}
    LimitChoices <- TwoLimits
    InitialLimits <- OneEach
    GateStates = {TRUE, FALSE}
    Retain = 1
    RecheckLimit = 2
    MaxClock = 1
    MaxCrashes = 1
    MaxWriteFailures = 1
    MaxCallFailures = 0
    MaxRows = 0
    MaxLags = 0
VIEW View
INVARIANTS StartsOnce AcceptedSurvives SlotsAccounted
PROPERTIES AdmitsInOrder
