\* One node: requests that supersede each other, failing cloud calls, moves
\* of the machine and a restart of the hub.
SPECIFICATION FairSpec
CONSTANTS
    Nodes = {n1}
    Wakeable = {n1}
    KeepFailed = FALSE
    StartRetries = 1
    SilentStrikes = 2
    MaxRequests = 2
    MaxFaults = 1
    MaxMoves = 1
    MaxRestarts = 1
INVARIANTS
    OneCommand
    ViewIsCurrent
PROPERTIES
    CommandsInOrder
    RequestEnds
    ViewHeals
