\* One handoff, one client message, one turn of the worker, one request of the
\* owner, one fault and one restart of the hub.  The handoff really stops.
SPECIFICATION FairSpec
CONSTANTS
    MaxMessages = 1
    MaxTurns = 1
    MaxRequests = 1
    MaxFaults = 1
    MaxRestarts = 1
INVARIANTS
    NoReplay
    NothingIsLost
PROPERTIES
    OldNotTold
    CompletesWhole
    HandoffEnds
CHECK_DEADLOCK FALSE
