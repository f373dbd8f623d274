\* A cancel that was carried out while the handoff waits for its receipt.
SPECIFICATION Spec
CONSTANTS
    MaxMessages = 1
    MaxTurns = 1
    MaxRequests = 1
    MaxFaults = 1
    MaxRestarts = 0
INVARIANTS
    OldRetained
CHECK_DEADLOCK FALSE
