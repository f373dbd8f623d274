\* Auto-flush alone, with every kind of row, into a queue of one entry.
SPECIFICATION FairSpec
CONSTANTS
    Sessions = {s1}
    Ids = {e1, e2}
    Uuids = {u1, u2}
    Texts = {1}
    RowStates = {"ready", "busy", "blocked", "ended", "remote"}
    MaxPrompts = 1
    MaxEntries = 1
    MaxSessionBytes = 2
    MaxTotalBytes = 2
    MaxCrashes = 0
    MaxWriteFailures = 0
    MaxTimeouts = 0
    MaxSendNows = 0
INVARIANTS SessionLimits
PROPERTIES EventuallySent
