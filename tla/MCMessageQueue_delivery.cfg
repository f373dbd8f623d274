\* One session: a crash, a refused write, a call cut off by the broker,
\* closes and two send-nows around two entries and three delivery attempts.
SPECIFICATION Spec
CONSTANTS
    Sessions = {s1}
    Ids = {e1, e2}
    Uuids = {u1, u2, u3}
    Texts = {1}
    RowStates = {"ready", "busy"}
    MaxPrompts = 0
    MaxEntries = 2
    MaxSessionBytes = 2
    MaxTotalBytes = 2
    MaxCrashes = 1
    MaxWriteFailures = 1
    MaxTimeouts = 1
    MaxSendNows = 2
SYMMETRY Symmetry
INVARIANTS
    TypeOK
    AtMostOnce
    ConfirmedWasTaken
    NoSilentLoss
PROPERTIES
    RestartSurfaces
