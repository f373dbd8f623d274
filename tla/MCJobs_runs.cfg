\* Queued runs here and on a peer, the host changed, answers lost, a hand
\* edit, a refused write and a restart.
SPECIFICATION FairSpec
CONSTANTS
    JobIds = {j1}
    Actions = {a1}
    Triggers <- Timed
    Hosts = {"local", "peer"}
    InitialFile <- PeerInterval
    Every = 1
    Granularity = 1
    MaxProposals = 1
    MaxClock = 2
    MaxOwnerCalls = 1
    MaxEdits = 1
    MaxItems = 2
    MaxCrashes = 1
    MaxWriteFailures = 1
INVARIANTS NeverOverlaps ScheduledIffArmed
PROPERTIES OnceEventuallyFires
