\* Calls, proposals, approvals and manual runs around firing and a restart.
SPECIFICATION Spec
CONSTANTS
    JobIds = {j1, j2}
    Actions = {a1, a2}
    Triggers <- Timed
    Hosts = {"inline"}
    InitialFile <- InlineInterval
    Every = 1
    Granularity = 1
    MaxProposals = 1
    MaxClock = 2
    MaxOwnerCalls = 3
    MaxEdits = 0
    MaxItems = 0
    MaxCrashes = 1
    MaxWriteFailures = 0
INVARIANTS
    OnceFires
    OwnerDecides
