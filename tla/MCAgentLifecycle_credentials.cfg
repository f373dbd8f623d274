\* Two sessions launched twice each, with two failures, an exit and a restart.
SPECIFICATION FairSpec
CONSTANTS
    Sessions = {s1, s2}
    MaxLaunches = 2
    MaxFaults = 2
    MaxExits = 1
    MaxRestarts = 1
INVARIANTS
    TypeOK
    CredentialIsRecorded
    AnsweredIsKept
    ReleaseIsSafe
PROPERTIES
    Recovers
