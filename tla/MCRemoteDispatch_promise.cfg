\* One dispatch: a crash, a loss, a repeated call and a failed delivery
\* around a worker with two updates, under the fairness of the observers.
SPECIFICATION FairSpec
CONSTANTS
    Dispatches = {d1}
    OriginCap = 1
    ReceiverCap = 1
    MaxSeq = 2
    MaxCrashes = 1
    MaxLosses = 1
    MaxRepeats = 1
    MaxFailures = 1
INVARIANTS TypeOK ToldOnce SessionsAgree
PROPERTIES ImplementsPromise ResultArrives
