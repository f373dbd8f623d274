\* Two dispatches compete for journals of one row at each hub.
SPECIFICATION Spec
CONSTANTS
    Dispatches = {d1, d2}
    OriginCap = 1
    ReceiverCap = 1
    MaxSeq = 1
    MaxCrashes = 1
    MaxLosses = 0
    MaxRepeats = 1
    MaxFailures = 0
SYMMETRY Symmetry
INVARIANTS
    WorkRetained
PROPERTIES
    ImplementsPromise
