\* Three calls by two goroutines and a Close that may be retried; one owner of
\* the two may have a session, one call may wait; everything may fail.
CONSTANTS
    Owners = {o1, o2}
    Ops = {a1, a2}
    Closers = {k1}
    Patient = {}
    MaxSessions = 1
    MaxQueued = 1
    MaxCalls = 3
    MayFail = TRUE
SYMMETRY Symmetry
CHECK_DEADLOCK FALSE
SPECIFICATION Spec
INVARIANTS
    GateIsExclusive
    ResourcesAreOwned
    ClosedMeansNothingLeft
PROPERTIES
    OneRunnerAtATime
    StateLossIsReported
