\* One start and one Close are enough for the race.
CONSTANTS
    Jobs = {j1}
    Killers = {}
    Closers = {x1}
    Patient = {x1}
    Timed = {}
    Fragile = {}
    SignalMayFail = FALSE
    MaxRunning = 1
    MaxTracked = 1
    MaxAttempts = 1
CHECK_DEADLOCK FALSE
SPECIFICATION Spec
INVARIANTS
    NothingRunsAfterClose
