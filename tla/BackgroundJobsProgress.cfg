\* Liveness of one job, one kill and one Close with patient callers; a signal may
\* fail, and the Close is then retried while fewer than MaxAttempts attempts were made.
CONSTANTS
    Jobs = {j1}
    Killers = {k1}
    Closers = {x1}
    Patient = {k1, x1}
    Timed = {}
    Fragile = {}
    SignalMayFail = TRUE
    MaxRunning = 1
    MaxTracked = 1
    MaxAttempts = 2
CHECK_DEADLOCK FALSE
SPECIFICATION FairSpec
PROPERTIES
    TerminationCompletes
