\* One job with a timeout, one kill and a Close that is retried while fewer than
\* MaxAttempts attempts were made: start, natural end, timeout, kill and Close
\* race while signals may fail and the supervisor may die on its own.
CONSTANTS
    Jobs = {j1}
    Killers = {k1}
    Closers = {x1}
    Patient = {k1}
    Timed = {j1}
    Fragile = {j1}
    SignalMayFail = TRUE
    MaxRunning = 1
    MaxTracked = 1
    MaxAttempts = 2
CHECK_DEADLOCK FALSE
SPECIFICATION Spec
INVARIANTS
    OneVerdict
    TerminalMeansReaped
    ClosedMeansNothingLeft
PROPERTIES
    VerdictIsStable
