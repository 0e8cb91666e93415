\* Two starts for one running slot and one registry entry: refusal,
\* eviction and the reuse of a slot all happen.
CONSTANTS
    Jobs = {j1, j2}
    Killers = {}
    Closers = {}
    Patient = {}
    Timed = {}
    Fragile = {}
    SignalMayFail = FALSE
    MaxRunning = 1
    MaxTracked = 1
    MaxAttempts = 1
SYMMETRY Symmetry
CHECK_DEADLOCK FALSE
SPECIFICATION Spec
INVARIANTS
    CapacityHolds
    SupervisorAnchorsGroup
