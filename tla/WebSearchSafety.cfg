\* Two calls contend for the one slot while one Close runs.
CONSTANTS
    Calls = {c1, c2}
    Closers = {k1}
    Patient = {}
    MaxInFlight = 1
SYMMETRY Symmetry
CHECK_DEADLOCK FALSE
SPECIFICATION Spec
INVARIANTS
    SlotsCoverEncoding
    ReceivedInTimeWins
PROPERTIES
    ImplementsPool
