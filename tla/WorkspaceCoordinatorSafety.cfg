\* Two runs contend for one slot while one Close call runs.
CONSTANTS
    Calls = {c1, c2}
    Closers = {k1}
    Patient = {}
    MaxInFlight = 1
SYMMETRY Symmetry
CHECK_DEADLOCK FALSE
SPECIFICATION Spec
INVARIANTS
    SlotsMatchWorkers
    AnswersAreTrue
PROPERTIES
    ImplementsPool
