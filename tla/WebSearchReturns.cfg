\* Liveness of one call next to one Close; other calls only take its slot,
\* which the call does not wait for.
CONSTANTS
    Calls = {c1}
    Closers = {k1}
    Patient = {k1}
    MaxInFlight = 1
CHECK_DEADLOCK FALSE
SPECIFICATION FairSpec
PROPERTIES
    EverySearchReturns
