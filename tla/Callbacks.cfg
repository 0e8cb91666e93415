\* Two calls contend for the one slot while a patient Close runs: refusal,
\* retention by a lingering callback and release happen, and callbacks may never
\* return.
CONSTANTS
    Calls = {c1, c2}
    Closers = {k1}
    Patient = {k1}
    MaxInFlight = 1
    Options <- TwoOptions
    Responses <- OneReport
    mapResponse <- delegateMapResponse
CHECK_DEADLOCK FALSE
SPECIFICATION DelegateFairSpec
INVARIANTS
    TypeOK
    SlotsMatchResponders
    ClosedMeansQuiescent
    CloseCancelsEveryResponder
    ResultsAreEarned
PROPERTIES
    ImplementsPool
    EveryCallReturns
    CloseCompletes
