\* One call is enough: the race is between its two goroutines and the clock.
CONSTANTS
    Calls = {c1}
    Closers = {}
    Patient = {}
    MaxInFlight = 1
    Options <- TwoOptions
    Responses <- AskResponses
    mapResponse <- askMapResponse
CHECK_DEADLOCK FALSE
SPECIFICATION Spec
INVARIANTS
    EarlyResponseWins
