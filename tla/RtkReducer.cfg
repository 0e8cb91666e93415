\* Two callbacks contend for one slot, with one or two fields each and a disk
\* that may fail, while a patient Close runs and is called again after an error.
CONSTANTS
    Callbacks = {c1, c2}
    Closers = {k1}
    Patient = {k1}
    MaxConcurrent = 1
    MaxFields = 2
    DiskMayFail = TRUE
CHECK_DEADLOCK FALSE
SPECIFICATION FairSpec
INVARIANTS
    SlotsCoverOwners
    ClosedMeansClean
PROPERTIES
    EveryCallbackReturns
    CloseReturns
