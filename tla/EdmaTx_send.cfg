\* The source's ring of two packets of four descriptors, entered at either
\* line, more than one lap; the engine may be late for any, or stop for good.
SPECIFICATION DriverFairSpec
CONSTANTS
    NT = 8
    PER = 4
    StartIdx = {0, 4}
    MaxSends = 3
    MaxTimeouts = 3
    NoStore = NoStore
INVARIANTS EngineDoneWhenReturned FramesWellFormed
PROPERTIES ImplementsTxCall SendReturns
