SPECIFICATION Spec
CONSTANTS
    DataCap = 4
    FdSpan = 16
    TLS = TRUE
    Inputs <- MCInputs
    Garbled <- MCGarbled
    RingCap = 2
    EventsCap = 1
    ErrsCap = 1
    MaxSubmits = 3
    MaxFaults = 1
INVARIANTS TypeOK NoSendOnClosed PerRingFIFO CloseReleasesAll
PROPERTIES ClosedAfterClose
