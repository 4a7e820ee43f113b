SPECIFICATION Spec
CONSTANTS
    DataCap = 4
    FdSpan = 16
    Byte <- MCByte
    Inputs <- MCTwoConnections
    Garbled <- MCNoGarbled
    DecodeHTTP <- MCDecodeHTTP
    DecodeRESP <- MCDecodeRESP
    BufCap = 4
    RingCap = 2
    EventsCap = 1
    ErrsCap = 1
    RawCap = 3
    OutCap = 1
    MaxSubmits = 3
    MaxFaults = 0
    MaxSignals = 1
INVARIANTS DependenciesInOrderObserved
