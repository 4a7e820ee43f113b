SPECIFICATION Spec
CONSTANTS
    DataCap = 4
    FdSpan = 16
    Byte <- MCByte
    Inputs <- MCInputs
    Garbled <- MCNoGarbled
    DecodeHTTP <- MCDecodeHTTP
    DecodeRESP <- MCDecodeRESP
    BufCap = 4
    RingCap = 2
    EventsCap = 1
    ErrsCap = 1
    RawCap = 1
    OutCap = 1
    MaxSubmits = 2
    MaxFaults = 0
    MaxSignals = 1
PROPERTIES CtrlCFinishes
CHECK_DEADLOCK FALSE
