SPECIFICATION Spec
CONSTANTS
    DataCap = 4
    FdSpan = 16
    Byte <- MCByte
    Inputs <- MCInputs
    Garbled <- MCGarbled
    DecodeHTTP <- MCDecodeHTTP
    DecodeRESP <- MCDecodeRESP
    BufCap = 4
    RingCap = 2
    EventsCap = 1
    ErrsCap = 1
    RawCap = 2
    OutCap = 1
    MaxSubmits = 2
    MaxFaults = 1
    MaxSignals = 2
INVARIANTS TypeOK RecordingComplete
PROPERTIES CtrlCFinishes
