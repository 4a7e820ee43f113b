SPECIFICATION Spec
CONSTANTS
    DataCap = 4
    FdSpan = 16
    Byte <- MCByte
    Inputs <- MCInputs
    DecodeHTTP <- MCDecodeHTTP
    DecodeRESP <- MCDecodeRESP
    BufCap = 2
    EventsCap = 1
    RawCap = 1
    OutCap = 1
    MaxEvents = 4
INVARIANTS MissingBytesAreFlagged
