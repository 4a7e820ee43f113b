SPECIFICATION TraceSpec
CONSTANTS
    DataCap = 2
    FdSpan = 16
    Inputs <- MCInputs
    Addrs <- MCAddrs
    EventsCap = 1
    RawCap = 1
    ConnsCap = 1
    MaxEvents = 3
    Byte <- MCByte
    DecodeHTTP <- MCDecodeHTTP
    DecodeRESP <- MCDecodeRESP
    BufCap = 2
    Raw2Cap = 1
    OutCap = 1
    MaxRows = 1
INVARIANTS TraceTypeOK RowsAreCurrent TabsShowTheTrace
PROPERTIES TabsKeepUp EndReachesAllTabs
