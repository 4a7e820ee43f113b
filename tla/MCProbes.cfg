SPECIFICATION Spec
CONSTANTS
    DataCap = 2
    FdSpan = 16
    Threads = {t1, t2, other}
    Target = {t1, t2}
    Fds = {3}
    SSLs = {3}
    Byte = {"a", "b"}
    Payloads <- MCPayloads
    Stale = "?"
    StashCap = 1
    MaxCalls = 3
INVARIANTS TypeOK EventsAreTrue MissedOnlyWithExcuse
SYMMETRY MCSymmetry
CHECK_DEADLOCK FALSE
