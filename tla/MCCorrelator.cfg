SPECIFICATION Spec
CONSTANTS
    DataCap = 2
    FdSpan = 16
    Inputs <- MCInputs
    Addrs <- MCAddrs
    EventsCap = 1
    RawCap = 1
    ConnsCap = 1
    MaxEvents = 4
INVARIANTS TypeOK SeqUnique SnapshotsAreLifecycles TrackedMatchesHistory
PROPERTIES BothCloseAfterInput
