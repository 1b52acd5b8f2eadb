SPECIFICATION FairSpec
CONSTANTS
    NoConn = NoConn
    Items = {d1, g1}
    GpioItems = {g1}
    Conns = {k1, k2}
    QueueCap = 2
    MaxClock = 2
    MaxFaults = 2
    ClockMayStepBack = FALSE
INVARIANTS
    TypeOK
    GapFree
    StatusLogPrefix
    ItemStatusFresh
    OneConnection
    ServedIsNormal
PROPERTIES
    EventuallyReplicated
    IngestResumes
