SPECIFICATION FairSpec
CONSTANTS
    Items = {d1}
    Versions = {1, 2}
    QueueCap = 2
    MaxPoints = 3
    MaxRows = 2
    MaxFaults = 1
    DataDelay = TRUE
    ReplayMayOvertake = FALSE
INVARIANTS
    TypeOK
    RelayGapFree
    RelayedLogPrefix
PROPERTIES
    RelayedStatusFresh
    EventuallyRelayed
