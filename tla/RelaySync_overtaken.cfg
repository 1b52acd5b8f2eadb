SPECIFICATION FairSpec
CONSTANTS
    Items = {d1}
    Versions = {2}
    QueueCap = 2
    MaxPoints = 3
    MaxRows = 0
    MaxFaults = 1
    DataDelay = TRUE
    ReplayMayOvertake = TRUE
PROPERTY GapsFilled
