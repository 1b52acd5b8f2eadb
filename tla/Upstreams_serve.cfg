SPECIFICATION FairSpec
CONSTANTS
    Stations = {s1}
    MaxUps = 2
    MaxLoops = 3
    MaxEdits = 2
    MaxFaults = 1
INVARIANTS
    TypeOK
    Served
PROPERTIES
    OrphansSwept
    LinkedUnavailable
CHECK_DEADLOCK FALSE
