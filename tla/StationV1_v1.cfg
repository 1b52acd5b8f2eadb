SPECIFICATION FairSpec
CONSTANTS
    Items = {i1}
    Versions = {1, 2}
    Conns = {c1, c2}
    NoConn = NoConn
    QueueCap = 1
    MaxReadings = 2
    MaxRows = 1
    MaxFaults = 2
INVARIANTS
    TypeOK
    ReplicaPrefix
PROPERTIES
    HeldBack
    SnapshotsReach
