SPECIFICATION FairSpec
CONSTANTS
    NoDevice = NoDevice
    Versions = {1, 2}
    Items = {i1}
    Devices = {a, b}
    QueueCap = 2
    MaxSyncs = 2
    MaxFaults = 1
ACTION_CONSTRAINT FirstAnnounced
INVARIANTS
    TypeOK
    AnnouncedStored
    InStep
PROPERTY ItemsConverge
