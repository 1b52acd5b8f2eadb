SPECIFICATION FairSpec
CONSTANTS
    NoDevice = NoDevice
    Versions = {2}
    Items = {i1}
    Devices = {a}
    QueueCap = 3
    MaxSyncs = 1
    MaxFaults = 0
PROPERTY AvailableConverges
