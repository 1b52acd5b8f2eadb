SPECIFICATION FairSpec
CONSTANTS
    Late = Late
    None = None
    Jobs = {j1, j2}
    Ports = {p1, p2, p3}
    Reopeners = {g1, g2}
    MaxCommands = 2
    ReceiveCap = 1
    MaxFaults = 1
INVARIANTS
    TypeOK
    OwnAnswer
    NoPortLeftOpen
PROPERTIES
    PortReturns
    JobEnds
