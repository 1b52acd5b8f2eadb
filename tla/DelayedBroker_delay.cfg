SPECIFICATION Spec
CONSTANTS
    NoOne = NoOne
    Publishers = {p1, p2, p3}
    Delays = {0, 2}
    IdleTimeout = 3
    MaxCalls = 4
SYMMETRY PublisherSymmetry
INVARIANTS
    TypeOK
    NoOversleep
PROPERTY ImplementsDelayQueue
