SPECIFICATION FairSpec
CONSTANTS
    NoOne = NoOne
    Publishers = {p1, p2}
    Delays = {1}
    IdleTimeout = 3
    MaxCalls = 2
PROPERTY EventuallyPublished
