CONSTANTS
    Items = {i1, i2}
    Stations = {s1}
    DataBrowsers = {b1}
    GlobalBrowsers = {g1}
    Relays = {r1}
    Versions = {"v1", "v2"}
    Unrestricted = Unrestricted
    NoSub = NoSub
    Populations <- MCPopulations
    MaxEdits = 1
    MaxOverflows = 1
SYMMETRY MCSymmetry
SPECIFICATION Spec
INVARIANT TypeOK
INVARIANT NoLeak
INVARIANT ListFollowsPermissions
