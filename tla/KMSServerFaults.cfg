\* One process, two goroutines, every fault of the environment.
CONSTANTS
    p1 = p1 p2 = p2 c1 = c1 c2 = c2 c3 = c3
    k1 = k1 k2 = k2 k3 = k3 k4 = k4
    Plugins = {p1}
    Calls = {c1, c2}
    Keys = {k1, k2, k3, k4}
    NoKey = NoKey
    BadKey = BadKey
    Free = Free
    NoVersion = NoVersion
    NoProbe = NoProbe
    Host <- HostOne
    InitialRecords <- NoRecord
    Creators = {p1}
    MaxVersion = 1
    Env = {"outage", "writeError", "lateWrite", "crash", "rotate", "malformed"}
SPECIFICATION ServerSpec
SYMMETRY KeySymmetry
INVARIANTS TypeOK SealedIsStored OwnRoundTrip
PROPERTY ImplementsSealingKeys
