\* Two requests, UI restarts, lost and late writes.
CONSTANTS
    p1 = p1 c1 = c1 r1 = r1 r2 = r2
    k1 = k1 k2 = k2 k3 = k3 k4 = k4
    Plugins = {p1}
    Calls = {c1}
    Requests = {r1, r2}
    UIFaults = {"restart", "error"}
    Keys = {k1, k2, k3}
    NoKey = NoKey
    BadKey = BadKey
    Free = Free
    NoVersion = NoVersion
    NoProbe = NoProbe
    Host <- HostAlone
    InitialRecords <- ARecord
    Creators = {p1}
    MaxVersion = 3
    Env = {"crash", "rotate", "lateWrite"}
SPECIFICATION RotationSpec
SYMMETRY KeySymmetry
INVARIANTS CounterFollowsRecord CounterCountsWrites
