\* A record that was rotated, and outages again and again.
CONSTANTS
    p1 = p1 p2 = p2 c1 = c1 c2 = c2 c3 = c3
    k1 = k1 k2 = k2 k3 = k3 k4 = k4
    Plugins = {p1}
    Calls = {c1}
    Keys = {k1, k2}
    NoKey = NoKey
    BadKey = BadKey
    Free = Free
    NoVersion = NoVersion
    NoProbe = NoProbe
    Host <- HostAlone
    InitialRecords <- ARecord
    Creators = {}
    MaxVersion = 2
    Env = {"outage", "rotate"}
SPECIFICATION FairServerSpec
PROPERTY StatusMoves
