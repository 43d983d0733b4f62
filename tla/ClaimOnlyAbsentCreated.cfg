\* An outage, and the record is replaced.
CONSTANTS
    p1 = p1 p2 = p2 c1 = c1 c2 = c2 c3 = c3
    k1 = k1 k2 = k2 k3 = k3 k4 = k4
    Plugins = {p1}
    Calls = {c1}
    Keys = {k1, k2, k3}
    NoKey = NoKey
    BadKey = BadKey
    Free = Free
    NoVersion = NoVersion
    NoProbe = NoProbe
    Host <- HostAlone
    InitialRecords <- ARecord
    Creators = {p1}
    MaxVersion = 1
    Env = {"outage"}
SPECIFICATION ServerSpec
PROPERTY OnlyAbsentKeysAreCreated
