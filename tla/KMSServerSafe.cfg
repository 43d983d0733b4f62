\* A safe deployment: two nodes, of which one may create the key.
CONSTANTS
    p1 = p1 p2 = p2 c1 = c1 c2 = c2 c3 = c3
    k1 = k1 k2 = k2 k3 = k3 k4 = k4
    Plugins = {p1, p2}
    Calls = {c1, c2, c3}
    Keys = {k1, k2}
    NoKey = NoKey
    BadKey = BadKey
    Free = Free
    NoVersion = NoVersion
    NoProbe = NoProbe
    Host <- HostTwo
    InitialRecords <- AnyRecord
    Creators = {p1}
    MaxVersion = 1
    Env = {"writeError", "crash"}
SPECIFICATION FairServerSpec
INVARIANTS Recoverable LabelsNameTheRecord
PROPERTIES RecordIsPermanent CallsAreAnswered
