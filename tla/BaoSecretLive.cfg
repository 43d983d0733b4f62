SPECIFICATION FairSpec
CONSTANTS
    v1 = v1  v2 = v2  here = here  there = there  opaque = opaque  tls = tls  None = None
    Foreign = Foreign
    Types <- MCTypes
    Values <- MCValues
    Targets = {here}
    SameNamespace <- MCSameNamespace
    Specs <- MCLive
    Endless <- MCEndless
    Invalid = {}
    Others <- MCLiveOthers
    LogsIn = TRUE
    MaxUID = 1
    MaxGeneration = 2
    Env = {"outage", "crash", "tamper"}
PROPERTIES DeletionCompletes Converges SuspensionHolds
