SPECIFICATION Spec
CONSTANTS
    v1 = v1  v2 = v2  here = here  there = there  opaque = opaque  tls = tls  None = None
    Foreign = Foreign
    Types <- MCTypes
    Values = {v1}
    Targets = {here}
    SameNamespace <- MCSameNamespace
    Specs <- MCPolicies
    Endless = {}
    Invalid = {}
    Others = {}
    LogsIn = FALSE
    MaxUID = 1
    MaxGeneration = 2
    Env = {}
PROPERTIES OrphansAreKept
