SPECIFICATION Spec
CONSTANTS
    v1 = v1  v2 = v2  here = here  there = there  opaque = opaque  tls = tls  None = None
    Foreign = Foreign
    Types <- MCTypes
    Values = {v1}
    Targets <- MCTargets
    SameNamespace <- MCSameNamespace
    Specs <- MCSpecs
    Endless = {}
    Invalid = {}
    Others = {}
    LogsIn = FALSE
    MaxUID = 2
    MaxGeneration = 2
    Env = {"crash", "tamper"}
INVARIANTS OnlyLiveOnesAreSynced ReadyIsCurrent ReferencesWereAsked
PROPERTIES  ImplementsForwardSync
