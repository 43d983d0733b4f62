\* Two mounts at once, of every kind of request.
SPECIFICATION FairCSISpec
CONSTANTS
    m1 = m1  m2 = m2
    Mounts = {m1, m2}
    Requests <- MCRequests
    Absent = Absent
    DefaultAddress = "openbao"
    DefaultRole = "default"
    DefaultMethod = "kubernetes"
    OwnToken = TRUE
    Fields <- MCFields
    Initial <- MCInitial
    Volatile <- MCVolatile
    TTL = 1
    Timeout = 1
    MaxVersion = 2
    NoEntry = NoEntry
    NoRequest = NoRequest
    Env = {"crash"}
INVARIANTS StaleEntriesExpire AllOrNothing
PROPERTIES ImplementsSecretMounts FilesAreFresh MountsAreAnswered ShutdownEnds
