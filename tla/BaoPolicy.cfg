\* A BaoPolicy that is edited, renamed, edited back, and deleted.
SPECIFICATION FairPolicySpec
CONSTANTS
    r1 = r1  r2 = r2
    Rules = {r1, r2}
    Orders <- MCOrders
    own = own  other = other
    Names = {own, other}
    ObjectName = own
    Unnamed = Unnamed
    Specs <- MCSpecs
    MaxUID = 1
    MaxGeneration = 3
    None = None
    LogsIn = TRUE
    Env = {"outage", "lostReply", "crash", "tamper"}
INVARIANTS PolicyTypeOK ReadyIsInForce
PROPERTIES StatusFollowsWrites PolicyDeletionCompletes PolicyConverges
