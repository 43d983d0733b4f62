\* One plugin with a gRPC call beside its health loop, under every fault.
SPECIFICATION FairTransitSpec
CONSTANTS
    c1 = c1  Loop = Loop  Plugin = Plugin
    t1 = t1  t2 = t2  Current = Current
    Callers <- MCCallers
    Calls = {c1}
    Tokens = {Current, t1, t2}
    NoToken = NoToken
    Lease = 5
    Margin = 4
    Timeout = 1
    NoExpiry = NoExpiry
    Revoked = Revoked
    Env = {"outage", "tokenLoss", "lostReply", "crash", "rotate"}
    Settings <- MCSettings
    MaxVersion = 1
    NoVersion = NoVersion
    NoProbe = NoProbe
INVARIANTS TrustedTokensAreLive ServingHasKey
PROPERTIES TransitCallsAreAnswered OutagesAreReported
