SPECIFICATION Spec
CONSTANTS
    r1 = r1
    r2 = r2
    r3 = r3
    r4 = r4
    r5 = r5
    r6 = r6
    custom = custom
    provider = provider
    internal = internal
    None = None
    Request = {r1, r2}
    Domain = {custom, provider, internal}
    Public = {custom, provider}
    DomainOf <- AnyDomainOf
    Explicit <- AnyExplicit
    Enabled = TRUE
    Guarded = FALSE
    PosTTL = 2
    NegTTL = 1
    Talkative = {"autoconfig"}
    MaxRequests = 2
    MaxTime = 2
PROPERTIES
    FailureKeptBriefly
CHECK_DEADLOCK FALSE
