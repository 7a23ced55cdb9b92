\* Provider calls: budget, adapters, snapshot walk and access token.
CONSTANTS
    c1 = c1
    c2 = c2
    c3 = c3
    c4 = c4
    n1 = n1
    n2 = n2
    k1 = k1
    k2 = k2
    s1 = s1
    s2 = s2
    None = none
    Callers <- MCCallers
    Connections = {k1, k2}
    Scopes = {s1, s2}
    ConnectionOf <- MCConnectionOf
    ScopeOf <- MCScopeOf
    Within <- MCWithin
    Cells = {1, 2, 3}
    Slots = 2
    MaxEntries = 2
    Patience = 2
    MaxDelay = 2
    Headers <- MCHeaders
    MaxTime = 2
    MaxCalls = 5
    Families = {"hetzner", "digitalocean", "vultr", "contabo"}
    MaxChanges = 2
    Instances = {1, 2, 3}
    Images = {11, 12}
    Orders <- MCOrders
    InstanceRows = 2
    ImageRows = 1
    MaxSteps = 6
    Readers = {c1, c2, c3}
    MaxEpoch = 3
SPECIFICATION MCSpec
ACTION_CONSTRAINT Bound
INVARIANTS
    TypeOK
    TwoCallsAtMost
    SleepersHaveCause
    ReceiptIsTruthful
    ObservationIsTruthful
    SuccessIsOwn
    WalkIsExact
PROPERTIES
    PauseIsKept
    WaitersAreServed
    FetchHasCause
CHECK_DEADLOCK FALSE
