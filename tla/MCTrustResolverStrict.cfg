\* Strict current-token check; two requests race each other, the cache, auth's
\* outages and the session's own changes.
SPECIFICATION Spec
CONSTANTS
    Requests = {r1, r2}
    Null = Null
    Absent = Absent
    NoJti = NoJti
    Strictness <- AllStrict
    CacheRaises = FALSE
    RoutineTTL = 2
    LastGoodTTL = 2
    JtiStaleness = 2
    CallTimeout = 1
    MaxSkew = 0
    InitialJti <- Named
    MaxTime = 1
    MaxVersions = 3
SYMMETRY Symmetry
PROPERTIES
    ClosedReadIsLinearizable
    RefusalIsAuthsAnswer
