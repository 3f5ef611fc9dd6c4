\* Calls take no time on the clock, so only the copy's own lifetime shows.
SPECIFICATION MCSpec
CONSTANTS
    Requests = {r1, r2}
    Null = Null
    Absent = Absent
    NoJti = NoJti
    Never = Never
    Strictness = {FALSE}
    CacheRaises = FALSE
    RoutineTTL = 1
    LastGoodTTL = 3
    JtiStaleness = 2
    CallTimeout = 0
    MaxSkew = 0
    InitialJti <- Named
    MaxTime = 2
    MaxVersions = 2
SYMMETRY Symmetry
PROPERTIES
    StragglerServedForRoutineTTL
