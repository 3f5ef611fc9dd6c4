\* One request after another on workers whose clocks and settings differ, while auth
\* rolls out current_jti: ages, storage times and every failure, with a cache that
\* raises; and that each request ends.
SPECIFICATION FairSpec
CONSTANTS
    Requests = {r1}
    Null = Null
    Absent = Absent
    NoJti = NoJti
    Strictness <- Mixed
    CacheRaises = TRUE
    RoutineTTL = 2
    LastGoodTTL = 2
    JtiStaleness = 1
    CallTimeout = 1
    MaxSkew = 1
    InitialJti <- RollingOut
    MaxTime = 5
    MaxVersions = 2
INVARIANTS
    IInv
PROPERTIES
    RoutineStaleness
    StrictTokenStaleness
    OutageStaleness
    NeverGoesRound
    EveryRequestEnds
    DecisionIsAuths
