\* A request and two pollers -- the second one started while the first is being
\* stopped -- on one store, while the issuer rotates its keys.
SPECIFICATION FairSpec
CONSTANTS
    Callers = {c1}
    Pollers = {p1, p2}
    None = None
    Kids = {k1}
    PinnedKids = {}
    TTL = 1
    FetchTimeout = 1
    MaxTime = 3
    MaxVersions = 2
INVARIANTS
    IInv
    ServedKeyIsPublished
    MissIsIssuersAnswer
PROPERTIES
    NobodyOvertakes
    LookupsReadOneDirectory
    EveryLookupEnds
