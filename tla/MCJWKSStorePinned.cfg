\* pin_keys while a fetch is under way.
SPECIFICATION Spec
CONSTANTS
    Callers = {c1, c2}
    Pollers = {p1}
    None = None
    Kids = {k1, k2}
    PinnedKids = {k1}
    TTL = 1
    FetchTimeout = 1
    MaxTime = 1
    MaxVersions = 2
INVARIANTS
    PinnedStaysPinned
