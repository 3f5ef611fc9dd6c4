SPECIFICATION CredentialsSpec
CONSTANTS
    Following <- MCFollowing
    None = None
    Garbled <- MCGarbled
    \* Tokens
    k1 = k1
    Kids = {k1}
    Presentable <- MCPresentable
    Authenticators <- MCAuthenticators
    Headers <- MCHeaders
    Referenced <- MCReferenced
    Second = 2
    Leeway = 1
    MaxTokenLifetime = 4
    MaxNow = 8
    \* Callbacks
    w1 = w1
    w2 = w2
    Secrets = {w1, w2}
    EmptySecret = EmptySecret
    Malformed = Malformed
    Bodies <- MCBodies
    Setups <- MCSetups
    MaxSkew = 1
    MaxClock = 4
    \* EastWest
    pa = pa
    pb = pb
    e1 = e1
    ob = ob
    cg = cg
    c1 = c1
    typo = typo
    cn1 = cn1
    cn2 = cn2
    x1 = x1
    x2 = x2
    Name <- MCName
    Capability = {c1}
    OnboardingGrant = ob
    CustomerGrant = cg
    CommonNames = {cn1, cn2}
    Connections = {x1, x2}
    Demands = {c1, typo}
    Deployments <- MCDeployments
INVARIANTS
    IInv
    AcceptedIsProven
    RefreshIsForOurs
    AcceptedOnlyExpires
    LifetimeIsBounded
    CallbackIsVendorsWord
    ReplayWindow
    PeerOpensItsOwn
\* A service that does not start has stopped.
CHECK_DEADLOCK FALSE
