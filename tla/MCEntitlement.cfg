SPECIFICATION Spec
CONSTANTS
    Name <- MCName
    Capability <- MCCapability
    OnboardingGrant = ob
    CustomerGrant = cg
    None = None
    Policies <- MCPolicies
    Deployed <- MCDeployed
    Principals <- MCPrincipals
    Requests <- MCRequests
    Tiers <- MCTiers
    Unreadable = Unreadable
    MaxNow = 2
    ob = ob
    cg = cg
    sg = sg
    un = un
    os = os
    e1 = e1
    e2 = e2
    p1 = p1
    c1 = c1
    c2 = c2
    s1 = s1
    s2 = s2
INVARIANTS
    TypeOK
    TwoHops
    OpenedByRight
    OnboardingLeadsIn
    ChallengeCanHelp
PROPERTIES
    StepUpIsLive
\* A service that refuses its policy stops, and so do those not followed.
CHECK_DEADLOCK FALSE
