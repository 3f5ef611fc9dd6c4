\* What the boot checks let start, and what a request then meets.
SPECIFICATION Spec
CONSTANTS
    Path = {"orders", "ops", "hook1", "hook2", "hook", "known", "health"}
    VersionOf <- MCVersionOf
    WellKnown = {"known"}
    OpsPath = {"ops"}
    Exempt = {"health"}
    Class = {"Orders", "Hook", "Other"}
    Method = {1, 2}
    Name = {1, 2, 3, 4}
    MethodOf <- MCMethodOf
    Mounts <- MCMounts
    Bare <- MCBare
    Wirings <- MCWirings
    MaxCalls = 4
    MaxPresented = 2
    LateRoutes = FALSE
    None = None
INVARIANTS
    IInv
    ClassPurity
    AliasHasTwin
    NothingRunsUnproven
    BootLeavesNothingToFind
    MismatchIsForeign
PROPERTIES
    EndpointPlaneIsFinal
CHECK_DEADLOCK FALSE
