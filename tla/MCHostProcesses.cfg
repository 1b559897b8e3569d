SPECIFICATION HostFairSpec
CONSTANTS
    c1 = c1
    c2 = c2
    Kinds <- MCKinds
    Together = 2
    HookCount = 2
    Contents <- MCContents
    MaxChanges = 2
INVARIANTS
    ForcedGroupIsGone
    CancellationReachesChildren
PROPERTIES
    OnlyTrustedHooksStart
    OperationsEnd
CHECK_DEADLOCK FALSE
