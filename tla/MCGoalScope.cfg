SPECIFICATION ScopeSpec
CONSTANTS
    Items = {i1, i2}
    Effects = {e1}
    MaxAttempts = 2
    CleanupRounds = 2
    RecoveryRounds = 2
    MaxItems = 2
    MaxRuns = 2
SYMMETRY Symmetry
INVARIANTS
    OneWrongPassExposesNothing
PROPERTIES
    NeededItemsStay
CHECK_DEADLOCK FALSE
