SPECIFICATION Spec
CONSTANTS
    Runs = {r1, r2}
    Kinds = {k1, k2}
    Mutations = {m1}
    NoRun = NoRun
    MaxItems = 1
    MaxTokens = 1
    TokenBudget = 1
    MaxCalls = 2
    LifecycleRounds = 3
    PreparingRounds = 1
    MaxRevision = 24
SYMMETRY Symmetry
INVARIANTS
    BoundRevisionStaysCurrent
    CompletionIsProved
    EffectsAreRecorded
PROPERTIES
    StoreSpec
CHECK_DEADLOCK FALSE
