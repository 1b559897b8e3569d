SPECIFICATION FairSpec
CONSTANTS
    Batches <- MCBatches
    MaxTokens = 1
    MaxRounds <- MCMaxRounds
    MaxAttempts = 2
    MaxEvals = 1
    MaxRuns = 2
INVARIANTS
    CacheIsHistory
    SessionIsAnswered
    UsageCountedOnce
    EffectsAreTold
    ConflictsAreKnown
PROPERTIES
    RunsEnd
CHECK_DEADLOCK FALSE
