SPECIFICATION FairSpec
CONSTANTS
    r1 = r1
    r2 = r2
    r3 = r3
    r4 = r4
    c1 = c1
    c2 = c2
    c3 = c3
    g1 = g1
    NoGoal = NoGoal
    NoRun = NoRun
    Runs = {r1, r2, r3}
    Conversations = {c1, c2, c3}
    Goals = {g1}
    ConversationOf <- Conversation
    GoalOf <- Goal
    Suspensions = {s1, s2}
    Mutations = {m1}
    GoalMutated <- AllOfOneGoal
    MaxConcurrentRuns = 2
INVARIANTS
    SuspendedOperationIsAlone
PROPERTIES
    GoalMutationIsAlone
    NoRunAtClose
    OperationsProceed
CHECK_DEADLOCK FALSE
