SPECIFICATION FairSpec
CONSTANTS
    r1 = r1
    r2 = r2
    t1 = t1
    Runs = {r1, r2}
    Tickets = {t1, t2, t3}
    RunOf <- FirstAgainstTheRest
    Ttl = 1
    MaximumPending = 1
    MaxDocuments = 3
INVARIANTS
    OneSideEffect
PROPERTIES
    ApprovedByItsRenderer
    NoEffectAfterCancel
    EveryTicketEnds
CHECK_DEADLOCK FALSE
