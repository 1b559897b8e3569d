SPECIFICATION FairSpec
CONSTANTS
    u = u
    r1 = r1
    r2 = r2
    Runs = {r1, r2}
    Servers = {u}
    Configs = {1, 2, 3}
    ConfigOf <- Revisions
    MaxServers = 2
    MaxSessions = 2
    MaxEdits = 1
INVARIANTS
    NoStrayServer
PROPERTIES
    AllowedRunsKeepTheirTools
    CalledAsApproved
    AbortedRunsEnd
CHECK_DEADLOCK FALSE
