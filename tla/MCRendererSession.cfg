SPECIFICATION FairSpec
CONSTANTS
    w1 = w1
    w2 = w2
    Workspaces <- MCWorkspaces
    First <- MCFirst
    Trusted <- MCWorkspaces
    MaxActions = 2
    MaxFaults = 1
    MaxChoices = 1
INVARIANTS
    ViewStaysInWorkspace
    WithdrawnStaysWithdrawn
PROPERTIES
    SessionSettles
CHECK_DEADLOCK FALSE
