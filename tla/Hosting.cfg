CONSTANTS
    w1 = w1
    w2 = w2
    app = app
    s1 = s1
    Nobody = Nobody
    Workspaces <- TwoWorkspaces
    Names <- OneName
    Syncs <- OneSync
    NJobs = 2
    NEdits = 3
CHECK_DEADLOCK FALSE
SPECIFICATION Spec
INVARIANTS
    HostingInv
PROPERTIES
    NoTakeover
    OnlyRemovedIsPruned
