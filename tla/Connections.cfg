CONSTANTS
    n1 = n1
    api = api
    hook = hook
    mail = mail
    w1 = w1
    w2 = w2
    s1 = s1
    s2 = s2
    p1 = p1
    p2 = p2
    Names <- OneName
    Hosts <- AllHosts
    Blocked <- BlockedHosts
    TypeOf <- HostTypes
    InjectOf <- Injects
    Tiers <- TwoTiers
    Scopes <- TwoScopes
    Workspaces <- TwoWorkspaces
    Secrets <- TwoSecrets
    Keyrings <- ThreeRings
    Grants <- OneName
    AgentTier = 1
    Calls <- TwoCalls
    MaxRedirects = 2
SPECIFICATION ConnectionsSpec
INVARIANTS
    ConnectionsInv
    SecretIsLastWritten
    
SYMMETRY Symmetric
