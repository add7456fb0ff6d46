CONSTANTS
    a1 = a1
    a2 = a2
    r1 = r1
    n1 = n1
    n2 = n2
    p1 = p1
    p2 = p2
    Accounts <- TwoAccounts
    Requests <- OneRequest
    Names <- TwoNames
    Logins <- TwoLogins
    Limits <- NoneOneTwo
    Second = 2
    Window = 3
    MaxAttempts = 2
    Slots = 1
    MaxKeys = 1
    MaxTime = 4
SYMMETRY Symmetric
CHECK_DEADLOCK FALSE
SPECIFICATION Spec
INVARIANTS
    WindowsInv
    RetryHonest
    GuessesBounded
