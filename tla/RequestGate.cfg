SPECIFICATION Spec
CONSTANTS
    None = None
    Threads = {t1, t2}
    proxy = proxy
    c1 = c1
    c2 = c2
    Addresses <- MCAddresses
    Trusted = {proxy}
    Tokens = {token}
    RequireAuth = TRUE
    Limit <- MCLimit
    Window = 3
    MaxKeys = 2
    SweepInterval = 3
    ProbeInterval = 2
    MaxTime = 4
    MaxRequests = 4
SYMMETRY Symmetry
INVARIANTS
    WindowLimit
    RetryAfterSuffices
    ReadyIsRecent
PROPERTIES
    ForgetsOnlyWhenFull
