SPECIFICATION Spec
CONSTANTS
    Keys = {k1, k2}
    Fingerprints = {f1, f2}
    Signatures = {s1, s2, s3}
    Bodies = {b1, b2}
    MaxAmount = 2
    MaxTotal = 3
    MaxRequests = 2
    None = None
    Procs = {p1}
    Handlers = {h1, h2}
    JournalMayFail = TRUE
    Misattribution = TRUE
SYMMETRY Symmetry
INVARIANTS
    SpendWithinBudget
    VerifiedIsPaid
    DeliveredOncePaid
PROPERTIES
    RestartMovesOnlyUnfinished
    ServesOnlyRecovered
    ServesCalls
