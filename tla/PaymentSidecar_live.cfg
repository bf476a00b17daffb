SPECIFICATION FairSpec
CONSTANTS
    Keys = {k1, k2}
    Fingerprints = {f1}
    Signatures = {s1, s2}
    Bodies = {b1}
    MaxAmount = 1
    MaxTotal = 2
    MaxRequests = 2
    None = None
    Procs = {p1}
    Handlers = {h1, h2}
    JournalMayFail = FALSE
    Misattribution = FALSE
INVARIANTS
    UnfinishedIsOwned
PROPERTIES
    UnfinishedIsResolved
