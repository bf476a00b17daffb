SPECIFICATION Spec
CONSTANTS
    Keys = {k1, k2}
    Fingerprints = {f1}
    Signatures = {s1, s2}
    Bodies = {b1}
    MaxAmount = 1
    MaxTotal = 1
    MaxRequests = 1
    None = None
    Procs = {p1, p2}
    Handlers = {h1, h2}
    JournalMayFail = FALSE
    Misattribution = TRUE
SYMMETRY Symmetry
PROPERTIES
    RestartMovesOnlyUnfinished
