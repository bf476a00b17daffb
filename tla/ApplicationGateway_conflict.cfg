\* Two threads with the same request.
SPECIFICATION Spec
CONSTANTS
    AppKeys = {a1}
    r1 = r1
    r2 = r2
    lagos = lagos
    tokyo = tokyo
    Requests = {r1}
    Place <- MCPlace
    NMiners = 2
    Bodies = {good, bad}
    Usable = {good}
    Handlers = {h1, h2}
    Stamps = {h1, h2}
    Relative = {1}
    Opens <- MCOpens
    Midnight = 2
    Cutoff = 3
    MaxTime = 3
    Snapshots = {s1}
    ObsIds = {}
    Readings = {}
    None = None
SYMMETRY Symmetry
PROPERTIES
    ConflictMeansOtherRequest
