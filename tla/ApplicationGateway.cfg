\* One key, two requests, two Miners (the first counts days from today and
\* opens its horizon at 1), two threads; midnight at 2, the cutoff at 3.
SPECIFICATION Spec
CONSTANTS
    AppKeys = {a1}
    r1 = r1
    r2 = r2
    lagos = lagos
    tokyo = tokyo
    Requests = {r1, r2}
    Place <- MCPlace
    NMiners = 2
    Bodies = {good, bad}
    Usable = {good}
    Handlers = {h1, h2}
    Stamps = {h1, h2}
    Relative = {1}
    Opens <- MCOpens
    Midnight = 2
    Cutoff = 3
    MaxTime = 3
    Snapshots = {s1, s2}
    ObsIds = {o1}
    Readings = {dry, wet}
    None = None
SYMMETRY Symmetry
INVARIANTS
    TypeOK
    KeyHasOneMeaning
    DecisionIsPaid
    AnswersAgree
    TruthIsTraced
PROPERTIES
    EvidenceKept
    FirstIsFinal
