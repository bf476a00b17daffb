SPECIFICATION Spec
CONSTANTS
    None = None
    Clients = {c1, c2}
    URLs <- MCURLs
    Approved <- MCURLs
    Proofs = {p1, p2, p3}
    Challenges <- MCChallenges
    ExpectedPayTo = "us"
    MinAmount = 1
    MaxPayment = 2
    MaxPaid = 2
    MaxTotal = 3
    RequireDeadline = FALSE
    MaxTime = 1
SYMMETRY Symmetry
INVARIANTS
    AnsweredIsSettled
PROPERTIES
    ClientKeepsPromise
