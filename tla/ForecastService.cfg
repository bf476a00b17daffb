SPECIFICATION Spec
CONSTANTS
    None = None
    Handlers = {h1, h2}
    MaxTime = 2
    MaxRows = 2
    Hour = 1
    MaxWindowHours = 3
    MaxTemperatureHours = 2
    Events <- MCEvents
    Questions <- MCQuestions
    InitialTables <- MCInitialTables
    Orders <- MCOrders
SYMMETRY Symmetry
INVARIANTS
    OneAnswerPerEvent
    AnsweredInTime
    AnchorHolds
PROPERTIES
    RefusalsAreDue
