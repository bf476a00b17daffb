\* One request at a time.
SPECIFICATION Spec
CONSTANTS
    None = None
    Handlers = {h1}
    MaxTime = 2
    MaxRows = 2
    Hour = 1
    MaxWindowHours = 3
    MaxTemperatureHours = 2
    Events <- MCEvents
    Questions <- MCQuestions
    InitialTables <- MCInitialTables
    Orders <- MCOrders
INVARIANTS
    MismatchIsRejected
