SPECIFICATION Spec
CONSTANTS
    None = None
    Unknown = Unknown
    Hour = 4
    MaxWindowHours = 3
    MaxTemperatureHours = 2
    VerifiedProviders = {"open_meteo"}
    AllowUnverified = TRUE
    Threshold = 100
    MaxCases = 3
    WarmupCases = 1
    MinHistory = 1
    Queries <- MCQueries
    AcceptTimes <- MCAcceptTimes
    Skies <- MCSkies
    Amounts <- MCAmounts
    Cases <- MCCases
    Files = {host, branch}
    Runs = {r1, r2}
    NLocations = 2
    Leads = {1, 2}
    PairForecasts <- MCPairForecasts
    Serialised = TRUE
    MaxHour = 2
    MaxRuns = 3
SYMMETRY Symmetry
INVARIANTS
    RequestIsFaithful
    SameIdReplays
    HoursAreTheProviders
    OutcomeIsObserved
    NoLeakage
    SeriesGoesOn
PROPERTIES
    CollectedIsKept
CHECK_DEADLOCK FALSE
