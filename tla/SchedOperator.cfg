SPECIFICATION Spec
CONSTANTS
    NoOwner = NoOwner
    r1 = r1
    Replicas = {r1}
    Kind = "cron"
    Owned = TRUE
    Singleton = TRUE
    MisfireSkip = FALSE
    MaxFires = 0
    MaxRetries = 0
    Period = 2
    Grace = 1
    Backoff = 1
    StaleWindow = 1
    MaxClock = 3
    MaxGen = 2
    FireIds = {1, 2}
    Ops = {"firenow", "pause", "delete", "create"}
INVARIANTS NoOverlap PausedStays PlacementKept NoPlacementLeak
PROPERTIES SettleSparesRun OutcomeStays
CHECK_DEADLOCK FALSE
