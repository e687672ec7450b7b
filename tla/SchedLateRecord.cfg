SPECIFICATION Spec
CONSTANTS
    NoOwner = NoOwner
    r1 = r1
    Replicas = {r1}
    Kind = "cron"
    Owned = FALSE
    Singleton = TRUE
    MisfireSkip = FALSE
    MaxFires = 0
    MaxRetries = 0
    Period = 2
    Grace = 1
    Backoff = 1
    StaleWindow = 1
    MaxClock = 5
    MaxGen = 1
    FireIds = {1, 2, 3}
    Ops = {"firenow"}
INVARIANTS LostIsDead
CHECK_DEADLOCK FALSE
