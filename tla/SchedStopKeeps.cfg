SPECIFICATION Spec
CONSTANTS
    NoOwner = NoOwner
    r1 = r1
    r2 = r2
    Replicas = {r1, r2}
    Kind = "cron"
    Owned = FALSE
    Singleton = TRUE
    MisfireSkip = FALSE
    MaxFires = 0
    MaxRetries = 0
    Period = 2
    Grace = 1
    Backoff = 1
    StaleWindow = 2
    MaxClock = 6
    MaxGen = 1
    FireIds = {1, 2, 3}
    Ops = {"stop"}
INVARIANTS StoppedReleases
SYMMETRY Perms
CHECK_DEADLOCK FALSE
