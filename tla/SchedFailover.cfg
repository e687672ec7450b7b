SPECIFICATION Spec
CONSTANTS
    NoOwner = NoOwner
    r1 = r1
    r2 = r2
    Replicas = {r1, r2}
    Kind = "cron"
    Owned = FALSE
    Singleton = FALSE
    MisfireSkip = TRUE
    MaxFires = 2
    MaxRetries = 0
    Period = 1
    Grace = 0
    Backoff = 1
    StaleWindow = 1
    MaxClock = 3
    MaxGen = 1
    FireIds = {1, 2, 3}
    Ops = {"lapse", "stop", "delete"}
INVARIANTS SlotsBelowNext SlotOnce FireBudget
SYMMETRY Perms
CHECK_DEADLOCK FALSE
