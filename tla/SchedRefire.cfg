SPECIFICATION Spec
CONSTANTS
    NoOwner = NoOwner
    r1 = r1
    Replicas = {r1}
    Kind = "oneshot"
    Owned = FALSE
    Singleton = TRUE
    MisfireSkip = FALSE
    MaxFires = 0
    MaxRetries = 1
    Period = 2
    Grace = 1
    Backoff = 1
    StaleWindow = 2
    MaxClock = 6
    MaxGen = 1
    FireIds = {1, 2, 3}
    Ops = {"firenow"}
PROPERTIES DoneIsDone
CHECK_DEADLOCK FALSE
