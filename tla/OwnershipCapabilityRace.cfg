SPECIFICATION Spec
CONSTANTS
    Replicas = {r1}
    Sid = s1
    NoOwner = NoOwner
    Ops = {"prompt", "close"}
    Timely = TRUE
    Initial = "idle"
    MaxVer = 2
    MaxToken = 3
    MaxGen = 2
INVARIANTS RunHasCapability
CHECK_DEADLOCK FALSE
