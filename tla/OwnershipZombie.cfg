SPECIFICATION Spec
CONSTANTS
    Replicas = {r1}
    Sid = s1
    NoOwner = NoOwner
    Ops = {"prompt", "load", "fault", "reconcile"}
    Timely = TRUE
    Initial = "idle"
    MaxVer = 2
    MaxToken = 3
    MaxGen = 2
PROPERTIES SavesUnderOwnHold
CHECK_DEADLOCK FALSE
