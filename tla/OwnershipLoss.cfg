SPECIFICATION FairSpec
CONSTANTS
    Replicas = {r1}
    Sid = s1
    NoOwner = NoOwner
    Ops = {"prompt", "approve", "end", "settle", "reconcile"}
    Timely = FALSE
    Initial = "running"
    MaxVer = 3
    MaxToken = 4
    MaxGen = 2
PROPERTIES TombstoneClears SavesUnderOwnHold OnlyOwnRenewerEndsHold
CHECK_DEADLOCK FALSE
