SPECIFICATION DrainSpec
CONSTANTS
    Replicas = {r1}
    Sid = s1
    NoOwner = NoOwner
    Ops = {"prompt", "load", "end", "close", "drain"}
    Timely = TRUE
    Initial = "idle"
    MaxVer = 2
    MaxToken = 3
    MaxGen = 2
PROPERTIES DrainLetsGo
CHECK_DEADLOCK FALSE
