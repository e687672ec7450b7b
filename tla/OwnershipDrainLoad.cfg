SPECIFICATION Spec
CONSTANTS
    Replicas = {r1, r2}
    Sid = s1
    NoOwner = NoOwner
    Ops = {"load", "drain"}
    Timely = TRUE
    Initial = "done"
    MaxVer = 2
    MaxToken = 3
    MaxGen = 1
SYMMETRY Perms
INVARIANTS LeasedNoLostUpdate
CHECK_DEADLOCK FALSE
