SPECIFICATION Spec
CONSTANTS
    Replicas = {r1, r2}
    Sid = s1
    NoOwner = NoOwner
    Ops = {"approve", "end"}
    Timely = TRUE
    Initial = "awaiting"
    MaxVer = 2
    MaxToken = 3
    MaxGen = 1
SYMMETRY Perms
INVARIANTS ApproveIsCurrent
CHECK_DEADLOCK FALSE
