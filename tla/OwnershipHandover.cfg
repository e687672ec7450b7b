SPECIFICATION Spec
CONSTANTS
    Replicas = {r1, r2}
    Sid = s1
    NoOwner = NoOwner
    Ops = {"ask", "end", "drain", "deadline", "crash"}
    Timely = TRUE
    Initial = "awaiting"
    MaxVer = 3
    MaxToken = 3
    MaxGen = 1
SYMMETRY Perms
INVARIANTS OwnersAgree LeasedNoLostUpdate AskIsCurrent HandoffPreserved
CHECK_DEADLOCK FALSE
