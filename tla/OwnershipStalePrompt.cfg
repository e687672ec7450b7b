SPECIFICATION Spec
CONSTANTS
    Replicas = {r1, r2}
    Sid = s1
    NoOwner = NoOwner
    Ops = {"prompt", "end"}
    Timely = TRUE
    Initial = "idle"
    MaxVer = 2
    MaxToken = 3
    MaxGen = 1
SYMMETRY Perms
INVARIANTS PromptIsCurrent
CHECK_DEADLOCK FALSE
