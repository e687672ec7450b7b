SPECIFICATION FairSpec
CONSTANTS
  Callers = {callA, callB}
  MaxAttempts = 2
  Threshold = 2
  Cooldown = 1
  MaxLag = 0
  MaxChunks = 2
  Kinds <- MCKinds
  callA = callA
  callB = callB
  Errors = {"transient", "permanent"}
INVARIANTS WireOrder
PROPERTIES UsageConserved RecoveryEarned CallEnds Recovers
CHECK_DEADLOCK FALSE
