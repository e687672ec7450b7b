SPECIFICATION Spec
CONSTANTS
  Callers = {callA, callB}
  MaxAttempts = 2
  Threshold = 2
  Cooldown = 1
  MaxLag = 0
  MaxChunks = 2
  Kinds <- MCKinds
  callA = callA
  callB = callB
  Errors = {"transient"}
PROPERTIES CancelIsNeutral
CHECK_DEADLOCK FALSE
