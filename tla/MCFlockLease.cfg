SPECIFICATION Spec
CONSTANTS
  ownA = ownA
  ownT = ownT
  ownB = ownB
  procA = procA
  procB = procB
  Owners = {ownA, ownT, ownB}
  NoOwner = NoOwner
  Procs = {procA, procB}
  ProcOf <- MCProcOf
  Sid = s1
  TTL = 2
  CloseFails = TRUE
  MaxClock = 3
  MaxToken = 3
INVARIANTS Exclusion LockIsTheHolders
PROPERTIES PortSpec
CHECK_DEADLOCK FALSE
