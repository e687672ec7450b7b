CONSTANTS
  c1 = c1
  c2 = c2
  r1 = r1
  r2 = r2
  b1 = b1
  b2 = b2
  q1 = q1
  q2 = q2
  NoCall = NoCall
  NoBinding = NoBinding
  NoRequest = NoRequest
  Calls = {c1}
  Reconcilers = {r1}
  Bindings = {b1, b2}
  Requests = {q1, q2}
  Kinds <- Disposal
  RefMoves = {"commit", "release"}
  RunTTL = 2
  OpTTL = 2
  Faults = {"vanish"}
  Prompt = TRUE
  MaxEpoch = 2
  MaxGen = 1
  MaxPod = 2
CHECK_DEADLOCK FALSE
SPECIFICATION FairSpec
INVARIANTS RetiredIsFree
PROPERTIES OperationResolves LifecycleResolves
