SPECIFICATION Spec
CONSTANTS
  c1 = c1
  c2 = c2
  r1 = r1
  r2 = r2
  b1 = b1
  b2 = b2
  q1 = q1
  q2 = q2
  NoCall = NoCall
  NoBinding = NoBinding
  NoRequest = NoRequest
  Calls = {c1, c2}
  Reconcilers = {r1}
  Bindings = {b1}
  Requests = {q1, q2}
  Kinds <- Recovery
  RefMoves = {"commit"}
  RunTTL = 1
  OpTTL = 1
  Faults = {"evict", "restart"}
  Prompt = TRUE
  MaxEpoch = 4
  MaxGen = 2
  MaxPod = 3
SYMMETRY Symmetry
INVARIANTS OneWriter
PROPERTIES FenceLifted
CHECK_DEADLOCK FALSE
