SPECIFICATION Spec
CONSTANTS
  Owners = {o1, o2}
  NoOwner = NoOwner
  Sid = s1
  TTL = 3
  Second = 1
  Skew = 1
  MaxClock = 4
  MaxVersion = 3
INVARIANTS Exclusion ReleasedIsFree
PROPERTIES PortSpec
CHECK_DEADLOCK FALSE
