SPECIFICATION Spec
CONSTANTS
  Sessions = {s1}
  Owners = {o1, o2}
  NoOwner = NoOwner
  TTL = 2
  MaxClock = 4
  MaxToken = 3
INVARIANTS Exclusion TokenIdentifiesOwner
PROPERTIES PortSpec
