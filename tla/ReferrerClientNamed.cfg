SPECIFICATION Spec
CONSTANTS
  c1 = c1
  n1 = n1
  Peers = {c1, n1}
  Caps = {c1}
  Sees <- MCSees
  None = None
  MaxLate = 0
INVARIANTS
  NamedArePinged
CHECK_DEADLOCK FALSE
