SPECIFICATION Spec
CONSTANTS
  t1 = t1
  t2 = t2
  n1 = n1
  d1 = d1
  Tops = {t1, t2}
  Nodes = {n1}
  Incoming = {d1}
  Sees <- MCSees
  Closed = Closed
  None = None
  MaxLate = 1
SYMMETRY TopsAlike
INVARIANTS
  GoesOn
  OneUplink
  LossIsTold
  DeadDownlinkIsWatched
CHECK_DEADLOCK FALSE
