SPECIFICATION Spec
CONSTANTS
  Node = {n1, n2}
  NoNode = NoNode
  Faults = {}
  LossyKinds = {}
  Concurrent = TRUE
  MaxPkt = 4
SYMMETRY Symmetry
CHECK_DEADLOCK FALSE
INVARIANTS
  PendingWhileUnderway
