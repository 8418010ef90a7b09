SPECIFICATION FairSpec
CONSTANTS
  Node = {n1, n2}
  NoNode = NoNode
  Faults = {"late", "other", "reorder", "restart"}
  LossyKinds = {}
  Concurrent = FALSE
  MaxPkt = 3
CHECK_DEADLOCK FALSE
PROPERTIES
  PendingEnds
