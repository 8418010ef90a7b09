SPECIFICATION Spec
CONSTANTS
  Node = {n1, n2, n3, n4}
  NoNode = NoNode
  Faults = {"send", "restart"}
  LossyKinds = {"FOL_UP", "RESP", "REM_REQ_FOL_UP"}
  Concurrent = FALSE
  MaxPkt = 5
SYMMETRY Symmetry
CHECK_DEADLOCK FALSE
INVARIANTS
  TypeOK
  ResultMeasuresOnePacket
  PendingWhileUnderway
  FollowUpCarriesItsTx
  ResponseCarriesItsRx
