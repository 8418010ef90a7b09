SPECIFICATION Spec
CONSTANTS
  Caller = {c1, c2}
  Target = {t1}
  Addr = {a1, a2}
  Val = {v0, v1}
  Zero = v0
  Refused = {a2}
  Faults = {"lose", "send", "reorder", "short"}
  Restarts = {t1}
  Measured = {t1}
  MaxMsg = 3
CHECK_DEADLOCK FALSE
INVARIANTS
  TypeOK
  AcceptedWasServed
PROPERTIES
  ImplementsRemoteMemory
