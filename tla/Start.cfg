SPECIFICATION Spec
CONSTANTS
  Proc = {p1, p2}
  Nobody = Nobody
  Port = {0, 5000, 44798}
  Script = {s1}
  Ways <- SmallWays
  LIMIT = 1
CHECK_DEADLOCK FALSE
INVARIANTS
  TypeOK
  OneDaemonPerPort
  ReachableWhenAlone
  TidyEnd
  ResetOnlyAfterLosses
PROPERTIES
  LossIsAnswered
  ResetIsReleased
