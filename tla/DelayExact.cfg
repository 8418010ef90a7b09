SPECIFICATION Spec
CONSTANTS
  INT = 16
  SECS = 64
  ULL = 256
  NSEC = 5
  Second <- SmallSecond
  Nano <- SmallNano
  Limit <- SmallLimit
CHECK_DEADLOCK FALSE
INVARIANTS
  TypeOK
  DelayShownIsDifference
  LimitTestExact
