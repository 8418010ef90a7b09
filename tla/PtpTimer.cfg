SPECIFICATION Spec
CONSTANTS
  Caller = {c1, c2}
  NoCaller = NoCaller
  WORD = 4
  NSEC = 2
  INC = 2
  PPB = 4
  PULSES = 2
  Ppbs <- SmallPpbs
  Deltas <- SmallDeltas
  Targets <- SmallTargets
  MaxFree = 4
  MaxMoves = 2
SYMMETRY Symmetry
CHECK_DEADLOCK FALSE
INVARIANTS
  TypeOK
  AdjustmentsAddUp
  NothingAfterRemove
PROPERTIES
  GetTimeNeverBehind
  SetTimeWithinSecond
