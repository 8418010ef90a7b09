SPECIFICATION Spec
CONSTANTS
  MAX_NUMBER_OF_ANTENNAS = 1
  Value = {0, 1}
  LiveField <- SmallLive
CHECK_DEADLOCK FALSE
INVARIANTS
  TypeOK
  ReplyIsFresh
PROPERTIES
  EveryCommandEnds
