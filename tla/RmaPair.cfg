SPECIFICATION FairSpec
CONSTANTS
  Caller = {n1, n2}
  Target = {n1, n2}
  Addr = {a1}
  Val = {v0, v1}
  Zero = v0
  Refused = {}
  Faults = {}
  Restarts = {}
  Measured = {}
  MaxMsg = 7
CHECK_DEADLOCK FALSE
INVARIANTS
  AnswerIsOwn
PROPERTIES
  EveryCommandEnds
