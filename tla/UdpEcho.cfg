SPECIFICATION FairSpec
CONSTANTS
  ITERATIONS = 4
  Failed = Failed
INVARIANTS
  EchoedOnce
  ShiftNeedsTimeout
  EarlyCloseNeedsTimeout
PROPERTIES
  AlternatesWhileCalm
  BothLoopsEnd
CHECK_DEADLOCK FALSE
