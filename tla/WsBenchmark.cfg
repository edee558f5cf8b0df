SPECIFICATION FairSpec
CONSTANTS
  ITERATIONS = 20
  Invalid = Invalid
INVARIANTS
  TypeOK
  NoErrorOnceConnected
  CloseOwnsConnected
PROPERTIES
  Alternates
  EndsUnlessBroken
  OnlyHang
CHECK_DEADLOCK FALSE
