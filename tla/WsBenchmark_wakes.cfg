SPECIFICATION FairSpec
CONSTANTS
  ITERATIONS = 1
  Invalid = Invalid
PROPERTY LossWakesSendAndWait
CHECK_DEADLOCK FALSE
