SPECIFICATION PageFairSpec
CONSTANT MaxSockets = 6
INVARIANTS
  OldSocketsEnd
  NeverStuck
  ButtonsTellState
PROPERTY ConnectComesBack
CHECK_DEADLOCK FALSE
