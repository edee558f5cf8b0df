SPECIFICATION FairSpec
CONSTANTS
  Runners = {r1, r2}
  Main = main
  Messages = 2
INVARIANTS
  WholeLines
  FeedInConsoleOrder
  NoSendAfterClose
PROPERTY ReceiverSeesTheRace
CHECK_DEADLOCK FALSE
