SPECIFICATION FairSpec
CONSTANTS
  Consoles = {c1}
  Pages = {p1}
  Exit = Exit
  Invalid = Invalid
  MaxLines = 1
  MaxTexts = 2
INVARIANTS
  ConnectionsAreSessions
  ServerSurvives
  RefusalNeedsBreak
  ExitIsClean
  EchoesInOrder
PROPERTY EndedIsForgotten
CHECK_DEADLOCK FALSE
