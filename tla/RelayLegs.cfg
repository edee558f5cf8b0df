SPECIFICATION LegsFairSpec
CONSTANTS
  NUM_TEAMS = 2
  NUM_MEMBERS = 2
INVARIANTS
  LegsInOrder
  NoLostBaton
  SingleWinner
  PrintedLegsWereRun
PROPERTIES
  KeepsBarrierContracts
  ImplementsRelayRace
  RaceFinishes
