SPECIFICATION FairSpec
CONSTANTS
  NUM_TEAMS = 2
  NUM_MEMBERS = 3
INVARIANTS
  NoTimeLost
  NoExchangeLost
PROPERTY ImplementsSprintRace
