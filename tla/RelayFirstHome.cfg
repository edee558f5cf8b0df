SPECIFICATION HomeSpec
CONSTANTS
  NUM_TEAMS = 2
  NUM_MEMBERS = 2
INVARIANTS
  FirstHomeIsAnnounced
