SPECIFICATION FairSpec
CONSTANTS
  MaxSessions = 2
  FsMayFail = FALSE
PROPERTIES
  OrphanExits
CHECK_DEADLOCK FALSE
