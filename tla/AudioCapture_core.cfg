SPECIFICATION FairSpec
CONSTANTS
  MaxSessions = 4
  FsMayFail = TRUE
INVARIANTS
  BackendIsFree
  PublishedIsWhole
  ErrorsAreOwn
  CallsAreHonest
PROPERTIES
  StoppedWorkerExits
CHECK_DEADLOCK FALSE
