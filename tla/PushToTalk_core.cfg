SPECIFICATION FairSpec
CONSTANTS
  MaxPresses = 3
INVARIANTS
  AppAgrees
  CaptureInOrder
  OnlyOwnTimerCuts
  ReleaseIsAhead
  CleanShutdown
PROPERTIES
  RecordingEnds
  WorkerExits
CHECK_DEADLOCK FALSE
