SPECIFICATION FairSpec
CONSTANTS
  Capacity = 2
  MaxGeneration = 3
  MaxBlocks = 3
INVARIANTS
  ReadIsWhole
  RecordingsDoNotMix
  SentinelFits
PROPERTIES
  ReadIsReleased
CHECK_DEADLOCK FALSE
