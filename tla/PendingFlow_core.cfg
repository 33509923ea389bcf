SPECIFICATION FairSpec
CONSTANTS
  c1 = c1
  c2 = c2
  Clients <- TwoClients
  MaxCycles = 2
  DeleteAfterSend = TRUE
  UnlinkMayFail = TRUE
INVARIANTS
  PhaseMatchesSlot
  ProcessingHasOwner
  JobsAreAccounted
  AppliedAtMostOnce
  RepliesAreTruthful
  OperationOfThisRecording
  UploadHasItsFile
  FilesHaveAnOwner
PROPERTIES
  CycleSpec
  ProcessingEnds
  CloseReturns
