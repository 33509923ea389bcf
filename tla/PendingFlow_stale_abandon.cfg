SPECIFICATION Spec
CONSTANTS
  c1 = c1
  c2 = c2
  Clients <- OneClient
  MaxCycles = 3
  DeleteAfterSend = TRUE
  UnlinkMayFail = TRUE
PROPERTIES
  ProcessingEndsByOwnAnswer
