SPECIFICATION RuntimeSpec
CONSTANTS
  c1 = c1
  Clients <- OneClient
  MaxCycles = 2
  MaxPresses = 2
  DeleteAfterSend = TRUE
  UnlinkMayFail = FALSE
INVARIANTS
  NoRecordingOverDecision
  ShutdownIsComplete
PROPERTIES
  ControllerContract
CHECK_DEADLOCK FALSE
