SPECIFICATION Spec
CONSTANTS
  MaxPresses = 1
PROPERTIES
  StopLeavesRecording
CHECK_DEADLOCK FALSE
