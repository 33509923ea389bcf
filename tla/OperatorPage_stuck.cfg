SPECIFICATION Spec
CONSTANTS
  MaxOperations = 1
  MaxFailures = 0
INVARIANTS
  CardIsUsable
