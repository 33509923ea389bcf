SPECIFICATION FairSpec
CONSTANTS
  MaxOperations = 3
  MaxFailures = 2
INVARIANTS
  BusyWhileResolving
  FailureIsOfTheCard
PROPERTIES
  DecisionIsForTheCard
  PageCatchesUp
