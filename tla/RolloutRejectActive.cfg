CONSTANTS
  MaxRevision = 2
  FirstActives = {1}
  MinReplicas = 1
  MaxOperations = 2
  MaxRolloutFaults = 0
SPECIFICATION RolloutSpec
INVARIANT RoutedCapacityExists
CHECK_DEADLOCK FALSE
