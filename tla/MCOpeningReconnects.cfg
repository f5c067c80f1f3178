SPECIFICATION LifecycleSpec
CONSTANTS
  MaxEpochs = 2
  MaxOpens = 2
  MaxGenerations = 2
  MaxChanges = 1
INVARIANT OpeningReconnects
CHECK_DEADLOCK FALSE
