SPECIFICATION LifecycleSpec
CONSTANTS
  MaxEpochs = 2
  MaxOpens = 2
  MaxGenerations = 2
  MaxChanges = 1
INVARIANTS NoOrphan ReadyIsCurrent
PROPERTIES ClosedStops OpenGetsHelper
CHECK_DEADLOCK FALSE
