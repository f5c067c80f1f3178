SPECIFICATION FairCommandSpec
CONSTANTS
  Notices = {"unauthorized", "notLaunched"}
  PipeSize = 1
  DrainSize = 2
  KeepSize = 1
INVARIANTS ReapedOnReturn VerdictOnPrefix
PROPERTIES BlockedWriteProceeds CancelledReturns
CHECK_DEADLOCK FALSE
