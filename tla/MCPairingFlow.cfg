SPECIFICATION FairFlowSpec
CONSTANTS
  OtherRequests = {"disconnect"}
  Notices = {}
  PipeSize = 1
  DrainSize = 1
  KeepSize = 0
  Endpoints = {a, b}
  BrowseTimeout = 2
  SettleTime = 1
  MaxLines = 2
INVARIANTS FlowTypeOK UnambiguousMatch StopsItsBrowser SavesThePairedPhone
PROPERTIES KeepsPromise FlowEnds
CHECK_DEADLOCK FALSE
