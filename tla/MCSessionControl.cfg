SPECIFICATION FairSpec
CONSTANTS
  Sessions = {s1, s2}
  Targets = {phone}
  NoTarget = NoTarget
  Nobody = Nobody
  MaxCalls = 2
INVARIANTS OneScrcpy RunningIsCancellable ReapedBeforeReturn SafetyInv
PROPERTIES AcknowledgedNeverRetried BarrierIsCrossed
CHECK_DEADLOCK FALSE
