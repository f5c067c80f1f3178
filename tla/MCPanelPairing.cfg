SPECIFICATION PanelSpec
CONSTANTS
  Sessions = {w1, w2}
  Targets = {phone}
  NoTarget = NoTarget
  Nobody = Nobody
  Main = Main
  MaxCalls = 6
  MaxCommands = 3
  Commands = {"useManualCode", "submitManualCode", "previewReady"}
SYMMETRY Symmetry
INVARIANT TrustAgrees
INVARIANT ShownCodeIsLive
CHECK_DEADLOCK FALSE
