SPECIFICATION PanelSpec
CONSTANTS
  Sessions = {w1, w2}
  Targets = {phone}
  NoTarget = NoTarget
  Nobody = Nobody
  Main = Main
  MaxCalls = 6
  MaxCommands = 3
  Commands = {"previewReady", "stopSession", "reconnect"}
SYMMETRY Symmetry
INVARIANT PanelTypeOK
INVARIANT ShownSessionRuns
INVARIANT LoadingIsWorked
INVARIANT PreviewAcknowledged
CHECK_DEADLOCK FALSE
