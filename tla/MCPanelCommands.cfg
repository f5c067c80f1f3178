SPECIFICATION PanelSpec
CONSTANTS
  Sessions = {w1}
  Targets = {phone}
  NoTarget = NoTarget
  Nobody = Nobody
  Main = Main
  MaxCalls = 6
  MaxCommands = 3
  Commands = {"startOver", "setPreferences", "previewReady", "input"}
SYMMETRY Symmetry
INVARIANT ShownSessionRuns
PROPERTY StartOverForgot
CHECK_DEADLOCK FALSE
