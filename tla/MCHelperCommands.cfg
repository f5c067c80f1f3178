SPECIFICATION RuntimeSpec
CONSTANTS
  Sessions = {w1, w2}
  Targets = {phone}
  NoTarget = NoTarget
  Nobody = Nobody
  Main = Main
  MaxCalls = 4
  MaxCommands = 2
  Commands = {"startQrPairing", "submitManualCode", "cancelPairing", "setScrcpyArgs", "shutdown", "reconnect", "stopSession", "startOver", "input", "phoneTarget", "previewReady"}
SYMMETRY Symmetry
INVARIANTS GenerationStartsOnce NoStartAfterEnd StopIsFinal
PROPERTY NoProgressAfterCancel
CHECK_DEADLOCK FALSE
