SPECIFICATION FairRuntimeSpec
CONSTANTS
  Sessions = {w1, w2}
  Targets = {phone}
  NoTarget = NoTarget
  Nobody = Nobody
  Main = Main
  MaxCalls = 4
  MaxCommands = 2
  Commands = {"startQrPairing", "reconnect", "stopSession", "cancelPairing", "startOver"}
PROPERTIES DrivesSessionControl CommandAnswered EveryGenerationIsTold
CHECK_DEADLOCK FALSE
