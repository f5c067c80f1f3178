SPECIFICATION ConfigSpec
CONSTANTS
  Configs = {a, b}
  ScreenOff = {b}
  Empty = Empty
  None = None
  MaxStores = 2
  MaxGenerations = 2
  MaxHelpers = 2
INVARIANTS NeverTorn StoredSurvives SettledAgrees RestartRunsUpdate
CHECK_DEADLOCK FALSE
