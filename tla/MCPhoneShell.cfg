SPECIFICATION ShellSpec
CONSTANTS
  Texts <- TextSet
  Packages <- PackageSet
  Activities <- ActivitySet
  Letters = {"a", "s"}
  Digits = {"1"}
  ShellMeta = {";"}
INVARIANT ReachesThePhone
CHECK_DEADLOCK FALSE
