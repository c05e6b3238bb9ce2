SPECIFICATION Spec
CONSTANTS
  Proc = {"keeper", "admin"}
  Option <- Recordable
  NoRecord = NoRecord
  Torn = Torn
  RemovalsFail = FALSE
  RememberResults = FALSE
  NoUnit = NoUnit
  Flags <- TwoFlags
  Platforms = {"darwin", "linux"}
  Commands = {"up", "down", "install", "uninstall"}
  Local = {FALSE, TRUE}
  MaxCommands = 2
  MaxUpsets = 2
INVARIANTS
  TypeOK
  UninstallIsFinal
PROPERTIES
  Heals
  InstallTakesEffect
  CommandsEnd
\* The administrator may have nothing left to do, and no service to run.
CHECK_DEADLOCK FALSE
