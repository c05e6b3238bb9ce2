SPECIFICATION Spec
CONSTANTS
  Proc = {"keeper", "admin"}
  Option <- Recordable
  NoRecord = NoRecord
  Torn = Torn
  RemovalsFail = FALSE
  RememberResults = FALSE
  NoUnit = NoUnit
  Flags <- OneFlag
  Platforms = {"darwin"}
  Commands = {"install", "uninstall"}
  Local = {FALSE}
  MaxCommands = 2
  MaxUpsets = 0
INVARIANTS
  UninstallTakesDown
\* The administrator may have nothing left to do, and no service to run.
CHECK_DEADLOCK FALSE
