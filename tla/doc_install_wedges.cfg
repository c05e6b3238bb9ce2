SPECIFICATION Spec
CONSTANTS
  Proc = {"keeper", "admin"}
  Option <- Recordable
  NoRecord = NoRecord
  Torn = Torn
  RemovalsFail = FALSE
  RememberResults = FALSE
  NoUnit = NoUnit
  Flags <- OneFlag
  Platforms = {"linux"}
  Commands = {"install"}
  Local = {FALSE}
  MaxCommands = 1
  MaxUpsets = 0
PROPERTIES
  InstallRepairs
\* The administrator may have nothing left to do, and no service to run.
CHECK_DEADLOCK FALSE
