SPECIFICATION Spec
CONSTANTS
  Proc = {"keeper", "admin"}
  Option <- Recordable
  NoRecord = NoRecord
  Torn = Torn
  RemovalsFail = FALSE
  RememberResults = FALSE
  NoUnit = NoUnit
  Flags <- RepeatedPort
  Platforms = {"darwin"}
  Commands = {"install"}
  Local = {FALSE}
  MaxCommands = 1
  MaxUpsets = 1
PROPERTIES
  RestartKeepsRedirect
\* The administrator may have nothing left to do, and no service to run.
CHECK_DEADLOCK FALSE
