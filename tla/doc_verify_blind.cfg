SPECIFICATION Spec
CONSTANTS
  n1 = n1
  lanIP = lanIP
  loIP = loIP
  http = http
  en0 = en0
  lo0 = lo0
  Proc = {p1}
  Name = {n1}
  Alias = {lanIP}
  Port = {http}
  Token = {t1}
  Options <- LanBinding
  Iface = {en0, lo0}
  IfaceOf <- MCIfaceOf
  Loopback = lo0
  NoToken = NoToken
  NoFile = NoFile
  Torn = Torn
  NoState = NoState
  Outside = Outside
  Free = Free
  Faults = {}
  Serial = TRUE
  Interference = {"reload"}
INVARIANTS
  VerifiedRulesEvaluated
\* A call may find no unused token left: the number of tokens bounds pfctl -E.
CHECK_DEADLOCK FALSE
