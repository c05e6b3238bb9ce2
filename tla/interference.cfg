SPECIFICATION HistSpec
CONSTANTS
  n1 = n1
  lanIP = lanIP
  loIP = loIP
  http = http
  en0 = en0
  lo0 = lo0
  Proc = {p1}
  Name = {n1}
  Alias = {loIP, lanIP}
  Port = {http}
  Token = {t1, t2}
  Options <- OneBinding
  Iface = {en0, lo0}
  IfaceOf <- MCIfaceOf
  Loopback = lo0
  NoToken = NoToken
  NoFile = NoFile
  Torn = Torn
  NoState = NoState
  Outside = Outside
  Free = Free
  Faults = {"add", "route", "pf", "clear"}
  Serial = TRUE
  Interference = {"flush", "disable", "sharing", "alias", "refs", "reboot"}
SYMMETRY TokenSymmetry
INVARIANTS
  TypeOK
  UpContract
  ReassertContract
  VerifyContract
  DownContract
  NoReferenceLeak
  NoOrphans
PROPERTIES
  ReferencesRespected
  ImplementsBinding
\* A call may find no unused token left: the number of tokens bounds pfctl -E.
CHECK_DEADLOCK FALSE
