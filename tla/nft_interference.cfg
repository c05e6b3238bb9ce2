SPECIFICATION HistSpec
CONSTANTS
  n1 = n1
  ip1 = ip1
  ip2 = ip2
  http = http
  https = https
  Proc = {p1}
  Name = {n1}
  Alias = {ip1, ip2}
  Port = {http, https}
  Token = {}
  Options <- OneBinding
  NoToken = NoToken
  NoFile = NoFile
  Torn = Torn
  NoState = NoState
  NoTable = NoTable
  NoChain = NoChain
  Faults = {"add", "nft", "save", "clear", "kill"}
  Serial = TRUE
  Interference = {"flush", "alias", "reboot"}
INVARIANTS
  TypeOK
  UpContract
  ReassertContract
  VerifyContract
  DownContract
PROPERTIES
  ImplementsBinding
