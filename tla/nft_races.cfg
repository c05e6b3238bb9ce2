SPECIFICATION Spec
CONSTANTS
  n1 = n1
  ip1 = ip1
  ip2 = ip2
  http = http
  https = https
  Proc = {p1, p2}
  Name = {n1}
  Alias = {ip1, ip2}
  Port = {http}
  Token = {}
  Options <- Rebinding
  NoToken = NoToken
  NoFile = NoFile
  Torn = Torn
  NoState = NoState
  NoTable = NoTable
  NoChain = NoChain
  Faults = {"add", "del", "unload", "nft", "save", "kill"}
  Serial = FALSE
  Interference = {"flush", "reboot"}
SYMMETRY ProcSymmetry
INVARIANTS
  UpContract
  ReassertContract
  VerifyContract
  DownContract
  DownUnblocks
