SPECIFICATION Spec
CONSTANTS
  lo0 = lo0
  en0 = en0
  en1 = en1
  bridge100 = bridge100
  ip1 = ip1
  ip2 = ip2
  ip3 = ip3
  ip4 = ip4
  lo1 = lo1
  lo2 = lo2
  Interfaces <- MCInterfaces
  Addr = {ip1, ip2, ip3, ip4, lo1, lo2}
  Global = {ip1, ip2, ip3, ip4}
  LoopbackIP = {lo1, lo2}
  IPv6Loopback = IPv6Loopback
  Service = Service
  LocalOnly = LocalOnly
  None = None
  Platforms = {"darwin", "other"}
  Faults = {"lookup", "connect", "register", "poll", "restart"}
  Programs = {"Run", "keep"}
  Conn = {c1, c2}
  Only <- MCOnly
  ScopedIPs = {{ip2, ip3}, {ip4}}
  LocalIPs = {{lo1}}
INVARIANTS
  TypeOK
  PublishedWhileOpen
  ScopedToTheirNetwork
  NoUseAfterFree
  NothingLeftBehind
  EverythingWithdrawn
  NilIsClean
PROPERTIES
  CancelledReturns
  GoroutinesEnd
\* Both programs end.
CHECK_DEADLOCK FALSE
