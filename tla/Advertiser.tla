----------------------------- MODULE Advertiser -----------------------------
(***************************************************************************)
(* Package mdns: the calls Advertise, AdvertiseScoped and AdvertiseLocal,  *)
(* which start one responder per interface, and Close, which stops them.   *)
(* On macOS ("darwin") a responder is a dns_sd connection to mDNSResponder *)
(* with a goroutine that pumps its replies; elsewhere ("other") it is a    *)
(* hashicorp/mdns server.                                                  *)
(*                                                                         *)
(* One goroutine, the owner, starts and closes; it interleaves with the    *)
(* pumps and with mDNSResponder at every call into the dns_sd library.     *)
(***************************************************************************)
EXTENDS Naturals, SequencesExt

CONSTANTS
  Interfaces,  \* what net.Interfaces returns: a list of interface records
  Addr,        \* IPv4 addresses
  Global,      \* those that are global unicast
  LoopbackIP,  \* those in 127/8
  IPv6Loopback,\* "::1"
  Service,     \* the SRV, TXT and PTR records of _http._tcp
  LocalOnly,   \* mDNSResponder's LocalOnly pseudo-interface
  None,        \* no interface
  Platforms,   \* platforms of this instance
  Faults       \* what may fail in this instance

FaultKinds == {"lookup", "connect", "register", "poll", "restart"}

Iface == {i.name : i \in ToSet(Interfaces)}

Scope == Iface \cup {LocalOnly}

ASSUME AddressAssumption ==
  /\ Global \cup LoopbackIP \subseteq Addr
  /\ Global \cap LoopbackIP = {}
  /\ {IPv6Loopback, Service} \cap Addr = {} /\ IPv6Loopback # Service
  /\ {LocalOnly, None} \cap Iface = {} /\ LocalOnly # None

(***************************************************************************)
(* An address of an interface lies in one of the interface's subnets.      *)
(***************************************************************************)
ASSUME InterfaceAssumption ==
  /\ Interfaces \in Seq(ToSet(Interfaces))
  /\ \A i \in ToSet(Interfaces) : i.ips \subseteq i.subnet /\ i.subnet \subseteq Addr

ASSUME SwitchAssumption ==
  Platforms \subseteq {"darwin", "other"} /\ Faults \subseteq FaultKinds

VARIABLES
  platform,  \* build constraint; no step changes it
  pc,        \* what the owner runs next, "idle" outside a call
  status,    \* how the owner's last call ended
  plan,      \* plan[s]: the addresses to register in scope s
  todo,      \* scopes of the plan without a responder
  cur,       \* the scope whose responder is being started
  left,      \* records still to be registered for it
  closers,   \* adv.closers: scopes with a responder, in order
  conn,      \* conn[s]: the connection (or server) of s
  svc,       \* conn[s]'s service ref
  pump,      \* pump[s]: where the pump goroutine of s is
  stopped,   \* scopes whose stop channel is closed
  daemon,    \* <<scope, record>> pairs being answered on the network
  broken     \* scopes whose connection a daemon restart has cut

controlVars == <<pc, status, plan, todo, cur, left, closers>>
libVars == <<conn, svc, pump, stopped, daemon, broken>>
advVars == <<platform, controlVars, libVars>>

Goto(label) == pc' = label

-----------------------------------------------------------------------------
(* Which addresses go where.                                               *)

(***************************************************************************)
(* isLANCandidate; `virtual` is a name with one of virtualPrefixes.        *)
(***************************************************************************)
IsLANCandidate(i) ==
  i.up /\ ~i.loopback /\ ~i.pointToPoint /\ i.multicast /\ ~i.virtual

\* Mutant: addresses of any kind are taken.
IfaceAnyIPv4s(i) == i.ips

IfaceIPv4s(i) == i.ips \cap Global

(***************************************************************************)
(* Advertise, `only` being opts.Interfaces.                                *)
(***************************************************************************)
AdvertisePlan(only) ==
  LET wanted == {i \in ToSet(Interfaces) :
                   /\ IF only = {} THEN IsLANCandidate(i) ELSE i.name \in only
                   /\ IfaceIPv4s(i) # {}}
  IN [n \in {i.name : i \in wanted} |->
        UNION {IfaceIPv4s(i) : i \in {x \in wanted : x.name = n}}]

(***************************************************************************)
(* lan.InterfaceForIP: the first interface whose subnet contains ip.       *)
(***************************************************************************)
InterfaceForIP(ip) ==
  LET k == SelectInSeq(Interfaces,
                       LAMBDA i : i.up /\ ~i.loopback /\ ip \in i.subnet)
  IN IF k = 0 THEN None ELSE Interfaces[k].name

(***************************************************************************)
(* startScopedLocal and startLocalResponder pair the addresses with ::1.   *)
(***************************************************************************)
LocalPlan(ips) == [s \in {LocalOnly} |-> ips \cup {IPv6Loopback}]

\* Mutant: an address outside every subnet is not noticed.
ScopedPlanUnchecked(ips) ==
  [s \in {InterfaceForIP(ip) : ip \in ips} |->
     {ip \in ips : InterfaceForIP(ip) = s}]

(***************************************************************************)
(* AdvertiseScoped; off macOS startScopedLocal has nothing to start.       *)
(***************************************************************************)
ScopedPlan(ips) ==
  LET lan == {InterfaceForIP(ip) : ip \in ips}
      local == IF platform = "darwin" THEN LocalPlan(ips) ELSE <<>>
  IN IF None \in lan THEN <<>>
     ELSE [s \in lan \cup DOMAIN local |->
             IF s \in lan THEN {ip \in ips : InterfaceForIP(ip) = s}
                          ELSE local[s]]

-----------------------------------------------------------------------------
(* Entering a call.  An empty plan is an error.                            *)

Enter(p) ==
  /\ pc = "idle" /\ status # "open"
  /\ plan' = p
  /\ todo' = DOMAIN p
  /\ closers' = <<>>
  /\ IF p = <<>> THEN status' = "err" /\ UNCHANGED pc
                 ELSE status' = "starting" /\ Goto("build")
  /\ UNCHANGED <<platform, cur, left, libVars>>

Advertise(only) == Enter(AdvertisePlan(only))

AdvertiseScoped(ips) == Enter(ScopedPlan(ips))

(***************************************************************************)
(* Off macOS startLocalResponder is not supported.                         *)
(***************************************************************************)
AdvertiseLocal(ips) ==
  Enter(IF ips # {} /\ ips \subseteq LoopbackIP /\ platform = "darwin"
          THEN LocalPlan(ips) ELSE <<>>)

\* Mutant: a failing responder is just reported.
FailedKeepsOthers == status' = "err" /\ Goto("idle")

(***************************************************************************)
(* A responder failed: the ones already started are closed.                *)
(***************************************************************************)
Failed == status' = "err" /\ Goto("close")

(***************************************************************************)
(* DNSServiceRefDeallocate(ref) withdraws everything registered on ref.    *)
(***************************************************************************)
Deallocate(s) ==
  /\ conn' = [conn EXCEPT ![s] = "freed"]
  /\ daemon' = {r \in daemon : r[1] # s}
  /\ broken' = broken \ {s}

(***************************************************************************)
(* The loop of build, LAN scopes in some order, and then the local one.    *)
(* startResponder looks the interface up first.                            *)
(***************************************************************************)
StartResponder ==
  /\ pc = "build" /\ todo # {}
  /\ \E s \in todo :
       /\ s = LocalOnly => todo = {s}
       /\ \/ cur' = s /\ Goto("connect") /\ UNCHANGED status
          \/ s # LocalOnly /\ "lookup" \in Faults /\ Failed /\ UNCHANGED cur
  /\ UNCHANGED <<platform, plan, todo, left, closers, libVars>>

Built ==
  /\ pc = "build" /\ todo = {}
  /\ status' = "open"
  /\ Goto("idle")
  /\ UNCHANGED <<platform, plan, todo, cur, left, closers, libVars>>

(***************************************************************************)
(* register: DNSServiceCreateConnection ...                                *)
(***************************************************************************)
CreateConnection ==
  /\ pc = "connect" /\ platform = "darwin"
  /\ \/ /\ conn' = [conn EXCEPT ![cur] = "open"]
        /\ svc' = [svc EXCEPT ![cur] = "none"]
        /\ pump' = [pump EXCEPT ![cur] = "none"]
        /\ stopped' = stopped \ {cur}
        /\ left' = plan[cur]
        /\ Goto("record")
        /\ UNCHANGED status
     \/ "connect" \in Faults /\ Failed /\ UNCHANGED <<conn, svc, pump, stopped, left>>
  /\ UNCHANGED <<platform, plan, todo, cur, closers, daemon, broken>>

\* Mutant: one address per interface is enough.
FirstRecordOnly ==
  /\ pc = "record"
  /\ \E r \in left : daemon' = daemon \cup {<<cur, r>>}
  /\ left' = {}
  /\ UNCHANGED <<platform, plan, todo, cur, closers, conn, broken, pc, status>>
  /\ UNCHANGED <<svc, pump, stopped>>

\* Mutant: the connection of the failing record is not deallocated.
RegisterRecordLeaks ==
  /\ pc = "record" /\ left # {}
  /\ \/ \E r \in left :
          /\ cur \notin broken
          /\ daemon' = daemon \cup {<<cur, r>>}
          /\ left' = left \ {r}
          /\ UNCHANGED <<pc, status, conn, broken>>
     \/ Failed /\ UNCHANGED <<left, conn, daemon, broken>>
  /\ UNCHANGED <<platform, plan, todo, cur, closers, svc, pump, stopped>>

(***************************************************************************)
(* ... DNSServiceRegisterRecord for each A and AAAA record ...             *)
(***************************************************************************)
RegisterRecord ==
  /\ pc = "record" /\ left # {}
  /\ \/ \E r \in left :
          /\ cur \notin broken
          /\ daemon' = daemon \cup {<<cur, r>>}
          /\ left' = left \ {r}
          /\ UNCHANGED <<pc, status, conn, broken>>
     \/ /\ cur \in broken \/ "register" \in Faults
        /\ Deallocate(cur)
        /\ Failed
        /\ UNCHANGED left
  /\ UNCHANGED <<platform, plan, todo, cur, closers, svc, pump, stopped>>

(***************************************************************************)
(* ... DNSServiceRegister for the service, on the same connection; then    *)
(* the pump is started and the closer handed to the Advertiser.            *)
(***************************************************************************)
RegisterService ==
  /\ pc = "record" /\ left = {}
  /\ \/ /\ cur \notin broken
        /\ daemon' = daemon \cup {<<cur, Service>>}
        /\ svc' = [svc EXCEPT ![cur] = "open"]
        /\ pump' = [pump EXCEPT ![cur] = "select"]
        /\ closers' = Append(closers, cur)
        /\ todo' = todo \ {cur}
        /\ Goto("build")
        /\ UNCHANGED <<status, conn, broken>>
     \/ /\ cur \in broken \/ "register" \in Faults
        /\ Deallocate(cur)
        /\ Failed
        /\ UNCHANGED <<svc, pump, closers, todo>>
  /\ UNCHANGED <<platform, plan, cur, left, stopped>>

(***************************************************************************)
(* startResponder off macOS: NewMDNSService and NewServer.                 *)
(***************************************************************************)
StartServer ==
  /\ pc = "connect" /\ platform = "other"
  /\ \/ /\ conn' = [conn EXCEPT ![cur] = "open"]
        /\ daemon' = daemon \cup {<<cur, r>> : r \in plan[cur] \cup {Service}}
        /\ closers' = Append(closers, cur)
        /\ todo' = todo \ {cur}
        /\ Goto("build")
        /\ UNCHANGED status
     \/ "connect" \in Faults /\ Failed /\ UNCHANGED <<conn, daemon, closers, todo>>
  /\ UNCHANGED <<platform, plan, cur, left, svc, pump, stopped, broken>>

-----------------------------------------------------------------------------
(* Close: the closers one after the other, the owner waiting for each.     *)

Close ==
  /\ pc = "idle" /\ status = "open"
  /\ status' = "closed"
  /\ Goto("close")
  /\ UNCHANGED <<platform, plan, todo, cur, left, closers, libVars>>

CloseNext ==
  /\ pc = "close"
  /\ \/ /\ closers = <<>>
        /\ Goto("idle")
        /\ UNCHANGED <<closers, libVars>>
     \/ /\ closers # <<>> /\ platform = "darwin"
        /\ stopped' = stopped \cup {Head(closers)}
        /\ Goto("wait")
        /\ UNCHANGED <<closers, conn, svc, pump, daemon, broken>>
     \/ /\ closers # <<>> /\ platform = "other"    \* Shutdown of the server
        /\ Deallocate(Head(closers))
        /\ closers' = Tail(closers)
        /\ UNCHANGED <<pc, svc, pump, stopped>>
  /\ UNCHANGED <<platform, status, plan, todo, cur, left>>

\* Mutant: the closer does not wait for the pump.
DontWaitForPump ==
  /\ pc = "wait"
  /\ Goto("service")
  /\ UNCHANGED <<platform, status, plan, todo, cur, left, closers, libVars>>

(***************************************************************************)
(* wg.Wait() ...                                                           *)
(***************************************************************************)
WaitForPump ==
  /\ pc = "wait"
  /\ pump[Head(closers)] = "done"
  /\ Goto("service")
  /\ UNCHANGED <<platform, status, plan, todo, cur, left, closers, libVars>>

(***************************************************************************)
(* ... DNSServiceRefDeallocate(svcRef) ...                                 *)
(***************************************************************************)
DeallocateService ==
  /\ pc = "service"
  /\ svc' = [svc EXCEPT ![Head(closers)] = "freed"]
  /\ daemon' = daemon \ {<<Head(closers), Service>>}
  /\ Goto("connection")
  /\ UNCHANGED <<platform, status, plan, todo, cur, left, closers>>
  /\ UNCHANGED <<conn, pump, stopped, broken>>

(***************************************************************************)
(* ... and the connection it rode on.                                      *)
(***************************************************************************)
DeallocateConnection ==
  /\ pc = "connection"
  /\ Deallocate(Head(closers))
  /\ closers' = Tail(closers)
  /\ Goto("close")
  /\ UNCHANGED <<platform, status, plan, todo, cur, left, svc, pump, stopped>>

-----------------------------------------------------------------------------
(* The pump goroutine of a connection.                                     *)

PumpTo(s, label) ==
  /\ pump' = [pump EXCEPT ![s] = label]
  /\ UNCHANGED <<platform, controlVars, conn, svc, stopped, daemon, broken>>

PumpSelect(s) ==
  /\ pump[s] = "select"
  /\ PumpTo(s, IF s \in stopped THEN "done" ELSE "poll")

(***************************************************************************)
(* unix.Poll(fds, 500): it times out (or is interrupted), or the daemon    *)
(* has replied, or the connection is cut, which makes it readable for      *)
(* good, or it fails.                                                      *)
(***************************************************************************)
PumpPoll(s) ==
  /\ pump[s] = "poll"
  /\ \/ s \notin broken /\ PumpTo(s, "select")
     \/ PumpTo(s, "process")
     \/ "poll" \in Faults /\ PumpTo(s, "done")

(***************************************************************************)
(* DNSServiceProcessResult(ref); its error is ignored.                     *)
(***************************************************************************)
PumpProcess(s) == pump[s] = "process" /\ PumpTo(s, "select")

(***************************************************************************)
(* mDNSResponder restarts: it forgets every registration, and connections  *)
(* to it are cut.                                                          *)
(***************************************************************************)
DaemonRestart ==
  /\ "restart" \in Faults /\ platform = "darwin"
  /\ daemon # {}
  /\ daemon' = {}
  /\ broken' = {s \in Scope : conn[s] = "open"}
  /\ UNCHANGED <<platform, controlVars, conn, svc, pump, stopped>>

-----------------------------------------------------------------------------

AdvertiserInit ==
  /\ platform \in Platforms
  /\ pc = "idle" /\ status = "none"
  /\ plan = <<>> /\ todo = {} /\ cur = None /\ left = {} /\ closers = <<>>
  /\ conn = [s \in Scope |-> "none"]
  /\ svc = [s \in Scope |-> "none"]
  /\ pump = [s \in Scope |-> "none"]
  /\ stopped = {} /\ daemon = {} /\ broken = {}

OwnerStep ==
  \/ StartResponder \/ Built \/ CreateConnection \/ RegisterRecord
  \/ RegisterService \/ StartServer
  \/ CloseNext \/ WaitForPump \/ DeallocateService \/ DeallocateConnection

PumpStep(s) == PumpSelect(s) \/ PumpPoll(s) \/ PumpProcess(s)

=============================================================================
