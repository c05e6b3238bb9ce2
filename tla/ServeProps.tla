----------------------------- MODULE ServeProps -----------------------------
(***************************************************************************)
(* What advertising and serving promise.                                   *)
(***************************************************************************)
EXTENDS Serve

Labels ==
  {"idle", "build", "connect", "record", "close", "wait", "service", "connection"}

(***************************************************************************)
(* The type invariant of Advertiser and Serve.                             *)
(***************************************************************************)
TypeOK ==
  /\ pc \in Labels
  /\ status \in {"none", "starting", "open", "err", "closed"}
  /\ DOMAIN plan \subseteq Scope /\ todo \subseteq DOMAIN plan
  /\ cur \in Scope \cup {None} /\ ToSet(closers) \subseteq Scope
  /\ conn \in [Scope -> {"none", "open", "freed"}]
  /\ svc \in [Scope -> {"none", "open", "freed"}]
  /\ pump \in [Scope -> {"none", "select", "poll", "process", "done"}]
  /\ daemon \subseteq Scope \X (Addr \cup {IPv6Loopback, Service})
  /\ stopped \cup broken \subseteq Scope
  /\ ln \in {"none", "open", "closed"}
  /\ serve \in {"none", "spawned", "accept", "done"}
  /\ serveErr \in {"empty", "closed", "failed"}
  /\ http \in [Conn -> {"none", "active", "idle", "closed"}]
  /\ result \in {"none", "bind", "err", "killed", "timeout", "nil"}

-----------------------------------------------------------------------------
(* The registrations.                                                      *)

(***************************************************************************)
(* "Advertiser publishes <name>.local until Close": while it is open every *)
(* address of the plan and the service are answered on their interface,    *)
(* and nothing else is - unless mDNSResponder restarts, which no code      *)
(* notices.                                                                *)
(***************************************************************************)
PublishedWhileOpen ==
  status = "open" /\ broken = {} =>
     daemon = UNION {{s} \X (plan[s] \cup {Service}) : s \in DOMAIN plan}

(***************************************************************************)
(* Scoping: an interface answers with addresses of its own subnets only,   *)
(* and neither 127/8 nor ::1 is ever on a network.                         *)
(***************************************************************************)
ScopedToTheirNetwork ==
  \A s \in Iface, r \in Addr \cup {IPv6Loopback} :
     <<s, r>> \in daemon =>
        /\ r \notin LoopbackIP \cup {IPv6Loopback}
        /\ \E i \in ToSet(Interfaces) : i.name = s /\ r \in i.subnet

(***************************************************************************)
(* register's comment: the ref "is never touched concurrently".  A pump    *)
(* inside DNSServiceProcessResult has its connection and the service on it *)
(* still allocated, whatever the owner is doing; and a service ref never   *)
(* outlives the connection it rides on.                                    *)
(***************************************************************************)
NoUseAfterFree ==
  \A s \in Scope :
     /\ pump[s] = "process" => conn[s] = "open" /\ svc[s] = "open"
     /\ conn[s] = "freed" => svc[s] # "open"

(***************************************************************************)
(* A failed start or a Close leaves nothing behind: no record answered, no *)
(* connection open, no pump running.                                       *)
(***************************************************************************)
NothingLeftBehind ==
  pc = "idle" /\ status \in {"err", "closed"} =>
     /\ daemon = {}
     /\ \A s \in Scope : conn[s] # "open" /\ pump[s] \in {"none", "done"}

-----------------------------------------------------------------------------
(* The programs.                                                           *)

(***************************************************************************)
(* However Run or keep ends, the port is not listened on and the name is   *)
(* not advertised any more; after a failed bind it never was.              *)
(***************************************************************************)
EverythingWithdrawn ==
  main = "done" =>
     /\ ln # "open" /\ daemon = {}
     /\ \A s \in Scope : conn[s] # "open"
     /\ result = "bind" => status = "none"

(***************************************************************************)
(* Run "returns nil on a clean shutdown": nil means that it was cancelled, *)
(* that no request was cut off or is still running, and that the serving   *)
(* goroutine has ended - also when Shutdown came before Serve.             *)
(***************************************************************************)
NilIsClean ==
  prog = "Run" /\ result = "nil" =>
     ctx /\ serve = "done" /\ \A c \in Conn : http[c] \in {"none", "closed"}

(***************************************************************************)
(* A cancelled Run and a signalled keep return, although requests may last *)
(* for ever and mDNSResponder may have gone away: the pumps stop and the   *)
(* grace ends the wait.                                                    *)
(***************************************************************************)
CancelledReturns == ctx ~> main = "done"

(***************************************************************************)
(* What Run and the advertiser have started themselves ends: the goroutine *)
(* that serves, and the pump of every registration.  (The connections and  *)
(* handlers of http.Server are not among these: Run does not close what    *)
(* Shutdown leaves open, and a request that is still running when the      *)
(* grace is over outlives it.)                                             *)
(***************************************************************************)
GoroutinesEnd ==
  main = "done" ~> /\ serve \in {"none", "done"}
                   /\ \A s \in Scope : pump[s] \in {"none", "done"}

=============================================================================
