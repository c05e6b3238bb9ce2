------------------------------- MODULE Serve -------------------------------
(***************************************************************************)
(* The two programs that own an Advertiser: dotlocal.Run (dotlocal.go),    *)
(* which serves HTTP beside it, and the advertising half of keep           *)
(* (cmd/dotlocal/main.go).  The main goroutine is the owner of Advertiser; *)
(* Run adds the goroutine that runs http.Server.Serve, the connections,    *)
(* and the grace timer of the shutdown.                                    *)
(***************************************************************************)
EXTENDS Advertiser

CONSTANTS
  Programs,   \* programs of this instance
  Conn,       \* HTTP connections; their number bounds the clients
  Only,       \* values of Config.Interfaces
  ScopedIPs,  \* sets of alias IPs keep is given without --local
  LocalIPs    \* ... and with it

ASSUME ProgramAssumption == Programs \subseteq {"Run", "keep"}

(***************************************************************************)
(* bindingFlags.options: a loopback address and --local go together.       *)
(***************************************************************************)
ASSUME ScopeAssumption == \A ips \in ScopedIPs : ips \cap LoopbackIP = {}

VARIABLES
  prog,       \* the program; no step changes it
  main,       \* where its main goroutine is
  ctx,        \* Run's context is cancelled, keep has got a SIGTERM
  ln,         \* the listener
  serve,      \* the goroutine `serveErr <- srv.Serve(ln)`
  serveErr,   \* what is in that channel
  shutdown,   \* http.Server.inShutdown
  grace,      \* the shutdown grace has run out
  http,       \* http[c]: state of connection c
  result      \* what the program returned

runVars == <<main, ctx, ln, serve, serveErr, shutdown, grace, http, result>>
vars == <<advVars, prog, runVars>>

To(label) == main' = label

Return(r) == result' = r /\ To(IF status = "open" THEN "defers" ELSE "unlisten")

-----------------------------------------------------------------------------
(* Starting.                                                               *)

(***************************************************************************)
(* Run checks its Config and binds before it does anything else.           *)
(***************************************************************************)
Listen ==
  /\ prog = "Run" /\ main = "start"
  /\ \/ ln' = "open" /\ To("advertise") /\ UNCHANGED result
     \/ result' = "bind" /\ To("done") /\ UNCHANGED ln
  /\ UNCHANGED <<advVars, prog, ctx, serve, serveErr, shutdown, grace, http>>

(***************************************************************************)
(* Run advertises if Config.Advertise is set, keep always does.            *)
(***************************************************************************)
StartAdvertising ==
  /\ \/ /\ prog = "Run" /\ main = "advertise"
        /\ \E only \in Only : Advertise(only)
     \/ /\ prog = "keep" /\ main = "start"
        /\ \/ \E ips \in ScopedIPs : AdvertiseScoped(ips)
           \/ \E ips \in LocalIPs : AdvertiseLocal(ips)
  /\ To("advertising")
  /\ UNCHANGED <<prog, ctx, ln, serve, serveErr, shutdown, grace, http, result>>

DontAdvertise ==
  /\ prog = "Run" /\ main = "advertise"
  /\ To("ready")
  /\ UNCHANGED <<advVars, prog, ctx, ln, serve, serveErr, shutdown, grace, http, result>>

(***************************************************************************)
(* Run goes on without an Advertiser when that failed, keep gives up.      *)
(***************************************************************************)
Advertised ==
  /\ main = "advertising" /\ pc = "idle"
  /\ IF prog = "keep" /\ status = "err"
       THEN result' = "err" /\ To("done")
       ELSE To("ready") /\ UNCHANGED result
  /\ UNCHANGED <<advVars, prog, ctx, ln, serve, serveErr, shutdown, grace, http>>

(***************************************************************************)
(* OnReady, then `go func() { serveErr <- srv.Serve(ln) }()`.              *)
(***************************************************************************)
Ready ==
  /\ prog = "Run" /\ main = "ready"
  /\ serve' = "spawned"
  /\ To("select")
  /\ UNCHANGED <<advVars, prog, ctx, ln, serveErr, shutdown, grace, http, result>>

-----------------------------------------------------------------------------
(* Serving.                                                                *)

SetHTTP(c, s) ==
  /\ http' = [http EXCEPT ![c] = s]
  /\ UNCHANGED <<advVars, prog, main, ctx, ln, serve, serveErr, shutdown, grace, result>>

(***************************************************************************)
(* Serve closes its listener and returns; the channel has room for the     *)
(* one error sent.                                                         *)
(***************************************************************************)
ServeEnds(e) ==
  /\ serve' = "done"
  /\ serveErr' = e
  /\ ln' = "closed"

(***************************************************************************)
(* http.Server.Serve accepts until the listener is closed (or Accept fails *)
(* for another reason); on a server that is shut down already it returns   *)
(* at once.                                                                *)
(***************************************************************************)
ServeStep ==
  /\ \/ /\ serve = "spawned" /\ ~shutdown
        /\ serve' = "accept"
        /\ UNCHANGED <<ln, serveErr>>
     \/ serve \in {"spawned", "accept"} /\ shutdown /\ ServeEnds("closed")
     \/ serve = "accept" /\ ~shutdown /\ ln = "closed" /\ ServeEnds("failed")
  /\ UNCHANGED <<advVars, prog, main, ctx, shutdown, grace, http, result>>

AcceptFails ==
  /\ serve = "accept" /\ ~shutdown /\ ServeEnds("failed")
  /\ UNCHANGED <<advVars, prog, main, ctx, shutdown, grace, http, result>>

(***************************************************************************)
(* Clients: a request on a new or an idle connection; its end; and an idle *)
(* connection dropped.  After Shutdown no connection is kept alive.        *)
(***************************************************************************)
Request(c) ==
  /\ \/ http[c] \in {"none", "closed"} /\ serve = "accept" /\ ln = "open"
     \/ http[c] = "idle"
  /\ SetHTTP(c, "active")

Respond(c) ==
  /\ http[c] = "active"
  /\ \/ SetHTTP(c, "closed")
     \/ ~shutdown /\ SetHTTP(c, "idle")

Drop(c) == http[c] = "idle" /\ SetHTTP(c, "closed")

-----------------------------------------------------------------------------
(* Stopping.                                                               *)

(***************************************************************************)
(* Run's context is cancelled at any time; keep catches a SIGTERM after    *)
(* its signal.Notify only.                                                 *)
(***************************************************************************)
Cancel ==
  /\ ~ctx /\ ctx' = TRUE
  /\ prog = "keep" => main = "ready"
  /\ UNCHANGED <<advVars, prog, main, ln, serve, serveErr, shutdown, grace, http, result>>

(***************************************************************************)
(* A SIGTERM before that ends the process; the kernel closes its sockets.  *)
(***************************************************************************)
KilledEarly ==
  /\ prog = "keep" /\ main = "advertising"
  /\ result' = "killed" /\ To("done")
  /\ pc' = "idle" /\ status' = "none"
  /\ conn' = [s \in Scope |-> "none"]
  /\ svc' = [s \in Scope |-> "none"]
  /\ pump' = [s \in Scope |-> "none"]
  /\ daemon' = {} /\ stopped' = {} /\ broken' = {} /\ closers' = <<>>
  /\ UNCHANGED <<platform, plan, todo, cur, left>>
  /\ UNCHANGED <<prog, ctx, ln, serve, serveErr, shutdown, grace, http>>

(***************************************************************************)
(* The select of Run and the loop of keep.                                 *)
(***************************************************************************)
Select ==
  /\ \/ /\ prog = "Run" /\ main = "select"
        /\ serveErr # "empty"
        /\ serveErr' = "empty"
        /\ Return("err")
        /\ UNCHANGED <<shutdown, ln>>
     \/ /\ prog = "Run" /\ main = "select" /\ ctx
        /\ shutdown' = TRUE
        /\ ln' = IF serve = "accept" THEN "closed" ELSE ln
        /\ To("drain")
        /\ UNCHANGED <<serveErr, result>>
     \/ /\ prog = "keep" /\ main = "ready" /\ ctx
        /\ Return("nil")
        /\ UNCHANGED <<serveErr, shutdown, ln>>
  /\ UNCHANGED <<advVars, prog, ctx, serve, grace, http>>

(***************************************************************************)
(* 15 seconds after Shutdown began.                                        *)
(***************************************************************************)
GraceExpires ==
  /\ main = "drain" /\ ~grace
  /\ grace' = TRUE
  /\ UNCHANGED <<advVars, prog, main, ctx, ln, serve, serveErr, shutdown, http, result>>

\* Mutant: an error of Shutdown is dropped.
DrainIgnoringTimeout ==
  /\ main = "drain"
  /\ serve # "accept"
  /\ http' = [c \in Conn |-> IF http[c] = "idle" THEN "closed" ELSE http[c]]
  /\ grace \/ \A c \in Conn : http[c] # "active"
  /\ To("await")
  /\ UNCHANGED <<advVars, prog, ctx, ln, serve, serveErr, shutdown, grace, result>>

\* Mutant: Shutdown is given a context without a timeout.
DrainWithoutGrace ==
  /\ main = "drain"
  /\ serve # "accept"
  /\ http' = [c \in Conn |-> IF http[c] = "idle" THEN "closed" ELSE http[c]]
  /\ \A c \in Conn : http[c] # "active"
  /\ To("await")
  /\ UNCHANGED <<advVars, prog, ctx, ln, serve, serveErr, shutdown, grace, result>>

(***************************************************************************)
(* Shutdown waits for Serve to stop accepting, closes idle connections     *)
(* again and again, and returns when no request is in flight or its        *)
(* context is over; Run returns that error.                                *)
(***************************************************************************)
Drain ==
  /\ main = "drain"
  /\ serve # "accept"
  /\ http' = [c \in Conn |-> IF http[c] = "idle" THEN "closed" ELSE http[c]]
  /\ \/ /\ \A c \in Conn : http[c] # "active"
        /\ To("await")
        /\ UNCHANGED result
     \/ /\ grace /\ \E c \in Conn : http[c] = "active"
        /\ Return("timeout")
  /\ UNCHANGED <<advVars, prog, ctx, ln, serve, serveErr, shutdown, grace>>

(***************************************************************************)
(* err := <-serveErr                                                       *)
(***************************************************************************)
AwaitServe ==
  /\ main = "await" /\ serveErr # "empty"
  /\ serveErr' = "empty"
  /\ Return(IF serveErr = "closed" THEN "nil" ELSE "err")
  /\ UNCHANGED <<advVars, prog, ctx, ln, serve, shutdown, grace, http>>

\* Mutant: Run returns a Serve error without withdrawing the name.
SkipCloseOnError ==
  /\ main = "defers"
  /\ IF result = "err"
       THEN To("unlisten") /\ UNCHANGED advVars
       ELSE Close /\ To("closing")
  /\ UNCHANGED <<prog, ctx, ln, serve, serveErr, shutdown, grace, http, result>>

(***************************************************************************)
(* defer adv.Close() ...                                                   *)
(***************************************************************************)
DeferredClose ==
  /\ main = "defers"
  /\ Close
  /\ To("closing")
  /\ UNCHANGED <<prog, ctx, ln, serve, serveErr, shutdown, grace, http, result>>

Closed ==
  /\ main = "closing" /\ pc = "idle"
  /\ To("unlisten")
  /\ UNCHANGED <<advVars, prog, ctx, ln, serve, serveErr, shutdown, grace, http, result>>

(***************************************************************************)
(* ... and defer ln.Close().                                               *)
(***************************************************************************)
Unlisten ==
  /\ main = "unlisten"
  /\ ln' = IF ln = "open" THEN "closed" ELSE ln
  /\ To("done")
  /\ UNCHANGED <<advVars, prog, ctx, serve, serveErr, shutdown, grace, http, result>>

-----------------------------------------------------------------------------

Init ==
  /\ AdvertiserInit
  /\ prog \in Programs /\ main = "start" /\ ctx = FALSE
  /\ ln = "none" /\ serve = "none" /\ serveErr = "empty"
  /\ shutdown = FALSE /\ grace = FALSE
  /\ http = [c \in Conn |-> "none"]
  /\ result = "none"

(***************************************************************************)
(* The main goroutine, inside a call of package mdns or outside.           *)
(***************************************************************************)
MainStep ==
  \/ Listen \/ StartAdvertising \/ DontAdvertise \/ Advertised \/ Ready
  \/ Select \/ Drain \/ AwaitServe \/ DeferredClose \/ Closed \/ Unlisten
  \/ OwnerStep /\ UNCHANGED <<prog, runVars>>

Next ==
  \/ MainStep
  \/ ServeStep \/ AcceptFails
  \/ \E s \in Scope : PumpStep(s) /\ UNCHANGED <<prog, runVars>>
  \/ \E c \in Conn : Request(c) \/ Respond(c) \/ Drop(c)
  \/ Cancel \/ KilledEarly \/ GraceExpires
  \/ DaemonRestart /\ UNCHANGED <<prog, runVars>>

(***************************************************************************)
(* The Go scheduler runs every goroutine that can run, timers fire, and    *)
(* system calls, OnReady and dns_sd calls return.  Nothing is assumed of   *)
(* clients, handlers, the daemon or whoever cancels.                       *)
(***************************************************************************)
Fairness ==
  /\ WF_vars(MainStep)
  /\ WF_vars(ServeStep)
  /\ WF_vars(GraceExpires)
  /\ \A s \in Scope : WF_vars(PumpStep(s) /\ UNCHANGED <<prog, runVars>>)

Spec == Init /\ [][Next]_vars /\ Fairness

=============================================================================
