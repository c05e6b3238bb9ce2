-------------------------------- MODULE Keep --------------------------------
(***************************************************************************)
(* `dotlocal keep` under its service manager (cmd/dotlocal: main.go,       *)
(* service_darwin.go, service_linux.go).  The keeper converges a binding   *)
(* to its flags and heals it on a timer; launchd or systemd restarts it;   *)
(* an administrator runs up, down, service install and service uninstall,  *)
(* one at a time, beside it.  Package port80 is Binding: the calls of the  *)
(* two overlap as they may.                                                *)
(***************************************************************************)
EXTENDS Binding, Naturals, SequencesExt

CONSTANTS
  Flags,      \* what a command may ask for: the ports as given, the target
  Platforms,  \* service managers: launchd is "darwin", systemd is "linux"
  Commands,   \* the administrator's commands in this instance
  Local,      \* whether the keeper is to advertise locally only (--local)
  MaxCommands, MaxUpsets,
  NoUnit      \* no service definition

ASSUME ProcAssumption == Proc = {"keeper", "admin"}

ASSUME BoundAssumption == MaxCommands \in Nat /\ MaxUpsets \in Nat

ASSUME FlagsAssumption ==
  /\ Flags # {}
  /\ \A f \in Flags : DOMAIN f = {"ports", "to"} /\ f.ports # <<>>
  /\ NoUnit \notin Flags

ASSUME LocalAssumption == Local \subseteq BOOLEAN

ASSUME CommandsAssumption == Commands \subseteq {"up", "down", "install", "uninstall"}

VARIABLES
  platform,
  advertises, \* FALSE: --local on Linux, where AdvertiseLocal has no backend
  unit,      \* the flags in the plist or unit file
  loaded,    \* the flags the service manager has read
  active,    \* it keeps the keeper running
  enabled,   \* systemd starts it at boot
  kpc,       \* where the keeper is, "none" if there is no process
  kflags,    \* its flags
  term,      \* a SIGTERM waits in its channel
  cmd,       \* the administrator's command: cmd.at is its result at the end,
             \* cmd.stopped (history) says that no stop of the service failed
  cmds,      \* commands it may still give
  upsets     \* misfortunes that may still happen

serviceVars == <<platform, advertises, unit, loaded, active, enabled>>
keeperVars == <<kpc, kflags, term>>
boundVars == <<cmds, upsets>>
vars == <<bindingVars, serviceVars, keeperVars, cmd, boundVars>>

-----------------------------------------------------------------------------
(* Flags and records.  All options of a name have the same aliases.        *)

(***************************************************************************)
(* Ports are de-duplicated, keeping their order.                           *)
(***************************************************************************)
ApplyDefaults(f) ==
  LET Add(seen, p) == IF Contains(seen, p) THEN seen ELSE Append(seen, p)
  IN [f EXCEPT !.ports = FoldLeft(Add, <<>>, @)]

ASSUME OptionAssumption == \A f \in Flags : ApplyDefaults(f) \in Option

\* Mutant: only the target port is compared.
SameTarget(a, b) == a.to = b.to

(***************************************************************************)
(* normPorts sorts the ports and does not remove duplicates.               *)
(***************************************************************************)
SameBinding(a, b) == a.to = b.to /\ ToBag(a.ports) = ToBag(b.ports)

-----------------------------------------------------------------------------
(* Misfortune.                                                             *)

Upset == upsets > 0 /\ upsets' = upsets - 1

(***************************************************************************)
(* The result r of p's call needs no command that fails by itself: another *)
(* call or outside interference got in between, or the machine was left    *)
(* half-done, which `ip addr add` and `nft delete table` report as errors. *)
(* The SIGTERM of systemd also ends the commands of a call.                *)
(***************************************************************************)
Expected(p, r) ==
  \/ job[p].mixed \/ job[p].touched
  \/ Refusal(p) # "none"
  \/ platform = "linux" /\ p = "keeper" /\ term
  \/ /\ (rec' = Torn => rec = Torn)
     /\ (job[p].op = "down" => rec' = NoRecord)
     /\ \/ r # "err"
        \/ job[p].op = "verify" /\ host # "inforce"
        \/ platform = "linux" /\ job[p].op \in {"up", "down"} /\ host = "damaged"

Ends(p, r) ==
  /\ End(p, r)
  /\ IF Expected(p, r) THEN UNCHANGED upsets ELSE Upset

-----------------------------------------------------------------------------
(* The keeper: cmdKeep.                                                    *)

Goto(label) == kpc' = label /\ UNCHANGED <<kflags, term>>

Exit == kpc' = "none" /\ term' = FALSE /\ UNCHANGED kflags

(***************************************************************************)
(* The service manager starts the process, at boot and whenever it ended   *)
(* (KeepAlive, Restart=always).                                            *)
(***************************************************************************)
Launch ==
  /\ kpc' = "status"
  /\ kflags' = loaded
  /\ term' = FALSE

Start ==
  /\ active /\ kpc = "none" /\ cmd.at # "restarted"
  /\ Launch
  /\ UNCHANGED <<bindingVars, serviceVars, cmd, boundVars>>

(***************************************************************************)
(* port80.Status, and the choice of what to do about it.                   *)
(***************************************************************************)
Status ==
  /\ kpc = "status"
  /\ \/ rec = NoRecord /\ Goto("up")
     \/ rec = Torn /\ Exit
     \/ rec \in Option /\ SameBinding(rec, kflags) /\ Goto("reassert")
     \/ rec \in Option /\ ~SameBinding(rec, kflags) /\ Goto("down")
  /\ UNCHANGED <<bindingVars, boundVars>>

(***************************************************************************)
(* The calls it makes: to converge at the start, on the timer's tick, and  *)
(* to heal after a Verify that failed.                                     *)
(***************************************************************************)
KeeperBegins ==
  /\ kpc \in {"up", "reassert", "down", "loop", "heal"}
  /\ LET op == CASE kpc = "loop" -> "verify" [] kpc = "heal" -> "reassert"
                 [] OTHER -> kpc
     IN Begin("keeper", op, IF op = "up" THEN ApplyDefaults(kflags) ELSE NoRecord)
  /\ Goto(CASE kpc = "loop" -> "verifying" [] kpc = "heal" -> "healing"
            [] kpc = "down" -> "replacing" [] OTHER -> "converging")
  /\ UNCHANGED boundVars

\* Mutant: a failed Verify is only logged.
AfterCallIgnoringVerify(r) ==
  \/ kpc = "converging" /\ r = "ok" /\ Goto("advertise")
  \/ kpc = "converging" /\ r # "ok" /\ Exit
  \/ kpc = "replacing" /\ Goto("up")
  \/ kpc \in {"verifying", "healing"} /\ Goto("loop")

(***************************************************************************)
(* A failed teardown does not stop the replacement, a failed Reassert does *)
(* not end the loop; everything else that fails at the start is fatal.     *)
(***************************************************************************)
AfterCall(r) ==
  \/ kpc = "converging" /\ r = "ok" /\ Goto("advertise")
  \/ kpc = "converging" /\ r # "ok" /\ Exit
  \/ kpc = "replacing" /\ Goto("up")
  \/ kpc = "verifying" /\ r = "ok" /\ Goto("loop")
  \/ kpc = "verifying" /\ r # "ok" /\ Goto("heal")
  \/ kpc = "healing" /\ Goto("loop")

KeeperEnds ==
  /\ \E r \in Results : Ends("keeper", r) /\ AfterCall(r)
  /\ UNCHANGED cmds

(***************************************************************************)
(* The registration (module Serve); then signal.Notify and the ticker.     *)
(* Where AdvertiseLocal is not supported the keeper ends at every start.   *)
(***************************************************************************)
Advertise ==
  /\ kpc = "advertise"
  /\ IF advertises THEN Goto("loop") ELSE Exit
  /\ UNCHANGED <<bindingVars, boundVars>>

(***************************************************************************)
(* SIGTERM: "Leave the binding in place".                                  *)
(***************************************************************************)
Stopped ==
  /\ kpc = "loop" /\ term
  /\ Exit
  /\ UNCHANGED <<bindingVars, boundVars>>

Keeper ==
  /\ Status \/ KeeperBegins \/ KeeperEnds \/ Advertise \/ Stopped
  /\ UNCHANGED <<serviceVars, cmd>>

(***************************************************************************)
(* The process ends where it is.                                           *)
(***************************************************************************)
Die ==
  /\ Exit
  /\ IF Busy("keeper") THEN Kill("keeper") ELSE UNCHANGED bindingVars

\* Mutant: a signal that finds the keeper busy is dropped.
SignalDropped ==
  \/ kpc \in {"none", "verifying", "heal", "healing"}
     /\ UNCHANGED <<keeperVars, bindingVars>>
  \/ kpc = "loop" /\ term' = TRUE /\ UNCHANGED <<kpc, kflags, bindingVars>>
  \/ /\ kpc \in {"status", "up", "reassert", "down", "converging", "replacing",
                 "advertise"}
     /\ Die

(***************************************************************************)
(* A SIGTERM from the service manager.  Before signal.Notify it is fatal;  *)
(* afterwards the call that runs is finished first.                        *)
(***************************************************************************)
Signal ==
  \/ kpc = "none" /\ UNCHANGED <<keeperVars, bindingVars>>
  \/ /\ kpc \in {"loop", "verifying", "heal", "healing"}
     /\ term' = TRUE
     /\ UNCHANGED <<kpc, kflags, bindingVars>>
  \/ /\ kpc \in {"status", "up", "reassert", "down", "converging", "replacing",
                 "advertise"}
     /\ Die

-----------------------------------------------------------------------------
(* The administrator: cmdUp, cmdDown, serviceInstall, serviceUninstall.    *)

Final == {"ok", "err", "killed"}

AtRest == cmd.at \in Final

Then(label) == cmd' = [cmd EXCEPT !.at = label]

\* Mutant: uninstall does not stop the service.
FirstWithoutStop(name) ==
  CASE name = "install" -> "write" [] name = "uninstall" -> "remove" [] OTHER -> name

\* Mutant: install does not write the definition.
FirstWithoutWrite(name) ==
  CASE name = "install" -> IF platform = "darwin" THEN "stop" ELSE "reload"
    [] name = "uninstall" -> "stop" [] OTHER -> name

First(name) ==
  CASE name = "install" -> "write" [] name = "uninstall" -> "stop" [] OTHER -> name

Issue ==
  /\ AtRest /\ cmds > 0
  /\ cmds' = cmds - 1
  /\ \E name \in Commands :
       \E f \in IF name \in {"up", "install"} THEN Flags ELSE {cmd.flags} :
          cmd' = [name |-> name, flags |-> f, at |-> First(name), stopped |-> TRUE]
  /\ UNCHANGED <<bindingVars, serviceVars, keeperVars, upsets>>

AdminBegins ==
  /\ cmd.at \in {"up", "down"}
  /\ Begin("admin", cmd.at,
           IF cmd.at = "up" THEN ApplyDefaults(cmd.flags) ELSE NoRecord)
  /\ Then("calling")
  /\ UNCHANGED <<serviceVars, keeperVars, boundVars>>

(***************************************************************************)
(* uninstall tolerates ErrNoBinding.                                       *)
(***************************************************************************)
AdminEnds ==
  /\ cmd.at = "calling"
  /\ \E r \in Results :
       /\ Ends("admin", r)
       /\ Then(IF r = "ok" \/ (r = "nobinding" /\ cmd.name = "uninstall")
                 THEN "ok" ELSE "err")
  /\ UNCHANGED <<serviceVars, keeperVars, cmds>>

WriteUnit ==
  /\ cmd.at = "write"
  /\ unit' = cmd.flags
  /\ Then(IF platform = "darwin" THEN "stop" ELSE "reload")
  /\ UNCHANGED <<bindingVars, platform, advertises, loaded, active, enabled,
                 keeperVars, boundVars>>

(***************************************************************************)
(* systemctl daemon-reload.  systemd goes by the definition it has read: a *)
(* process that runs without one is not started again, one that gets its   *)
(* definition back is.                                                     *)
(***************************************************************************)
DaemonReload ==
  /\ cmd.at = "reload"
  /\ loaded' = unit
  /\ active' = ((active \/ kpc # "none") /\ unit # NoUnit)
  /\ Then(IF cmd.name = "install" THEN "enable" ELSE "down")
  /\ UNCHANGED <<bindingVars, platform, advertises, unit, enabled, keeperVars, boundVars>>

(***************************************************************************)
(* systemctl enable --now: does not touch a unit that runs.                *)
(***************************************************************************)
EnableNow ==
  /\ cmd.at = "enable"
  /\ enabled' = TRUE
  /\ active' = TRUE
  /\ Then("restart")
  /\ UNCHANGED <<bindingVars, platform, advertises, unit, loaded, keeperVars, boundVars>>

(***************************************************************************)
(* systemctl restart: stops the process, waits for its end, starts it.     *)
(***************************************************************************)
Restart ==
  /\ cmd.at = "restart"
  /\ Signal
  /\ Then("restarted")
  /\ UNCHANGED <<serviceVars, boundVars>>

Restarted ==
  /\ cmd.at = "restarted" /\ kpc = "none"
  /\ Launch
  /\ Then("ok")
  /\ UNCHANGED <<bindingVars, serviceVars, boundVars>>

(***************************************************************************)
(* launchctl bootout, systemctl disable --now: both wait for the end of    *)
(* the process if all goes well.  StopFails is the other case.             *)
(***************************************************************************)
StopService ==
  /\ cmd.at = "stop"
  /\ active' = FALSE
  /\ enabled' = FALSE
  /\ Signal
  /\ Then("gone")
  /\ UNCHANGED <<platform, advertises, unit, loaded, boundVars>>

AfterStop == IF cmd.name = "install" THEN "bootstrap" ELSE "remove"

Gone ==
  /\ cmd.at = "gone" /\ kpc = "none"
  /\ loaded' = IF platform = "darwin" THEN NoUnit ELSE loaded
  /\ Then(AfterStop)
  /\ UNCHANGED <<bindingVars, platform, advertises, unit, active, enabled,
                 keeperVars, boundVars>>

(***************************************************************************)
(* launchctl bootstrap: refused while the old job is still there.          *)
(***************************************************************************)
Bootstrap ==
  /\ cmd.at = "bootstrap"
  /\ IF loaded = NoUnit /\ kpc = "none"
       THEN loaded' = unit /\ active' = TRUE /\ Then("ok")
       ELSE UNCHANGED <<loaded, active>> /\ Then("err")
  /\ UNCHANGED <<bindingVars, platform, advertises, unit, enabled, keeperVars, boundVars>>

RemoveUnit ==
  /\ cmd.at = "remove"
  /\ unit' = NoUnit
  /\ Then(IF platform = "darwin" THEN "down" ELSE "reload")
  /\ UNCHANGED <<bindingVars, platform, advertises, loaded, active, enabled,
                 keeperVars, boundVars>>

Admin ==
  \/ AdminBegins \/ AdminEnds \/ WriteUnit \/ DaemonReload \/ EnableNow
  \/ Restart \/ Restarted \/ StopService \/ Gone \/ Bootstrap \/ RemoveUnit

-----------------------------------------------------------------------------
(* Upsets beside the calls that fail.                                      *)

(***************************************************************************)
(* A file cannot be written or removed, systemctl or launchctl fails.      *)
(***************************************************************************)
AdminFails ==
  /\ \/ cmd.at \in {"write", "enable", "restart", "bootstrap", "remove"}
     \/ cmd.at = "reload" /\ cmd.name = "install"
  /\ Then("err")
  /\ UNCHANGED <<bindingVars, serviceVars, keeperVars>>

(***************************************************************************)
(* The stop fails, and its error is dropped: nothing has happened, though  *)
(* systemd may have disabled the unit; or launchctl does not wait for the  *)
(* process it has told to end.                                             *)
(***************************************************************************)
StopFails ==
  /\ cmd.at = "stop"
  /\ \/ /\ enabled' \in {enabled, FALSE}
        /\ UNCHANGED <<bindingVars, keeperVars, loaded, active>>
     \/ /\ platform = "darwin"
        /\ loaded' = NoUnit /\ active' = FALSE
        /\ Signal
        /\ UNCHANGED enabled
  /\ cmd' = [cmd EXCEPT !.at = AfterStop, !.stopped = FALSE]
  /\ UNCHANGED <<platform, advertises, unit>>

(***************************************************************************)
(* uninstall drops the error of daemon-reload as well.                     *)
(***************************************************************************)
ReloadFails ==
  /\ cmd.at = "reload" /\ cmd.name = "uninstall"
  /\ Then("down")
  /\ UNCHANGED <<bindingVars, serviceVars, keeperVars>>

(***************************************************************************)
(* No interface has the subnet of the IP yet, or no responder answers.     *)
(***************************************************************************)
KeeperFails ==
  /\ kpc \in {"status", "advertise"}
  /\ Exit
  /\ UNCHANGED <<bindingVars, serviceVars, cmd>>

KeeperDies ==
  /\ kpc # "none"
  /\ Die
  /\ UNCHANGED <<serviceVars, cmd>>

OutsideInterference == Interfere /\ UNCHANGED <<serviceVars, keeperVars, cmd>>

(***************************************************************************)
(* launchd loads whatever plist it finds, systemd what is enabled.         *)
(***************************************************************************)
MachineReboots ==
  /\ Reboot(Proc)
  /\ Exit
  /\ loaded' = IF platform = "darwin" \/ enabled THEN unit ELSE NoUnit
  /\ active' = (loaded' # NoUnit)
  /\ IF AtRest THEN UNCHANGED cmd ELSE Then("killed")
  /\ UNCHANGED <<platform, advertises, unit, enabled>>

Misfortune ==
  /\ Upset /\ UNCHANGED cmds
  /\ \/ AdminFails \/ StopFails \/ ReloadFails \/ KeeperFails \/ KeeperDies
     \/ OutsideInterference \/ MachineReboots

-----------------------------------------------------------------------------

Init ==
  /\ BindingInit
  /\ platform \in Platforms
  /\ \E local \in Local : advertises = (local => platform = "darwin")
  /\ unit = NoUnit /\ loaded = NoUnit
  /\ active = FALSE /\ enabled = FALSE
  /\ kpc = "none" /\ term = FALSE
  /\ kflags \in {CHOOSE f \in Flags : TRUE}
  /\ cmd = [name |-> "uninstall", flags |-> kflags, at |-> "err", stopped |-> TRUE]
  /\ cmds = MaxCommands
  /\ upsets = MaxUpsets

Next == Start \/ Keeper \/ Issue \/ Admin \/ Misfortune

(***************************************************************************)
(* The service manager restarts what ended, the timer ticks, every command *)
(* that was started runs to its end; `select` does not pass over a signal  *)
(* forever.  Nothing forces a command of the administrator or an upset.    *)
(***************************************************************************)
Fairness ==
  /\ WF_vars(Start)
  /\ WF_vars(Keeper)
  /\ SF_vars(Keeper /\ Stopped)
  /\ WF_vars(Admin)

Spec == Init /\ [][Next]_vars /\ Fairness

=============================================================================
