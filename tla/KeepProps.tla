------------------------------ MODULE KeepProps ------------------------------
(***************************************************************************)
(* What a binding kept by a service is promised.                           *)
(***************************************************************************)
EXTENDS Keep

KeeperLabels ==
  {"none", "status", "up", "reassert", "down", "converging", "replacing",
   "advertise", "loop", "verifying", "heal", "healing"}

AdminLabels ==
  Final \cup {"up", "down", "calling", "write", "reload", "enable", "restart",
              "restarted", "stop", "gone", "bootstrap", "remove"}

(***************************************************************************)
(* The type invariant of Keep and Binding.                                 *)
(***************************************************************************)
TypeOK ==
  /\ rec \in Option \cup {NoRecord, Torn}
  /\ host \in Hosts
  /\ job \in [Proc -> Call \cup {Idle}]
  /\ ret \in [Proc -> Results]
  /\ platform \in Platforms
  /\ advertises \in BOOLEAN
  /\ {unit, loaded} \subseteq Flags \cup {NoUnit}
  /\ active \in BOOLEAN /\ enabled \in BOOLEAN /\ term \in BOOLEAN
  /\ kpc \in KeeperLabels
  /\ kflags \in Flags
  /\ cmd \in [name: Commands \cup {"uninstall"}, flags: Flags, at: AdminLabels,
             stopped: BOOLEAN]
  /\ cmds \in 0..MaxCommands /\ upsets \in 0..MaxUpsets

Done(name) == cmd.name = name /\ cmd.at = "ok"

(***************************************************************************)
(* cmdKeep: once nobody disturbs a recorded binding any more and its       *)
(* service runs, it is in force again and stays so - whatever happened     *)
(* before, however often keep was restarted, and with whatever races       *)
(* between its calls and the administrator's.                              *)
(***************************************************************************)
Heals == <>[](active /\ AtRest /\ rec \in Option) => <>[](host = "inforce")

(***************************************************************************)
(* On Linux, what a killed Up leaves behind without a record makes every   *)
(* later Up fail (InstallRepairs).                                         *)
(***************************************************************************)
Wedged == platform = "linux" /\ rec = NoRecord /\ host # "clean"

(***************************************************************************)
(* "Regenerating on every install makes re-running it the repair           *)
(* procedure": after a service install that succeeded the binding its      *)
(* flags ask for is recorded and in force for good, whichever binding was  *)
(* there before and whatever keep had read of it - unless the record is    *)
(* torn or the machine is Wedged - and the keeper comes to run with these  *)
(* flags.  It stays if it can advertise at all: with --local on Linux it   *)
(* ends at every start, and it is these starts that keep the redirect.     *)
(***************************************************************************)
InstallTakesEffect ==
  \A f \in Flags :
     <>[](Done("install") /\ cmd.flags = f /\ rec # Torn /\ ~Wedged) =>
       <>[](/\ rec = ApplyDefaults(f) /\ host = "inforce"
            /\ kflags = f /\ (advertises => kpc # "none"))

(***************************************************************************)
(* After a service uninstall that reported success there is no definition  *)
(* any more that a boot could load; and if the service manager did stop    *)
(* the service - an error of its is dropped - there is nothing left at all *)
(* that could bring the binding back: no process, no record, although keep *)
(* may have been in the middle of a call when it was told to stop.         *)
(***************************************************************************)
UninstallIsFinal ==
  Done("uninstall") =>
     /\ unit = NoUnit
     /\ cmd.stopped => ~active /\ kpc = "none" /\ rec = NoRecord

(***************************************************************************)
(* Every command of the administrator comes to an end: keep, wherever the  *)
(* SIGTERM finds it, does not make the service manager wait forever.       *)
(***************************************************************************)
CommandsEnd == ~AtRest ~> AtRest

-----------------------------------------------------------------------------
(* Statements of the repository that the code does not live up to.  Each   *)
(* is checked by a run of its own, which finds a counterexample.           *)

(***************************************************************************)
(* serviceUninstall's comment: "uninstall is the explicit teardown, so     *)
(* take it down too".                                                      *)
(***************************************************************************)
UninstallTakesDown == Done("uninstall") => host = "clean"

(***************************************************************************)
(* service_linux.go: "Install always rewrites the unit and restarts it, so *)
(* re-running install is also the repair/upgrade procedure".               *)
(***************************************************************************)
InstallRepairs == <>[](Done("install") /\ rec # Torn) => <>[](host = "inforce")

(***************************************************************************)
(* cmdKeep's comment: "launchd/systemd restarting us must not flap the     *)
(* redirect": keep does not take down the very binding its flags ask for.  *)
(***************************************************************************)
RestartKeepsRedirect ==
  [][KeeperEnds /\ kpc = "replacing" /\ host = "inforce"
        /\ job["keeper"].seen = ApplyDefaults(kflags)
       => host' = "inforce"]_vars

=============================================================================
