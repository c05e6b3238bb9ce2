----------------------------- MODULE KeepProofs -----------------------------
(***************************************************************************)
(* Theorems about Keep and the Binding it is built on, for any flags, any  *)
(* number of commands and any number of upsets.                            *)
(*                                                                         *)
(* The inductive invariant says what a call may be in the middle of        *)
(* (BindingInv), that the keeper and the administrator are in a call       *)
(* exactly where their control says so (CallInv), and how far the command  *)
(* of the administrator has got with the service (CommandInv).             *)
(***************************************************************************)
EXTENDS KeepProps, TLAPS

-----------------------------------------------------------------------------
(* The invariant.                                                          *)

Records == Option \cup {NoRecord, Torn}

(***************************************************************************)
(* Only an Up is asked for something, and it always is.                    *)
(***************************************************************************)
BindingInv ==
  /\ rec \in Records /\ host \in Hosts
  /\ job \in [Proc -> Call \cup {Idle}]
  /\ \A p \in Proc : job[p].op = "up" => job[p].opt \in Option
  /\ ret \in [Proc -> Results]

CallInv ==
  /\ Busy("keeper") <=> kpc \in {"converging", "replacing", "verifying", "healing"}
  /\ Busy("admin") <=> cmd.at = "calling"

(***************************************************************************)
(* The labels a command runs through.                                      *)
(***************************************************************************)
LabelsOf(name) ==
  Final \cup
  (CASE name = "up"        -> {"up", "calling"}
     [] name = "down"      -> {"down", "calling"}
     [] name = "install"   -> {"write", "stop", "gone", "bootstrap", "reload", "enable",
                               "restart", "restarted"}
     [] name = "uninstall" -> {"stop", "gone", "remove", "reload", "down", "calling"})

Uninstalling(labels) == cmd.name = "uninstall" /\ cmd.at \in labels

Installing(labels) == cmd.name = "install" /\ cmd.at \in labels

CommandInv ==
  /\ cmd.at \in LabelsOf(cmd.name)
  /\ active => loaded # NoUnit
  /\ cmd.at = "gone" => ~active
  /\ Installing({"stop", "gone", "bootstrap", "reload", "enable", "restart", "restarted"}) =>
       unit # NoUnit
  /\ Installing({"enable", "restart", "restarted"}) => loaded # NoUnit
  /\ Uninstalling({"reload", "down", "calling", "ok"}) => unit = NoUnit
  /\ Uninstalling({"calling"}) => job["admin"].op = "down"
  /\ cmd.stopped =>
       /\ Uninstalling({"remove", "reload", "down", "calling", "ok"}) =>
            ~active /\ kpc = "none"
       /\ Uninstalling({"calling"}) => (job["admin"].seen = NoRecord => rec = NoRecord)
       /\ Uninstalling({"ok"}) => rec = NoRecord

Administration ==
  [name: {"up", "down", "install", "uninstall"}, flags: Flags, at: AdminLabels,
   stopped: BOOLEAN]

KeepTypeInv ==
  /\ platform \in Platforms /\ advertises \in BOOLEAN
  /\ {unit, loaded} \subseteq Flags \cup {NoUnit}
  /\ active \in BOOLEAN /\ enabled \in BOOLEAN /\ term \in BOOLEAN
  /\ kpc \in KeeperLabels
  /\ kflags \in Flags
  /\ cmd \in Administration
  /\ cmd.name \in Commands \cup {"uninstall"}
  /\ cmds \in 0..MaxCommands /\ upsets \in 0..MaxUpsets

KeepInv == BindingInv /\ KeepTypeInv /\ CallInv /\ CommandInv

-----------------------------------------------------------------------------
(* The calls of Binding.                                                   *)

LEMMA IdleIsNoCall == Idle \notin Call
  BY DEF Idle, Call, Ops

LEMMA BeginKeeps ==
  ASSUME BindingInv, NEW p \in Proc, NEW op \in Ops, NEW o \in Option \cup {NoRecord},
         op = "up" => o \in Option, Begin(p, op, o)
  PROVE  /\ BindingInv' /\ rec' = rec
         /\ Busy(p)' /\ job'[p].op = op /\ job'[p].seen = rec
         /\ \A q \in Proc \ {p} : /\ Busy(q)' <=> Busy(q)
                                  /\ job'[q].op = job[q].op /\ job'[q].seen = job[q].seen
<1> DEFINE overlap == {q \in Proc \ {p} : Busy(q)}
           call == [op |-> op, opt |-> o, seen |-> rec, touched |-> FALSE,
                    mixed |-> overlap # {}]
           over(q) == [job[q] EXCEPT !.mixed = TRUE]
<1>1. /\ job' = [q \in Proc |-> IF q = p THEN call
                                ELSE IF q \in overlap THEN over(q) ELSE job[q]]
      /\ UNCHANGED <<rec, host, ret>>
  BY DEF Begin
<1>2. call \in Call /\ call.op = op /\ call.opt = o /\ call.seen = rec
  BY DEF Call, BindingInv, Records
<1>3. ASSUME NEW q \in overlap
      PROVE  /\ over(q) \in Call /\ over(q).op = job[q].op /\ over(q).seen = job[q].seen
             /\ over(q).opt = job[q].opt
  <2>1. job[q] \in Call
    BY DEF BindingInv, Busy
  <2> QED BY <2>1 DEF Call
<1> HIDE DEF call, over
<1>4. ASSUME NEW q \in Proc \ {p}
      PROVE  /\ job'[q] \in Call \cup {Idle} /\ (Busy(q)' <=> Busy(q))
             /\ job'[q].op = job[q].op /\ job'[q].seen = job[q].seen
             /\ job'[q].opt = job[q].opt
  <2>1. CASE q \in overlap
    <3>1. job'[q] = over(q)
      BY <1>1, <2>1
    <3> QED BY <3>1, <2>1, <1>3, IdleIsNoCall DEF Busy
  <2>2. CASE q \notin overlap
    <3>1. job'[q] = job[q]
      BY <1>1, <2>2
    <3> QED BY <3>1 DEF Busy, BindingInv
  <2> QED BY <2>1, <2>2
<1>5. job'[p] = call
  BY <1>1
<1>6. BindingInv'
  <2>1. job' \in [Proc -> Call \cup {Idle}]
    <3>1. \A q \in Proc : job'[q] \in Call \cup {Idle}
      BY <1>2, <1>4, <1>5
    <3> HIDE DEF overlap
    <3>2. job' = [q \in Proc |-> job'[q]]
      BY <1>1
    <3> QED BY <3>1, <3>2
  <2>2. \A q \in Proc : job'[q].op = "up" => job'[q].opt \in Option
    BY <1>2, <1>4, <1>5 DEF BindingInv
  <2> QED BY <1>1, <2>1, <2>2 DEF BindingInv
<1> QED BY <1>1, <1>2, <1>4, <1>5, <1>6, IdleIsNoCall DEF Busy

(***************************************************************************)
(* What a call may leave as the record.                                    *)
(***************************************************************************)
LEMMA FinishKeeps ==
  ASSUME BindingInv, NEW p \in Proc, NEW r \in Results, Finish(p, r),
         rec' \in Records, host' \in Hosts
  PROVE  /\ BindingInv' /\ ~Busy(p)'
         /\ \A q \in Proc \ {p} : job'[q] = job[q]
<1>1. job'[p] = Idle /\ \A q \in Proc \ {p} : job'[q] = job[q]
  BY DEF Finish, BindingInv
<1>2. job' \in [Proc -> Call \cup {Idle}] /\ ret' \in [Proc -> Results]
  BY DEF Finish, BindingInv
<1>3. \A q \in Proc : job'[q].op = "up" => job'[q].opt \in Option
  BY <1>1 DEF BindingInv, Idle
<1> QED BY <1>1, <1>2, <1>3 DEF BindingInv, Busy

LEMMA HostsOf ==
  ASSUME BindingInv, NEW p \in Proc
  PROVE  /\ Disturbed \subseteq Hosts /\ Removed(p) \subseteq Hosts
         /\ Unchanged(p) => rec' = rec /\ host' \in Hosts
BY DEF Disturbed, Removed, Unchanged, Settle, Hosts, BindingInv

LEMMA EndKeeps ==
  ASSUME BindingInv, NEW p \in Proc, NEW r \in Results, End(p, r)
  PROVE  /\ BindingInv' /\ Busy(p) /\ ~Busy(p)'
         /\ \A q \in Proc \ {p} : job'[q] = job[q]
         /\ job[p].op = "down" /\ r = "ok" => rec' = NoRecord
         /\ job[p].op = "down" /\ r = "nobinding" => job[p].seen = NoRecord /\ rec' = rec
<1>1. Busy(p) /\ job[p].op \in Ops /\ job[p].seen \in Records
  BY DEF End, Refuse, EndUp, EndReassert, EndVerify, EndDown, Busy, BindingInv, Call, Idle,
         Records
<1>2. Finish(p, r)
  BY DEF End, Refuse, EndUp, EndReassert, EndVerify, EndDown
<1>3. rec' \in Records /\ host' \in Hosts
  <2>1. CASE Refuse(p, r)
    BY <2>1, HostsOf DEF Refuse, BindingInv
  <2>2. CASE EndUp(p, r)
    <3>1. job[p].opt \in Option
      BY <2>2 DEF EndUp, BindingInv
    <3> QED BY <2>2, <3>1, HostsOf DEF EndUp, Succeed, Settle, BindingInv, Records, Hosts
  <2>3. CASE EndReassert(p, r)
    <3>1. job[p].seen \in Option
      BY <2>3, <1>1 DEF EndReassert, Refusal, Records
    <3> QED BY <2>3, <3>1 DEF EndReassert, Succeed, Settle, BindingInv, Records, Hosts
  <2>4. CASE EndVerify(p, r)
    BY <2>4, HostsOf DEF EndVerify, BindingInv
  <2>5. CASE EndDown(p, r)
    BY <2>5, HostsOf DEF EndDown, Settle, BindingInv, Records
  <2> QED BY <2>1, <2>2, <2>3, <2>4, <2>5 DEF End
<1>4. job[p].op = "down" =>
        /\ r = "ok" => rec' = NoRecord
        /\ r = "nobinding" => job[p].seen = NoRecord /\ rec' = rec
  <2> SUFFICES ASSUME job[p].op = "down"
               PROVE  /\ r = "ok" => rec' = NoRecord
                      /\ r = "nobinding" => job[p].seen = NoRecord /\ rec' = rec
    OBVIOUS
  <2>1. Refuse(p, r) \/ EndDown(p, r)
    BY DEF End, EndUp, EndReassert, EndVerify
  <2>2. CASE Refuse(p, r)
    BY <2>2, HostsOf DEF Refuse, Refusal
  <2>3. CASE EndDown(p, r)
    BY <2>3 DEF EndDown, Settle
  <2> QED BY <2>1, <2>2, <2>3
<1> QED BY <1>1, <1>2, <1>3, <1>4, FinishKeeps

LEMMA KillKeeps ==
  ASSUME BindingInv, NEW p \in Proc, Kill(p)
  PROVE  /\ BindingInv' /\ ~Busy(p)'
         /\ \A q \in Proc \ {p} : job'[q] = job[q]
<1>1. rec' \in Records /\ host' \in Hosts
  BY HostsOf DEF Kill, Settle, BindingInv, Records
<1>2. Finish(p, "killed") /\ "killed" \in Results
  BY DEF Kill, Results
<1> QED BY <1>1, <1>2, FinishKeeps

LEMMA InterfereKeeps ==
  ASSUME BindingInv, Interfere
  PROVE  /\ BindingInv' /\ rec' = rec
         /\ \A q \in Proc : /\ Busy(q)' <=> Busy(q)
                            /\ job'[q].op = job[q].op /\ job'[q].seen = job[q].seen
<1> DEFINE touch(q) == [job[q] EXCEPT !.touched = TRUE]
<1>1. /\ job' = [q \in Proc |-> IF Busy(q) THEN touch(q) ELSE Idle]
      /\ rec' = rec /\ ret' = ret
  BY DEF Interfere, Settle
<1>2. host' \in Hosts
  BY DEF Interfere, Settle, Disturbed, Hosts
<1>3. ASSUME NEW q \in Proc, Busy(q)
      PROVE  /\ touch(q) \in Call /\ touch(q).op = job[q].op /\ touch(q).seen = job[q].seen
             /\ touch(q).opt = job[q].opt
  <2>1. job[q] \in Call
    BY <1>3 DEF BindingInv, Busy
  <2> QED BY <2>1 DEF Call
<1> HIDE DEF touch
<1>4. ASSUME NEW q \in Proc
      PROVE  /\ job'[q] \in Call \cup {Idle} /\ (Busy(q)' <=> Busy(q))
             /\ job'[q].op = job[q].op /\ job'[q].seen = job[q].seen
             /\ job'[q].op = "up" => job'[q].opt \in Option
  <2>1. CASE Busy(q)
    <3>1. job'[q] = touch(q)
      BY <1>1, <2>1
    <3> QED BY <3>1, <2>1, <1>3, IdleIsNoCall DEF Busy, BindingInv
  <2>2. CASE ~Busy(q)
    <3>1. job'[q] = Idle /\ job[q] = Idle
      BY <1>1, <2>2 DEF Busy
    <3> QED BY <3>1 DEF Busy, Idle
  <2> QED BY <2>1, <2>2
<1>5. job' \in [Proc -> Call \cup {Idle}]
  BY <1>1, <1>4
<1> QED BY <1>1, <1>2, <1>4, <1>5 DEF BindingInv

LEMMA RebootKeeps ==
  ASSUME BindingInv, NEW ended, Reboot(ended)
  PROVE  BindingInv' /\ rec' = NoRecord /\ \A q \in Proc : ~Busy(q)'
BY DEF Reboot, BindingInv, Records, Hosts, Results, Busy, Idle

-----------------------------------------------------------------------------
(* The keeper.                                                             *)

LEMMA TwoProcs ==
  /\ "keeper" \in Proc /\ "admin" \in Proc \ {"keeper"} /\ "keeper" \in Proc \ {"admin"}
  BY ProcAssumption

LEMMA BindingUntouched ==
  ASSUME BindingInv, UNCHANGED bindingVars
  PROVE  BindingInv' /\ rec' = rec /\ job' = job /\ \A q \in Proc : Busy(q)' <=> Busy(q)
BY DEF BindingInv, bindingVars, Busy

LEMMA CommandUntouched ==
  ASSUME CommandInv, UNCHANGED <<serviceVars, cmd, rec>>, kpc = "none" => kpc' = "none",
         cmd.at = "calling" => job'["admin"].op = job["admin"].op
                               /\ job'["admin"].seen = job["admin"].seen
  PROVE  CommandInv'
BY DEF CommandInv, serviceVars, Installing, Uninstalling

(***************************************************************************)
(* The steps of the keeper: once a service that is being uninstalled was   *)
(* stopped there is no keeper, so that they do not matter for CommandInv.  *)
(***************************************************************************)
LEMMA KeeperGoesOn ==
  ASSUME CommandInv, UNCHANGED <<serviceVars, cmd>>, kpc # "none",
         job'["admin"].op = job["admin"].op
  PROVE  CommandInv'
BY DEF CommandInv, serviceVars, Installing, Uninstalling

LEMMA StartKeeps ==
  ASSUME KeepInv, Start
  PROVE  KeepInv'
<1> USE DEF Start, Launch
<1>1. BindingInv'
  BY BindingUntouched DEF KeepInv
<1>2. loaded \in Flags
  BY DEF KeepInv, KeepTypeInv, CommandInv
<1>3. KeepTypeInv'
  BY <1>2 DEF KeepInv, KeepTypeInv, serviceVars, boundVars, KeeperLabels
<1>4. CallInv'
  BY DEF KeepInv, CallInv, bindingVars, Busy
<1>5. CommandInv'
  BY DEF KeepInv, CommandInv, serviceVars, Installing, Uninstalling, bindingVars
<1> QED BY <1>1, <1>3, <1>4, <1>5 DEF KeepInv

LEMMA StatusKeeps ==
  ASSUME KeepInv, Status, UNCHANGED <<serviceVars, cmd>>
  PROVE  KeepInv'
<1> USE DEF Status, Goto, Exit
<1>1. BindingInv'
  BY BindingUntouched DEF KeepInv
<1>2. KeepTypeInv'
  BY DEF KeepInv, KeepTypeInv, serviceVars, boundVars, KeeperLabels
<1>3. CallInv'
  BY DEF KeepInv, CallInv, bindingVars, Busy
<1>4. CommandInv'
  BY KeeperGoesOn DEF KeepInv, bindingVars
<1> QED BY <1>1, <1>2, <1>3, <1>4 DEF KeepInv

LEMMA KeeperBeginsKeeps ==
  ASSUME KeepInv, KeeperBegins, UNCHANGED <<serviceVars, cmd>>
  PROVE  KeepInv'
<1> DEFINE op == CASE kpc = "loop" -> "verify" [] kpc = "heal" -> "reassert"
                   [] OTHER -> kpc
           o == IF op = "up" THEN ApplyDefaults(kflags) ELSE NoRecord
<1>1. kpc \in {"up", "reassert", "down", "loop", "heal"} /\ Begin("keeper", op, o)
  BY DEF KeeperBegins
<1>2. op \in Ops
  BY <1>1 DEF Ops
<1>3. o \in Option \cup {NoRecord} /\ (op = "up" => o \in Option)
  BY OptionAssumption DEF KeepInv, KeepTypeInv
<1> HIDE DEF op, o
<1>4. /\ BindingInv' /\ Busy("keeper")' /\ (Busy("admin")' <=> Busy("admin"))
      /\ job'["admin"].op = job["admin"].op
  BY <1>1, <1>2, <1>3, TwoProcs, BeginKeeps DEF KeepInv
<1>5. kpc' \in {"verifying", "healing", "replacing", "converging"} /\ UNCHANGED <<kflags, term>>
  BY <1>1 DEF KeeperBegins, Goto
<1>6. KeepTypeInv'
  BY <1>5 DEF KeeperBegins, KeepInv, KeepTypeInv, serviceVars, boundVars, KeeperLabels
<1>7. CallInv'
  BY <1>4, <1>5 DEF KeepInv, CallInv
<1>8. CommandInv'
  BY <1>1, <1>4, KeeperGoesOn DEF KeepInv
<1> QED BY <1>4, <1>6, <1>7, <1>8 DEF KeepInv

LEMMA UpsetsCount ==
  ASSUME KeepInv, UNCHANGED upsets \/ Upset
  PROVE  upsets' \in 0..MaxUpsets
BY BoundAssumption DEF KeepInv, KeepTypeInv, Upset

LEMMA KeeperEndsKeeps ==
  ASSUME KeepInv, KeeperEnds, UNCHANGED <<serviceVars, cmd>>
  PROVE  KeepInv'
<1>1. PICK r \in Results : Ends("keeper", r) /\ AfterCall(r)
  BY DEF KeeperEnds
<1>2. /\ kpc \in {"converging", "replacing", "verifying", "healing"}
      /\ kpc' \in {"advertise", "none", "up", "loop", "heal"}
      /\ kflags' = kflags /\ term' \in BOOLEAN
  BY <1>1 DEF AfterCall, Goto, Exit, KeepInv, KeepTypeInv
<1>3. /\ BindingInv' /\ ~Busy("keeper")' /\ (Busy("admin")' <=> Busy("admin"))
      /\ job'["admin"].op = job["admin"].op
  BY <1>1, TwoProcs, EndKeeps DEF KeepInv, Ends, Busy
<1>4. upsets' \in 0..MaxUpsets
  BY <1>1, UpsetsCount DEF Ends
<1>5. KeepTypeInv'
  BY <1>2, <1>4 DEF KeeperEnds, KeepInv, KeepTypeInv, serviceVars, KeeperLabels
<1>6. CallInv'
  BY <1>2, <1>3 DEF KeepInv, CallInv
<1>7. CommandInv'
  BY <1>2, <1>3, KeeperGoesOn DEF KeepInv
<1> QED BY <1>3, <1>5, <1>6, <1>7 DEF KeepInv

LEMMA AdvertiseKeeps ==
  ASSUME KeepInv, Advertise \/ Stopped, UNCHANGED <<serviceVars, cmd>>
  PROVE  KeepInv'
<1> USE DEF Advertise, Stopped, Goto, Exit
<1>1. BindingInv'
  BY BindingUntouched DEF KeepInv
<1>2. KeepTypeInv'
  BY DEF KeepInv, KeepTypeInv, serviceVars, boundVars, KeeperLabels
<1>3. CallInv'
  BY DEF KeepInv, CallInv, bindingVars, Busy
<1>4. CommandInv'
  BY KeeperGoesOn DEF KeepInv, bindingVars
<1> QED BY <1>1, <1>2, <1>3, <1>4 DEF KeepInv

(***************************************************************************)
(* The process ends, in a call or not, or is told to.                      *)
(***************************************************************************)
LEMMA DieKeeps ==
  ASSUME KeepInv, Die
  PROVE  /\ BindingInv' /\ kpc' = "none" /\ term' = FALSE /\ kflags' = kflags
         /\ ~Busy("keeper")' /\ job'["admin"] = job["admin"]
<1>1. CASE Busy("keeper")
  BY <1>1, TwoProcs, KillKeeps DEF KeepInv, Die, Exit
<1>2. CASE ~Busy("keeper")
  BY <1>2, TwoProcs, BindingUntouched DEF KeepInv, Die, Exit
<1> QED BY <1>1, <1>2

LEMMA SignalKeeps ==
  ASSUME KeepInv, Signal
  PROVE  /\ BindingInv' /\ kpc' \in {kpc, "none"} /\ term' \in BOOLEAN /\ kflags' = kflags
         /\ Busy("keeper")' <=> kpc' \in {"converging", "replacing", "verifying", "healing"}
         /\ job'["admin"] = job["admin"]
<1>1. CASE UNCHANGED bindingVars /\ UNCHANGED <<kpc, kflags>>
  <2>1. term' \in BOOLEAN
    BY <1>1 DEF Signal, keeperVars, KeepInv, KeepTypeInv, Die, Exit
  <2> QED BY <1>1, <2>1, TwoProcs, BindingUntouched DEF KeepInv, CallInv
<1>2. CASE Die
  BY <1>2, DieKeeps
<1> QED BY <1>1, <1>2 DEF Signal, keeperVars

-----------------------------------------------------------------------------
(* The administrator.                                                      *)

LEMMA ThenIs ==
  ASSUME KeepInv, NEW label \in AdminLabels, Then(label)
  PROVE  /\ cmd'.name = cmd.name /\ cmd'.flags = cmd.flags /\ cmd'.at = label
         /\ cmd'.stopped = cmd.stopped
         /\ cmd' \in Administration
         /\ cmd'.name \in Commands \cup {"uninstall"}
BY DEF Then, KeepInv, KeepTypeInv, Administration

(***************************************************************************)
(* What the commands of the administrator are.                             *)
(***************************************************************************)
LEMMA CommandNames ==
  ASSUME KeepInv
  PROVE  cmd.name \in {"up", "down", "install", "uninstall"} /\ cmd.flags \in Flags
BY DEF KeepInv, KeepTypeInv, Administration

LEMMA IssueKeeps ==
  ASSUME KeepInv, Issue
  PROVE  KeepInv'
<1>1. PICK name \in Commands, f \in Flags :
        cmd' = [name |-> name, flags |-> f, at |-> First(name), stopped |-> TRUE]
  BY CommandNames DEF Issue
<1>2. name \in {"up", "down", "install", "uninstall"}
  BY CommandsAssumption
<1>3. cmd'.name = name /\ cmd'.flags = f /\ cmd'.at = First(name)
  BY <1>1
<1>4. First(name) \in {"up", "down", "write", "stop"} /\ First(name) \in AdminLabels
  BY <1>2 DEF First, AdminLabels
<1>5. UNCHANGED <<bindingVars, serviceVars, keeperVars, upsets>> /\ cmds' \in 0..MaxCommands
  BY BoundAssumption DEF Issue, KeepInv, KeepTypeInv
<1>6. BindingInv'
  BY <1>5, BindingUntouched DEF KeepInv
<1>7. KeepTypeInv'
  BY <1>1, <1>2, <1>4, <1>5 DEF KeepInv, KeepTypeInv, Administration, serviceVars, keeperVars
<1>8. CallInv'
  BY <1>3, <1>4, <1>5 DEF Issue, AtRest, Final, KeepInv, CallInv, bindingVars, keeperVars, Busy
<1>9. CommandInv'
  <2>1. First(name) \in LabelsOf(name)
    BY <1>2 DEF First, LabelsOf
  <2>2. /\ name = "uninstall" => First(name) = "stop"
        /\ name = "install" => First(name) = "write"
    BY DEF First
  <2> QED BY <1>2, <1>3, <1>4, <1>5, <2>1, <2>2
             DEF KeepInv, CommandInv, serviceVars, Installing, Uninstalling
<1> QED BY <1>6, <1>7, <1>8, <1>9 DEF KeepInv

LEMMA AdminBeginsKeeps ==
  ASSUME KeepInv, AdminBegins
  PROVE  KeepInv'
<1> DEFINE o == IF cmd.at = "up" THEN ApplyDefaults(cmd.flags) ELSE NoRecord
<1>1. cmd.at \in {"up", "down"} /\ Begin("admin", cmd.at, o)
  BY DEF AdminBegins
<1>2. cmd.at \in Ops /\ o \in Option \cup {NoRecord} /\ (cmd.at = "up" => o \in Option)
  BY <1>1, OptionAssumption, CommandNames DEF Ops
<1> HIDE DEF o
<1>3. /\ BindingInv' /\ rec' = rec /\ Busy("admin")' /\ (Busy("keeper")' <=> Busy("keeper"))
      /\ job'["admin"].op = cmd.at /\ job'["admin"].seen = rec
  BY <1>1, <1>2, TwoProcs, BeginKeeps DEF KeepInv
<1>4. /\ cmd'.name = cmd.name /\ cmd'.stopped = cmd.stopped /\ cmd'.at = "calling"
      /\ cmd' \in Administration
      /\ cmd'.name \in Commands \cup {"uninstall"}
  BY ThenIs DEF AdminBegins, AdminLabels
<1>5. UNCHANGED <<serviceVars, keeperVars, boundVars>>
  BY DEF AdminBegins
<1>6. KeepTypeInv'
  BY <1>4, <1>5 DEF KeepInv, KeepTypeInv, serviceVars, keeperVars, boundVars
<1>7. CallInv'
  BY <1>3, <1>4, <1>5 DEF KeepInv, CallInv, keeperVars
<1>8. CommandInv'
  <2>1. cmd.name = "uninstall" => cmd.at = "down"
    BY <1>1 DEF KeepInv, CommandInv, LabelsOf, Final
  <2>2. cmd.name # "install"
    BY <1>1 DEF KeepInv, CommandInv, LabelsOf, Final
  <2>3. "calling" \in LabelsOf(cmd.name)
    BY <2>2, CommandNames DEF LabelsOf
  <2> QED BY <1>1, <1>3, <1>4, <1>5, <2>1, <2>2, <2>3
             DEF KeepInv, CommandInv, serviceVars, keeperVars, Installing, Uninstalling
<1> QED BY <1>3, <1>6, <1>7, <1>8 DEF KeepInv

LEMMA AdminEndsKeeps ==
  ASSUME KeepInv, AdminEnds
  PROVE  KeepInv'
<1>1. PICK r \in Results :
        /\ Ends("admin", r)
        /\ Then(IF r = "ok" \/ (r = "nobinding" /\ cmd.name = "uninstall") THEN "ok" ELSE "err")
  BY DEF AdminEnds
<1> DEFINE at == IF r = "ok" \/ (r = "nobinding" /\ cmd.name = "uninstall") THEN "ok" ELSE "err"
<1>2. /\ BindingInv' /\ ~Busy("admin")' /\ (Busy("keeper")' <=> Busy("keeper"))
      /\ job["admin"].op = "down" /\ r = "ok" => rec' = NoRecord
      /\ job["admin"].op = "down" /\ r = "nobinding" =>
           job["admin"].seen = NoRecord /\ rec' = rec
  <2>1. End("admin", r)
    BY <1>1 DEF Ends
  <2>2. /\ BindingInv' /\ ~Busy("admin")' /\ job'["keeper"] = job["keeper"]
        /\ job["admin"].op = "down" /\ r = "ok" => rec' = NoRecord
        /\ job["admin"].op = "down" /\ r = "nobinding" =>
             job["admin"].seen = NoRecord /\ rec' = rec
    BY <2>1, TwoProcs, EndKeeps DEF KeepInv
  <2> QED BY <2>2 DEF Busy
<1>3. at \in {"ok", "err"} /\ at \in AdminLabels
  BY DEF AdminLabels, Final
<1>4. /\ cmd'.name = cmd.name /\ cmd'.stopped = cmd.stopped /\ cmd'.at = at
      /\ cmd' \in Administration
      /\ cmd'.name \in Commands \cup {"uninstall"}
  BY <1>1, <1>3, ThenIs
<1>5. UNCHANGED <<serviceVars, keeperVars, cmds>> /\ upsets' \in 0..MaxUpsets
  BY <1>1, UpsetsCount DEF AdminEnds, Ends
<1>6. KeepTypeInv'
  BY <1>4, <1>5 DEF KeepInv, KeepTypeInv, serviceVars, keeperVars
<1>7. CallInv'
  BY <1>2, <1>3, <1>4, <1>5 DEF KeepInv, CallInv, keeperVars
<1>8. CommandInv'
  <2>1. at \in LabelsOf(cmd.name)
    BY <1>3 DEF LabelsOf, Final
  <2>2. cmd.name = "uninstall" /\ cmd.stopped /\ at = "ok" => rec' = NoRecord
    BY <1>2 DEF AdminEnds, KeepInv, CommandInv, Uninstalling
  <2> HIDE DEF at
  <2> QED BY <1>3, <1>4, <1>5, <2>1, <2>2
             DEF AdminEnds, KeepInv, CommandInv, serviceVars, keeperVars, Installing, Uninstalling
<1> QED BY <1>2, <1>6, <1>7, <1>8 DEF KeepInv

(***************************************************************************)
(* The steps of install and uninstall that touch the service alone.        *)
(***************************************************************************)
LEMMA ServiceOnly ==
  ASSUME KeepInv, UNCHANGED <<bindingVars, keeperVars, boundVars, platform, advertises>>,
         NEW label \in AdminLabels \ {"calling"}, cmd.at # "calling", Then(label),
         {unit', loaded'} \subseteq Flags \cup {NoUnit},
         active' \in BOOLEAN, enabled' \in BOOLEAN, CommandInv'
  PROVE  KeepInv'
<1>1. /\ cmd'.at = label
      /\ cmd' \in Administration
      /\ cmd'.name \in Commands \cup {"uninstall"}
  BY ThenIs
<1>2. BindingInv'
  BY BindingUntouched DEF KeepInv
<1>3. KeepTypeInv'
  BY <1>1 DEF KeepInv, KeepTypeInv, keeperVars, boundVars
<1>4. CallInv'
  BY <1>1 DEF KeepInv, CallInv, bindingVars, keeperVars, Busy
<1> QED BY <1>2, <1>3, <1>4 DEF KeepInv

LEMMA WriteUnitKeeps ==
  ASSUME KeepInv, WriteUnit
  PROVE  KeepInv'
<1> DEFINE label == IF platform = "darwin" THEN "stop" ELSE "reload"
<1>1. Then(label) /\ label \in {"stop", "reload"} /\ label \in AdminLabels \ {"calling"}
  BY DEF WriteUnit, AdminLabels
<1>2. cmd'.name = cmd.name /\ cmd'.stopped = cmd.stopped /\ cmd'.at = label
  BY <1>1, ThenIs
<1> HIDE DEF label
<1>3. cmd.name = "install" /\ cmd.at = "write"
  BY CommandNames DEF WriteUnit, KeepInv, CommandInv, LabelsOf, Final
<1>4. unit' \in Flags /\ unit' # NoUnit /\ UNCHANGED <<loaded, active, enabled, kpc>>
  BY CommandNames, FlagsAssumption DEF WriteUnit, keeperVars
<1>5. CommandInv'
  BY <1>1, <1>2, <1>3, <1>4 DEF KeepInv, CommandInv, LabelsOf, Installing, Uninstalling
<1> QED BY <1>1, <1>3, <1>4, <1>5, ServiceOnly DEF WriteUnit, KeepInv, KeepTypeInv

LEMMA DaemonReloadKeeps ==
  ASSUME KeepInv, DaemonReload
  PROVE  KeepInv'
<1> DEFINE label == IF cmd.name = "install" THEN "enable" ELSE "down"
<1>1. Then(label) /\ label \in {"enable", "down"} /\ label \in AdminLabels \ {"calling"}
  BY DEF DaemonReload, AdminLabels
<1>2. cmd'.name = cmd.name /\ cmd'.stopped = cmd.stopped /\ cmd'.at = label
  BY <1>1, ThenIs
<1>3. /\ \/ cmd.name = "install" /\ label = "enable"
         \/ cmd.name = "uninstall" /\ label = "down"
      /\ cmd.at = "reload"
  BY CommandNames DEF DaemonReload, KeepInv, CommandInv, LabelsOf, Final
<1> HIDE DEF label
<1>4. /\ loaded' = unit /\ active' = ((active \/ kpc # "none") /\ unit # NoUnit)
      /\ UNCHANGED <<unit, enabled, kpc>>
  BY DEF DaemonReload, keeperVars
<1>5. CommandInv'
  BY <1>2, <1>3, <1>4 DEF KeepInv, CommandInv, LabelsOf, Installing, Uninstalling
<1> QED BY <1>1, <1>3, <1>4, <1>5, ServiceOnly DEF DaemonReload, KeepInv, KeepTypeInv

LEMMA EnableNowKeeps ==
  ASSUME KeepInv, EnableNow
  PROVE  KeepInv'
<1>1. Then("restart") /\ "restart" \in AdminLabels \ {"calling"}
  BY DEF EnableNow, AdminLabels
<1>2. cmd'.name = cmd.name /\ cmd'.stopped = cmd.stopped /\ cmd'.at = "restart"
  BY <1>1, ThenIs
<1>3. cmd.name = "install" /\ cmd.at = "enable"
  BY CommandNames DEF EnableNow, KeepInv, CommandInv, LabelsOf, Final
<1>4. active' = TRUE /\ enabled' = TRUE /\ UNCHANGED <<unit, loaded, kpc>>
  BY DEF EnableNow, keeperVars
<1>5. CommandInv'
  BY <1>2, <1>3, <1>4 DEF KeepInv, CommandInv, LabelsOf, Installing, Uninstalling
<1> QED BY <1>1, <1>3, <1>4, <1>5, ServiceOnly DEF EnableNow, KeepInv, KeepTypeInv

LEMMA BootstrapKeeps ==
  ASSUME KeepInv, Bootstrap
  PROVE  KeepInv'
<1> DEFINE label == IF loaded = NoUnit /\ kpc = "none" THEN "ok" ELSE "err"
<1>1. Then(label) /\ label \in {"ok", "err"} /\ label \in AdminLabels \ {"calling"}
  BY DEF Bootstrap, AdminLabels, Final
<1>2. cmd'.name = cmd.name /\ cmd'.stopped = cmd.stopped /\ cmd'.at = label
  BY <1>1, ThenIs
<1> HIDE DEF label
<1>3. cmd.name = "install" /\ cmd.at = "bootstrap"
  BY CommandNames DEF Bootstrap, KeepInv, CommandInv, LabelsOf, Final
<1>4. /\ \/ loaded' = unit /\ active' = TRUE
         \/ UNCHANGED <<loaded, active>>
      /\ UNCHANGED <<unit, enabled, kpc>>
  BY DEF Bootstrap, keeperVars
<1>5. CommandInv'
  BY <1>1, <1>2, <1>3, <1>4
     DEF KeepInv, CommandInv, LabelsOf, Final, Installing, Uninstalling
<1> QED BY <1>1, <1>3, <1>4, <1>5, ServiceOnly DEF Bootstrap, KeepInv, KeepTypeInv

LEMMA GoneKeeps ==
  ASSUME KeepInv, Gone
  PROVE  KeepInv'
<1> DEFINE label == AfterStop
<1>1. Then(label) /\ label \in {"bootstrap", "remove"} /\ label \in AdminLabels \ {"calling"}
  BY DEF Gone, AfterStop, AdminLabels
<1>2. cmd'.name = cmd.name /\ cmd'.stopped = cmd.stopped /\ cmd'.at = label
  BY <1>1, ThenIs
<1>3. /\ \/ cmd.name = "install" /\ label = "bootstrap"
         \/ cmd.name = "uninstall" /\ label = "remove"
      /\ cmd.at = "gone" /\ kpc = "none"
  BY CommandNames DEF Gone, AfterStop, KeepInv, CommandInv, LabelsOf, Final
<1> HIDE DEF label
<1>4. loaded' \in {loaded, NoUnit} /\ UNCHANGED <<unit, active, enabled, kpc>> /\ ~active
  BY <1>3 DEF Gone, keeperVars, KeepInv, CommandInv
<1>5. CommandInv'
  BY <1>2, <1>3, <1>4 DEF KeepInv, CommandInv, LabelsOf, Installing, Uninstalling
<1> QED BY <1>1, <1>3, <1>4, <1>5, ServiceOnly DEF Gone, KeepInv, KeepTypeInv

LEMMA RemoveUnitKeeps ==
  ASSUME KeepInv, RemoveUnit
  PROVE  KeepInv'
<1> DEFINE label == IF platform = "darwin" THEN "down" ELSE "reload"
<1>1. Then(label) /\ label \in {"down", "reload"} /\ label \in AdminLabels \ {"calling"}
  BY DEF RemoveUnit, AdminLabels
<1>2. cmd'.name = cmd.name /\ cmd'.stopped = cmd.stopped /\ cmd'.at = label
  BY <1>1, ThenIs
<1> HIDE DEF label
<1>3. cmd.name = "uninstall" /\ cmd.at = "remove"
  BY CommandNames DEF RemoveUnit, KeepInv, CommandInv, LabelsOf, Final
<1>4. unit' = NoUnit /\ UNCHANGED <<loaded, active, enabled, kpc>>
  BY DEF RemoveUnit, keeperVars
<1>5. CommandInv'
  BY <1>1, <1>2, <1>3, <1>4 DEF KeepInv, CommandInv, LabelsOf, Installing, Uninstalling
<1> QED BY <1>1, <1>3, <1>4, <1>5, ServiceOnly DEF RemoveUnit, KeepInv, KeepTypeInv

(***************************************************************************)
(* The steps that stop or start the process.                               *)
(***************************************************************************)
LEMMA RestartKeeps ==
  ASSUME KeepInv, Restart
  PROVE  KeepInv'
<1>1. /\ BindingInv' /\ kpc' \in {kpc, "none"} /\ term' \in BOOLEAN /\ kflags' = kflags
      /\ Busy("keeper")' <=> kpc' \in {"converging", "replacing", "verifying", "healing"}
      /\ job'["admin"] = job["admin"]
  BY SignalKeeps DEF Restart
<1>2. /\ cmd'.name = cmd.name /\ cmd'.stopped = cmd.stopped /\ cmd'.at = "restarted"
      /\ cmd' \in Administration
      /\ cmd'.name \in Commands \cup {"uninstall"}
  BY ThenIs DEF Restart, AdminLabels
<1>3. UNCHANGED <<serviceVars, boundVars>>
  BY DEF Restart
<1>4. cmd.name = "install" /\ cmd.at = "restart"
  BY CommandNames DEF Restart, KeepInv, CommandInv, LabelsOf, Final
<1>5. KeepTypeInv'
  BY <1>1, <1>2, <1>3 DEF KeepInv, KeepTypeInv, serviceVars, boundVars, KeeperLabels
<1>6. CallInv'
  BY <1>1, <1>2, <1>4 DEF KeepInv, CallInv, Busy
<1>7. CommandInv'
  BY <1>2, <1>3, <1>4 DEF KeepInv, CommandInv, serviceVars, LabelsOf, Installing, Uninstalling
<1> QED BY <1>1, <1>5, <1>6, <1>7 DEF KeepInv

LEMMA RestartedKeeps ==
  ASSUME KeepInv, Restarted
  PROVE  KeepInv'
<1>1. kpc' = "status" /\ kflags' = loaded /\ term' = FALSE /\ kpc = "none"
  BY DEF Restarted, Launch
<1>2. /\ cmd'.name = cmd.name /\ cmd'.stopped = cmd.stopped /\ cmd'.at = "ok"
      /\ cmd' \in Administration
      /\ cmd'.name \in Commands \cup {"uninstall"}
  BY ThenIs DEF Restarted, AdminLabels, Final
<1>3. UNCHANGED <<bindingVars, serviceVars, boundVars>>
  BY DEF Restarted
<1>4. cmd.name = "install" /\ cmd.at = "restarted"
  BY CommandNames DEF Restarted, KeepInv, CommandInv, LabelsOf, Final
<1>5. loaded \in Flags
  BY <1>4 DEF KeepInv, KeepTypeInv, CommandInv, Installing
<1>6. BindingInv'
  BY <1>3, BindingUntouched DEF KeepInv
<1>7. KeepTypeInv'
  BY <1>1, <1>2, <1>3, <1>5 DEF KeepInv, KeepTypeInv, serviceVars, boundVars, KeeperLabels
<1>8. CallInv'
  BY <1>1, <1>2, <1>3, <1>4 DEF KeepInv, CallInv, bindingVars, Busy
<1>9. CommandInv'
  BY <1>2, <1>3, <1>4
     DEF KeepInv, CommandInv, serviceVars, LabelsOf, Final, Installing, Uninstalling
<1> QED BY <1>6, <1>7, <1>8, <1>9 DEF KeepInv

LEMMA StopServiceKeeps ==
  ASSUME KeepInv, StopService
  PROVE  KeepInv'
<1>1. /\ BindingInv' /\ kpc' \in {kpc, "none"} /\ term' \in BOOLEAN /\ kflags' = kflags
      /\ Busy("keeper")' <=> kpc' \in {"converging", "replacing", "verifying", "healing"}
      /\ job'["admin"] = job["admin"]
  BY SignalKeeps DEF StopService
<1>2. /\ cmd'.name = cmd.name /\ cmd'.stopped = cmd.stopped /\ cmd'.at = "gone"
      /\ cmd' \in Administration
      /\ cmd'.name \in Commands \cup {"uninstall"}
  BY ThenIs DEF StopService, AdminLabels
<1>3. /\ active' = FALSE /\ enabled' = FALSE
      /\ UNCHANGED <<platform, advertises, unit, loaded, boundVars>>
  BY DEF StopService
<1>4. cmd.name \in {"install", "uninstall"} /\ cmd.at = "stop"
  BY CommandNames DEF StopService, KeepInv, CommandInv, LabelsOf, Final
<1>5. KeepTypeInv'
  BY <1>1, <1>2, <1>3 DEF KeepInv, KeepTypeInv, boundVars, KeeperLabels
<1>6. CallInv'
  BY <1>1, <1>2, <1>4 DEF KeepInv, CallInv, Busy
<1>7. CommandInv'
  BY <1>2, <1>3, <1>4 DEF KeepInv, CommandInv, LabelsOf, Installing, Uninstalling
<1> QED BY <1>1, <1>5, <1>6, <1>7 DEF KeepInv

LEMMA AdminKeeps ==
  ASSUME KeepInv, Admin
  PROVE  KeepInv'
BY AdminBeginsKeeps, AdminEndsKeeps, WriteUnitKeeps, DaemonReloadKeeps, EnableNowKeeps,
   RestartKeeps, RestartedKeeps, StopServiceKeeps, GoneKeeps, BootstrapKeeps, RemoveUnitKeeps
   DEF Admin

-----------------------------------------------------------------------------
(* Upsets.                                                                 *)

LEMMA AdminFailsKeeps ==
  ASSUME KeepInv, Upset, UNCHANGED cmds, AdminFails
  PROVE  KeepInv'
<1>1. /\ cmd'.name = cmd.name /\ cmd'.stopped = cmd.stopped /\ cmd'.at = "err"
      /\ cmd' \in Administration
      /\ cmd'.name \in Commands \cup {"uninstall"}
  BY ThenIs DEF AdminFails, AdminLabels, Final
<1>2. UNCHANGED <<bindingVars, serviceVars, keeperVars>> /\ cmd.at # "calling"
  BY DEF AdminFails
<1>3. BindingInv'
  BY <1>2, BindingUntouched DEF KeepInv
<1>4. KeepTypeInv'
  BY <1>1, <1>2, UpsetsCount DEF KeepInv, KeepTypeInv, serviceVars, keeperVars
<1>5. CallInv'
  BY <1>1, <1>2 DEF KeepInv, CallInv, bindingVars, keeperVars, Busy
<1>6. CommandInv'
  BY <1>1, <1>2
     DEF KeepInv, CommandInv, serviceVars, LabelsOf, Final, Installing, Uninstalling
<1> QED BY <1>3, <1>4, <1>5, <1>6 DEF KeepInv

LEMMA ReloadFailsKeeps ==
  ASSUME KeepInv, Upset, UNCHANGED cmds, ReloadFails
  PROVE  KeepInv'
<1>1. /\ cmd'.name = cmd.name /\ cmd'.stopped = cmd.stopped /\ cmd'.at = "down"
      /\ cmd' \in Administration
      /\ cmd'.name \in Commands \cup {"uninstall"}
  BY ThenIs DEF ReloadFails, AdminLabels
<1>2. /\ UNCHANGED <<bindingVars, serviceVars, keeperVars>>
      /\ cmd.name = "uninstall" /\ cmd.at = "reload"
  BY DEF ReloadFails
<1>3. BindingInv'
  BY <1>2, BindingUntouched DEF KeepInv
<1>4. KeepTypeInv'
  BY <1>1, <1>2, UpsetsCount DEF KeepInv, KeepTypeInv, serviceVars, keeperVars
<1>5. CallInv'
  BY <1>1, <1>2 DEF KeepInv, CallInv, bindingVars, keeperVars, Busy
<1>6. CommandInv'
  BY <1>1, <1>2
     DEF KeepInv, CommandInv, serviceVars, keeperVars, LabelsOf, Installing, Uninstalling
<1> QED BY <1>3, <1>4, <1>5, <1>6 DEF KeepInv

(***************************************************************************)
(* A stop that fails may leave anything of the service: the command goes   *)
(* on without cmd.stopped.                                                 *)
(***************************************************************************)
LEMMA StopFailsKeeps ==
  ASSUME KeepInv, Upset, UNCHANGED cmds, StopFails
  PROVE  KeepInv'
<1>1. /\ cmd.at = "stop" /\ UNCHANGED <<platform, advertises, unit>>
      /\ cmd' = [cmd EXCEPT !.at = AfterStop, !.stopped = FALSE]
  BY DEF StopFails
<1>2. \/ cmd.name = "install" /\ AfterStop = "bootstrap"
      \/ cmd.name = "uninstall" /\ AfterStop = "remove"
  BY <1>1, CommandNames DEF AfterStop, KeepInv, CommandInv, LabelsOf, Final
<1>3. AfterStop \in AdminLabels \ {"calling"}
  BY <1>2 DEF AdminLabels
<1>4. /\ cmd'.name = cmd.name /\ ~cmd'.stopped /\ cmd'.at = AfterStop
      /\ cmd' \in Administration
      /\ cmd'.name \in Commands \cup {"uninstall"}
  BY <1>1, <1>3 DEF KeepInv, KeepTypeInv, Administration
<1>5. /\ enabled' \in BOOLEAN /\ loaded' \in {loaded, NoUnit}
      /\ active' \in BOOLEAN /\ (active' => active /\ loaded' = loaded)
  <2>1. CASE enabled' \in {enabled, FALSE} /\ UNCHANGED <<loaded, active>>
    <3>1. active \in BOOLEAN /\ enabled \in BOOLEAN
      BY DEF KeepInv, KeepTypeInv
    <3>2. enabled' \in BOOLEAN
      BY <2>1, <3>1, Zenon
    <3>3. active' \in BOOLEAN /\ (active' => active /\ loaded' = loaded)
      BY <2>1, <3>1, Zenon
    <3> QED BY <2>1, <3>2, <3>3, Zenon
  <2>2. CASE loaded' = NoUnit /\ active' = FALSE /\ UNCHANGED enabled
    BY <2>2 DEF KeepInv, KeepTypeInv
  <2> QED BY <2>1, <2>2, Zenon DEF StopFails
<1>6. /\ BindingInv' /\ kpc' \in {kpc, "none"} /\ term' \in BOOLEAN /\ kflags' = kflags
      /\ Busy("keeper")' <=> kpc' \in {"converging", "replacing", "verifying", "healing"}
      /\ job'["admin"] = job["admin"]
  <2>1. CASE Signal
    BY <2>1, SignalKeeps
  <2>2. CASE UNCHANGED <<bindingVars, keeperVars>>
    <3>1. BindingInv' /\ job' = job
      BY <2>2, BindingUntouched DEF KeepInv
    <3> QED BY <2>2, <3>1 DEF keeperVars, KeepInv, KeepTypeInv, CallInv, Busy
  <2> QED BY <2>1, <2>2 DEF StopFails
<1>7. KeepTypeInv'
  BY <1>1, <1>4, <1>5, <1>6, UpsetsCount DEF KeepInv, KeepTypeInv, KeeperLabels
<1>8. CallInv'
  BY <1>1, <1>3, <1>4, <1>6 DEF KeepInv, CallInv, Busy
<1>9. CommandInv'
  <2>1. CASE cmd.name = "install" /\ AfterStop = "bootstrap"
    BY <1>1, <2>1, <1>4, <1>5
       DEF KeepInv, CommandInv, LabelsOf, Installing, Uninstalling
  <2>2. CASE cmd.name = "uninstall" /\ AfterStop = "remove"
    BY <1>1, <2>2, <1>4, <1>5
       DEF KeepInv, CommandInv, LabelsOf, Installing, Uninstalling
  <2> QED BY <1>2, <2>1, <2>2
<1> QED BY <1>6, <1>7, <1>8, <1>9 DEF KeepInv

LEMMA KeeperDiesKeeps ==
  ASSUME KeepInv, Upset, UNCHANGED cmds, KeeperDies \/ KeeperFails
  PROVE  KeepInv'
<1>1. kpc # "none" /\ UNCHANGED <<serviceVars, cmd>>
  BY DEF KeeperDies, KeeperFails
<1>2. Die
  BY DEF KeeperDies, KeeperFails, Die, KeepInv, CallInv
<1>3. /\ BindingInv' /\ kpc' = "none" /\ term' = FALSE /\ kflags' = kflags
      /\ ~Busy("keeper")' /\ job'["admin"] = job["admin"]
  BY <1>2, DieKeeps
<1>4. KeepTypeInv'
  BY <1>1, <1>3, UpsetsCount DEF KeepInv, KeepTypeInv, serviceVars, KeeperLabels
<1>5. CallInv'
  BY <1>1, <1>3 DEF KeepInv, CallInv, Busy
<1>6. CommandInv'
  BY <1>1, <1>3, KeeperGoesOn DEF KeepInv
<1> QED BY <1>3, <1>4, <1>5, <1>6 DEF KeepInv

LEMMA OutsideInterferenceKeeps ==
  ASSUME KeepInv, Upset, UNCHANGED cmds, OutsideInterference
  PROVE  KeepInv'
<1>1. UNCHANGED <<serviceVars, keeperVars, cmd>>
  BY DEF OutsideInterference
<1>2. /\ BindingInv' /\ rec' = rec
      /\ \A q \in Proc : /\ Busy(q)' <=> Busy(q)
                         /\ job'[q].op = job[q].op /\ job'[q].seen = job[q].seen
  BY InterfereKeeps DEF OutsideInterference, KeepInv
<1>3. KeepTypeInv'
  BY <1>1, UpsetsCount DEF KeepInv, KeepTypeInv, serviceVars, keeperVars
<1>4. CallInv'
  BY <1>1, <1>2, TwoProcs DEF KeepInv, CallInv, keeperVars
<1>5. CommandInv'
  BY <1>1, <1>2, TwoProcs, CommandUntouched DEF KeepInv, keeperVars
<1> QED BY <1>2, <1>3, <1>4, <1>5 DEF KeepInv

(***************************************************************************)
(* A reboot forgets the keeper and starts it again if there is a service.  *)
(***************************************************************************)
LEMMA MachineRebootsKeeps ==
  ASSUME KeepInv, Upset, UNCHANGED cmds, MachineReboots
  PROVE  KeepInv'
<1> USE DEF MachineReboots, Exit
<1>1. BindingInv' /\ rec' = NoRecord /\ \A q \in Proc : ~Busy(q)'
  BY RebootKeeps DEF KeepInv
<1>2. kpc' = "none" /\ term' = FALSE /\ UNCHANGED <<kflags, platform, advertises, unit, enabled>>
  OBVIOUS
<1>3. loaded' \in {unit, NoUnit} /\ active' = (loaded' # NoUnit)
  OBVIOUS
<1>4. /\ cmd'.name = cmd.name /\ cmd'.stopped = cmd.stopped
      /\ cmd'.at \in Final /\ (cmd'.at = "ok" => cmd.at = "ok")
      /\ cmd' \in Administration
      /\ cmd'.name \in Commands \cup {"uninstall"}
  <2>1. CASE AtRest
    BY <2>1 DEF AtRest, KeepInv, KeepTypeInv
  <2>2. CASE ~AtRest
    <3>1. Then("killed") /\ "killed" \in AdminLabels /\ "killed" \in Final
      BY <2>2 DEF AdminLabels, Final
    <3> QED BY <3>1, ThenIs
  <2> QED BY <2>1, <2>2
<1>5. KeepTypeInv'
  BY <1>2, <1>3, <1>4, UpsetsCount DEF KeepInv, KeepTypeInv, KeeperLabels
<1>6. CallInv'
  BY <1>1, <1>2, <1>4, TwoProcs DEF CallInv, Final
<1>7. CommandInv'
  BY <1>1, <1>2, <1>3, <1>4
     DEF KeepInv, CommandInv, LabelsOf, Final, Installing, Uninstalling
<1> QED BY <1>1, <1>5, <1>6, <1>7 DEF KeepInv

-----------------------------------------------------------------------------
(* The invariant holds.                                                    *)

LEMMA KeepStarts == Init => KeepInv
<1> SUFFICES ASSUME Init PROVE KeepInv
  OBVIOUS
<1> USE DEF Init
<1>1. BindingInv
  BY DEF BindingInit, BindingInv, Records, Hosts, Results, Idle
<1>2. kflags \in Flags
  BY FlagsAssumption
<1>3. cmd.name = "uninstall" /\ cmd.flags = kflags /\ cmd.at = "err" /\ cmd.stopped
  OBVIOUS
<1>4. KeepTypeInv
  <2>1. cmd \in Administration
    BY <1>2 DEF Administration, AdminLabels, Final
  <2>2. cmds \in 0..MaxCommands /\ upsets \in 0..MaxUpsets
    BY BoundAssumption
  <2>3. kpc \in KeeperLabels
    BY DEF KeeperLabels
  <2>5. advertises \in BOOLEAN
    BY LocalAssumption
  <2>4. {unit, loaded} \subseteq Flags \cup {NoUnit} /\ cmd.name = "uninstall"
    BY <1>3
  <2> QED BY <1>2, <2>1, <2>2, <2>3, <2>4, <2>5 DEF KeepTypeInv
<1>5. CallInv
  BY <1>3, TwoProcs DEF BindingInit, CallInv, Busy
<1>6. CommandInv
  BY <1>3 DEF CommandInv, LabelsOf, Final, Installing, Uninstalling
<1> QED BY <1>1, <1>4, <1>5, <1>6 DEF KeepInv

LEMMA KeepKeeps == KeepInv /\ [Next]_vars => KeepInv'
<1> SUFFICES ASSUME KeepInv, [Next]_vars PROVE KeepInv'
  OBVIOUS
<1>1. CASE Start
  BY <1>1, StartKeeps
<1>2. CASE Keeper
  BY <1>2, StatusKeeps, KeeperBeginsKeeps, KeeperEndsKeeps, AdvertiseKeeps DEF Keeper
<1>3. CASE Issue
  BY <1>3, IssueKeeps
<1>4. CASE Admin
  BY <1>4, AdminKeeps
<1>5. CASE Misfortune
  BY <1>5, AdminFailsKeeps, StopFailsKeeps, ReloadFailsKeeps, KeeperDiesKeeps,
     OutsideInterferenceKeeps, MachineRebootsKeeps
     DEF Misfortune
<1>6. CASE UNCHANGED vars
  <2>1. UNCHANGED <<bindingVars, serviceVars, keeperVars, boundVars, cmd>>
    BY <1>6 DEF vars
  <2>2. BindingInv'
    BY <2>1, BindingUntouched DEF KeepInv
  <2>3. KeepTypeInv'
    BY <2>1 DEF KeepInv, KeepTypeInv, serviceVars, keeperVars, boundVars
  <2>4. CallInv'
    BY <2>1 DEF KeepInv, CallInv, bindingVars, keeperVars, Busy
  <2>5. CommandInv'
    BY <2>1, CommandUntouched DEF KeepInv, bindingVars, keeperVars
  <2> QED BY <2>2, <2>3, <2>4, <2>5 DEF KeepInv
<1> QED BY <1>1, <1>2, <1>3, <1>4, <1>5, <1>6 DEF Next

LEMMA KeepInvariant == Spec => []KeepInv
BY KeepStarts, KeepKeeps, PTL DEF Spec

-----------------------------------------------------------------------------
(* What it implies.                                                        *)

(***************************************************************************)
(* Types: Keep and Binding keep their variables in range, for any flags,   *)
(* commands and number of upsets.                                          *)
(***************************************************************************)
THEOREM TypeCorrect == Spec => []TypeOK
<1>1. KeepInv => TypeOK
  BY DEF KeepInv, BindingInv, Records, KeepTypeInv, Administration, TypeOK
<1> QED BY <1>1, KeepInvariant, PTL

(***************************************************************************)
(* After a `service uninstall` that reported success no definition is left *)
(* for a boot to load; and no process and no record, in whatever call the  *)
(* keeper was when it was told to stop, unless the service manager failed  *)
(* to stop it (serviceUninstall of service_darwin.go and service_linux.go, *)
(* which drop the error of bootout and of disable --now).                  *)
(***************************************************************************)
THEOREM UninstallIsForGood == Spec => []UninstallIsFinal
<1>1. KeepInv => UninstallIsFinal
  BY DEF KeepInv, CommandInv, Uninstalling, UninstallIsFinal, Done
<1> QED BY <1>1, KeepInvariant, PTL

=============================================================================
