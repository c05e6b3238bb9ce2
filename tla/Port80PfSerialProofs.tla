------------------------- MODULE Port80PfSerialProofs -------------------------
(***************************************************************************)
(* What holds of a binding between its calls, proved for callers that make *)
(* one call at a time on a name (Serial).  If they are not killed Port80Pf *)
(* leaks no pf reference (NoReferenceLeak), and every failure path rolls   *)
(* back (NoOrphans); killed or not, it implements Binding                  *)
(* (ImplementsBinding).  Calls on other names, failing commands and        *)
(* outside interference come between any two steps.                        *)
(*                                                                         *)
(* The invariants say what holds of a name at rest, and what holds during  *)
(* each command of the one call on it.                                     *)
(***************************************************************************)
EXTENDS Port80PfContractProofs, Port80PfBinding, Port80BindingProofs

Mine(n) == AliasesOf(n) \cap alias

-----------------------------------------------------------------------------
(* The record.  It is torn only while its one writer is in the middle.     *)

FileRest(n) == file[n] # Torn

FileDuring(p) ==
  LET n == CallName(p)
      op == call[p].op
  IN
  /\ pc[p] = "write" <=> file[n] = Torn
  /\ pc[p] = "write" => p \in fd
  /\ op = "up" => pc[p] \notin {"teardown", "release", "del", "unroute"}
  /\ op = "up" /\ pc[p] \notin {"load", "write"} => file[n] = NoFile
  /\ op # "up" /\ pc[p] \notin {"load", "save", "write"} => file[n] = st[p]

FileInv ==
  /\ NamedInv
  /\ Alone
  /\ \A n \in Name : ~Working(n) => FileRest(n)
  /\ \A p \in Proc : Busy(p) => FileDuring(p)

-----------------------------------------------------------------------------
(* References.                                                             *)

Tokens(n) == IF file[n] \in State THEN {file[n].tok} ELSE {}

HeldRest(n) == Held(n) \subseteq Tokens(n)

HeldDuring(p) ==
  LET n == CallName(p) IN
  /\ pc[p] \in {"save", "write"} => Held(n) \subseteq {st[p].tok}
  /\ pc[p] \notin {"save", "write"} => Held(n) \subseteq Tokens(n)
  /\ pc[p] \in {"enable", "unload", "undo", "del", "unroute", "clear"} => Held(n) = {}

HeldInv ==
  /\ FileInv
  /\ \A n \in Name : ~Working(n) => HeldRest(n)
  /\ \A p \in Proc : Busy(p) => HeldDuring(p)

-----------------------------------------------------------------------------
(* Aliases and rules.                                                      *)

TidyRest(n) ==
  /\ file[n] = NoFile => anchor[n] = {} /\ Mine(n) = {}
  /\ file[n] \in State => Mine(n) \subseteq file[n].aliases

TidyDuring(p) ==
  LET n == CallName(p)
      op == call[p].op
      s == st[p]
  IN
  /\ pc[p] = "load" => TidyRest(n)
  /\ pc[p] # "load" => Mine(n) \subseteq s.aliases
  /\ op = "up" =>
       /\ pc[p] \in {"alias", "add"} => Mine(n) \subseteq Visited(p)
       /\ pc[p] = "undo" => Mine(n) \subseteq todo[p]
       /\ pc[p] \in {"alias", "add", "wild", "rules", "undo"} => anchor[n] = {}
       /\ pc[p] \in {"wild", "rules", "enable", "unload"} => todo[p] = {}
  /\ op = "down" =>
       /\ pc[p] = "del" => Mine(n) \subseteq todo[p]
       /\ pc[p] = "unroute" => Mine(n) \subseteq todo[p] \ {Cur(p)}
       /\ pc[p] = "clear" => Mine(n) = {}
       /\ pc[p] \in {"release", "del", "unroute", "clear"} => anchor[n] = {}

TidyInv ==
  /\ FileInv
  /\ \A n \in Name : ~Working(n) => TidyRest(n)
  /\ \A p \in Proc : Busy(p) => TidyDuring(p)

-----------------------------------------------------------------------------
(* What a step takes from a binding it is not about: something, perhaps.   *)

NothingNew(n) ==
  /\ file'[n] = file[n]
  /\ Held(n)' \subseteq Held(n)
  /\ Mine(n)' \subseteq Mine(n)
  /\ anchor'[n] \subseteq anchor[n]

LEMMA OtherNamesAlias ==
  ASSUME NamedInv, NEW p \in Proc, CommandStep(p), NEW n \in Name, n # CallName(p)
  PROVE  Mine(n)' \subseteq Mine(n)
<1>1. CASE AddAlias(p)
  <2>1. Cur(p) \in st[p].aliases /\ st[p].aliases \subseteq AliasesOf(CallName(p))
    BY <1>1, AtCommand DEF AddAlias, LoopLabels, NamedInv, CallNamed, CallName
  <2>2. Cur(p) \notin AliasesOf(n)
    BY <2>1, SeparateAliases
  <2> QED BY <1>1, <2>2 DEF AddAlias, Mine
<1>2. CASE ~AddAlias(p)
  <2>1. alias' \subseteq alias
    BY <1>2 DEF CommandStep, HasAlias, DeleteStaleRoute, UndoAlias, RemoveAlias,
         EnsureAppleRdrAnchor, SkippedAliasIfaces, DumpMainRuleset, DumpFilter,
         DumpNat, DumpDummynet, Dump, LoadMainRuleset,
         PFLoadAnchor, AnchorHoldsRules, PFStatus, PFEnable, UnloadAfterFailedEnable,
         FlushForDown, ReleasePF, DeleteAlias, DeleteClonedRoute, HostUnchanged, hostVars
  <2> QED BY <2>1 DEF Mine
<1> QED BY <1>1, <1>2

LEMMA OtherNamesHeld ==
  ASSUME NamedInv, NEW p \in Proc, CommandStep(p), NEW n \in Name, n # CallName(p)
  PROVE  Held(n)' \subseteq Held(n)
<1> USE AtCommand DEF CallName
<1>1. CASE PFEnable(p)
  <2>1. \/ ref' = ref
        \/ \E t \in Token : ref' = [ref EXCEPT ![t] = call[p].name]
    BY <1>1 DEF PFEnable
  <2> QED BY <2>1 DEF Held
<1>2. CASE ReleasePF(p)
  BY <1>2, HolderAssumption DEF ReleasePF, Held
<1>3. CASE ref' = ref
  BY <1>3 DEF Held
<1> QED BY <1>1, <1>2, <1>3
        DEF CommandStep, HasAlias, DeleteStaleRoute, AddAlias, UndoAlias,
         EnsureAppleRdrAnchor, SkippedAliasIfaces, DumpMainRuleset, DumpFilter,
         DumpNat, DumpDummynet, Dump, LoadMainRuleset,
         PFLoadAnchor, AnchorHoldsRules, PFStatus, UnloadAfterFailedEnable,
         FlushForDown, DeleteAlias, DeleteClonedRoute, HostUnchanged, hostVars

LEMMA OtherNames ==
  ASSUME NamedInv, NEW p \in Proc, ProcStep(p), NEW n \in Name, n # call'[p].name
  PROVE  NothingNew(n)
<1>1. CASE CommandStep(p)
  <2>1. n # CallName(p) /\ file' = file
    BY <1>1, AtCommand DEF CallName
  <2>2. anchor'[n] \subseteq anchor[n]
    BY <1>1, <2>1, AtCommand
       DEF CommandStep, HasAlias, DeleteStaleRoute, AddAlias, UndoAlias,
         EnsureAppleRdrAnchor, SkippedAliasIfaces, DumpMainRuleset, DumpFilter,
         DumpNat, DumpDummynet, Dump, LoadMainRuleset,
         PFLoadAnchor, AnchorHoldsRules, PFStatus, PFEnable, UnloadAfterFailedEnable,
         FlushForDown, FlushAnchor, ReleasePF, DeleteAlias, DeleteClonedRoute,
         HostUnchanged, hostVars, CallName
  <2> QED BY <1>1, <2>1, <2>2, OtherNamesAlias, OtherNamesHeld DEF NothingNew
<1>2. CASE ~CommandStep(p)
  <2>1. HostUnchanged
    BY <1>2 DEF ProcStep, CallStep, RecordStep, KillStep
  <2>2. file'[n] = file[n]
    BY <1>2 DEF ProcStep, CallStep, RecordStep, KillStep, Kill, Up, Down, Verify, Reassert,
         Begin, LoadForUp, LoadRecord, SaveTruncate, SaveWrite, SaveFailed, ClearState,
         NamedInv, TypeInv, TypeOK
  <2> QED BY <2>1, <2>2 DEF HostUnchanged, hostVars, NothingNew, Held, Mine
<1> QED BY <1>1, <1>2

LEMMA OutsideNames ==
  ASSUME NamedInv, OutsideStep, NEW n \in Name
  PROVE  NothingNew(n)
<1>1. file' = file
  BY DEF OutsideStep, callVars
<1>2. Held(n)' \subseteq Held(n)
  BY HolderAssumption
     DEF OutsideStep, OutsideFlush, OutsideDisable, InternetSharing, OutsideReload,
         OutsideAliasLoss, OutsideReference, Held, NamedInv, TypeInv, TypeOK
<1>3. Mine(n)' \subseteq Mine(n) /\ anchor'[n] \subseteq anchor[n]
  BY DEF OutsideStep, OutsideFlush, OutsideDisable, InternetSharing, OutsideReload,
         OutsideAliasLoss, RemoveAlias, OutsideReference, Mine, NamedInv, TypeInv, TypeOK
<1> QED BY <1>1, <1>2, <1>3 DEF NothingNew

-----------------------------------------------------------------------------
(* One call at a time.                                                     *)

LEMMA NoKill ==
  ASSUME NEW p \in Proc, ProcStep(p), "kill" \notin Faults
  PROVE  CallStep(p) \/ RecordStep(p) \/ CommandStep(p)
  BY DEF ProcStep, KillStep, Kill

(***************************************************************************)
(* A call begins on a name nobody works on, and stays on its name.         *)
(***************************************************************************)
LEMMA CallsAlone ==
  ASSUME Serial, NamedInv, Alone, NEW p \in Proc, ProcStep(p)
  PROVE  /\ \A q \in Proc \ {p} : Busy(q) => CallName(q) # call'[p].name
         /\ CallStep(p) => ~Working(call'[p].name) /\ pc'[p] = "load"
         /\ ~CallStep(p) => Busy(p) /\ call'[p] = call[p]
         /\ Alone'
<1>1. CASE CallStep(p)
  <2>1. PICK op, n, s : n \in Name /\ Begin(p, op, n, s)
    <3>1. CASE \E o \in Options : Up(p, o)
      BY <3>1, OptionsName DEF Up
    <3>2. CASE \E n \in Name : Down(p, n) \/ Verify(p, n) \/ Reassert(p, n)
      BY <3>2 DEF Down, Verify, Reassert
    <3> QED BY <1>1, <3>1, <3>2 DEF CallStep
  <2>2. call'[p].name = n /\ pc'[p] = "load"
    BY <2>1 DEF Begin, Goto, NamedInv, TypeInv, TypeOK
  <2>3. \A q \in Proc : Busy(q) => CallName(q) # n
    BY <2>1 DEF Begin, CallName
  <2>4. Alone'
    BY <2>2, <2>3, OthersKept DEF Alone, Busy, CallName, CallKept, NamedInv
  <2>5. ~Working(call'[p].name)
    BY <2>2, <2>3 DEF Working, CallName
  <2> QED BY <1>1, <2>2, <2>3, <2>4, <2>5
<1>2. CASE ~CallStep(p)
  <2>1. Busy(p) /\ call'[p] = call[p]
    BY <1>2, AtCommand
       DEF ProcStep, RecordStep, LoadForUp, LoadRecord, SaveTruncate, SaveWrite,
           SaveFailed, ClearState, KillStep, Kill, Busy
  <2>2. \A q \in Proc \ {p} : Busy(q) => CallName(q) # call'[p].name
    BY <2>1 DEF Alone, CallName
  <2>3. Alone'
    BY <2>1, OthersKept DEF Alone, Busy, CallName, CallKept, NamedInv
  <2> QED BY <1>2, <2>1, <2>2, <2>3
<1> QED BY <1>1, <1>2

(***************************************************************************)
(* What a step of p means for the name n: nothing is new there, unless n   *)
(* is the name of p's call, which p is working on or has just left.        *)
(***************************************************************************)
LEMMA RestStep ==
  ASSUME Serial, NamedInv, Alone, NEW p \in Proc, ProcStep(p),
         NEW n \in Name, ~Working(n)'
  PROVE  \/ n = call'[p].name /\ pc'[p] = "idle"
         \/ n # call'[p].name /\ ~Working(n) /\ NothingNew(n)
<1>1. CASE n = call'[p].name
  BY <1>1 DEF Working, Busy
<1>2. CASE n # call'[p].name
  <2>1. ASSUME NEW q \in Proc, Busy(q), call[q].name = n PROVE FALSE
    <3>1. CASE q = p
      BY <1>2, <2>1, <3>1, CallsAlone
         DEF CallStep, Up, Down, Verify, Reassert, Begin
    <3>2. CASE q # p
      BY <2>1, <3>2, OthersKept DEF Working, Busy, CallKept, NamedInv
    <3> QED BY <3>1, <3>2
  <2> QED BY <1>2, <2>1, OtherNames DEF Working
<1> QED BY <1>1, <1>2

LEMMA DuringStep ==
  ASSUME Serial, NamedInv, Alone, NEW p \in Proc, ProcStep(p),
         NEW q \in Proc \ {p}, Busy(q)'
  PROVE  /\ Busy(q) /\ CallKept(q) /\ CallName(q) \in Name
         /\ CallName(q) # call'[p].name /\ NothingNew(CallName(q))
<1>1. CallKept(q) /\ Busy(q)
  BY OthersKept DEF CallKept, Busy, NamedInv
<1>2. CallName(q) \in Name /\ CallName(q) # call'[p].name
  BY <1>1, CallsAlone, TypeFacts DEF NamedInv, CallName
<1> QED BY <1>1, <1>2, OtherNames

(***************************************************************************)
(* Steps that belong to no call: the rest of the machine, and stuttering.  *)
(***************************************************************************)
IdleStep == OutsideStep \/ UNCHANGED vars

LEMMA IdleNames ==
  ASSUME NamedInv, IdleStep
  PROVE  UNCHANGED callVars /\ \A n \in Name : NothingNew(n)
<1>1. CASE OutsideStep
  BY <1>1, OutsideNames DEF OutsideStep
<1>2. CASE UNCHANGED vars
  BY <1>2 DEF vars, pfVars, hostVars, callVars, NothingNew, Held, Mine
<1> QED BY <1>1, <1>2 DEF IdleStep

LEMMA NextSteps ==
  ASSUME [Next]_vars
  PROVE  IdleStep \/ Reboot \/ \E p \in Proc : ProcStep(p)
  BY DEF Next, ProcStep, IdleStep

-----------------------------------------------------------------------------
(* The record.                                                             *)

LEMMA FileOwn ==
  ASSUME Serial, "kill" \notin Faults, "save" \notin Faults,
         FileInv, NEW p \in Proc, ProcStep(p)
  PROVE  /\ pc'[p] = "idle" => FileRest(CallName(p))'
         /\ pc'[p] # "idle" => FileDuring(p)'
<1>1. /\ NamedInv /\ Alone /\ TypeInv
      /\ CallName(p) \in Name /\ call[p].op \in Ops
      /\ NoFile # Torn /\ Torn \notin State /\ NoFile \notin State
      /\ pc[p] \notin {"idle", "load"} => st[p] \in State
      /\ OnTrack(p)
      /\ Busy(p) => FileDuring(p)
  BY SentinelAssumption, TypeFacts DEF FileInv, NamedInv, CallName
<1>2. CASE CallStep(p)
  <2>1. pc'[p] = "load" /\ ~Working(call'[p].name) /\ file' = file /\ call'[p].name \in Name
    BY <1>1, <1>2, CallsAlone, CallNames, CallTypes
       DEF TypedStep, Types
  <2> QED BY <2>1 DEF FileInv, FileRest, FileDuring, CallName
<1>3. CASE RecordStep(p)
  <2> USE <1>1 DEF Goto, TypeInv, TypeOK, FileRest, FileDuring, CallName, Busy
  <2>1. CASE LoadForUp(p)
    BY <2>1 DEF LoadForUp
  <2>2. CASE LoadRecord(p)
    BY <2>2 DEF LoadRecord
  <2>3. CASE SaveTruncate(p)
    BY <2>3 DEF SaveTruncate, SaveFailed
  <2>4. CASE SaveWrite(p)
    BY <2>4 DEF SaveWrite, SaveFailed, Written
  <2>5. CASE ClearState(p)
    BY <2>5 DEF ClearState
  <2> QED BY <1>3, <2>1, <2>2, <2>3, <2>4, <2>5 DEF RecordStep
<1>4. CASE CommandStep(p)
  <2>1. UNCHANGED <<file, fd, call>> /\ OnTrack(p)'
    BY <1>1, <1>4, CommandNames
       DEF CommandStep, HasAlias, DeleteStaleRoute, AddAlias, UndoAlias,
         EnsureAppleRdrAnchor, SkippedAliasIfaces, DumpMainRuleset, DumpFilter,
         DumpNat, DumpDummynet, Dump, LoadMainRuleset,
         PFLoadAnchor, AnchorHoldsRules, PFStatus, PFEnable, UnloadAfterFailedEnable,
         FlushForDown, ReleasePF, DeleteAlias, DeleteClonedRoute
  <2>2. CASE PFEnable(p)
    BY <1>1, <2>1, <2>2
       DEF PFEnable, Abort, Goto, TypeInv, TypeOK, FileRest, FileDuring, CallName, Busy
  <2>3. CASE ~PFEnable(p)
    BY <1>1, <1>4, <2>1, <2>3
       DEF CommandStep, HasAlias, DeleteStaleRoute, AddAlias, UndoAlias,
         EnsureAppleRdrAnchor, SkippedAliasIfaces, DumpMainRuleset, DumpFilter,
         DumpNat, DumpDummynet, Dump, LoadMainRuleset,
         PFLoadAnchor, AnchorHoldsRules, PFStatus, UnloadAfterFailedEnable,
         FlushForDown, ReleasePF, DeleteAlias, DeleteClonedRoute,
         EndPass, Abort, Goto, TypeInv, TypeOK, FileRest, FileDuring, CallName, Busy
  <2> QED BY <2>2, <2>3
<1> QED BY <1>2, <1>3, <1>4, NoKill

LEMMA FileStep ==
  ASSUME Serial, "kill" \notin Faults, "save" \notin Faults, FileInv, [Next]_vars
  PROVE  FileInv'
<1>1. NamedInv /\ NamedInv' /\ Alone
  BY NamedStep DEF FileInv
<1>2. ASSUME NEW p \in Proc, ProcStep(p) PROVE FileInv'
  <2>1. Alone'
    BY <1>1, <1>2, CallsAlone
  <2>2. ASSUME NEW n \in Name, ~Working(n)' PROVE FileRest(n)'
    BY <1>1, <1>2, <2>2, RestStep, FileOwn DEF FileInv, FileRest, NothingNew, CallName
  <2>3. ASSUME NEW q \in Proc, Busy(q)' PROVE FileDuring(q)'
    <3>1. CASE q = p
      BY <1>2, <2>3, <3>1, FileOwn DEF Busy
    <3>2. CASE q # p
      <4>1. /\ FileDuring(q) /\ CallKept(q) /\ file'[CallName(q)] = file[CallName(q)]
        BY <1>1, <1>2, <2>3, <3>2, DuringStep DEF FileInv, NothingNew
      <4> QED BY <4>1, SentinelAssumption DEF FileDuring, CallKept, CallName
    <3> QED BY <3>1, <3>2
  <2> QED BY <1>1, <2>1, <2>2, <2>3 DEF FileInv
<1>3. CASE IdleStep
  <2>1. UNCHANGED callVars
    BY <1>1, <1>3, IdleNames
  <2> QED BY <1>1, <2>1
          DEF callVars, FileInv, Alone, Working, Busy, CallName, FileRest, FileDuring
<1>4. CASE Reboot
  BY <1>1, <1>4, SentinelAssumption
     DEF Reboot, RebootCalls, FileInv, Alone, Working, Busy, FileRest
<1> QED BY <1>2, <1>3, <1>4, NextSteps

LEMMA FileInit == Init => FileInv
<1>1. Init => NamedInv
  BY NamedInit DEF ContractInv
<1> QED BY <1>1, SentinelAssumption DEF Init, CallInit, FileInv, Alone, Working, Busy, FileRest

-----------------------------------------------------------------------------
(* References.                                                             *)

LEMMA HeldOwn ==
  ASSUME Serial, Faults \cap {"kill", "save", "unload", "parse"} = {},
         HeldInv, NEW p \in Proc, ProcStep(p)
  PROVE  /\ pc'[p] = "idle" => HeldRest(CallName(p))'
         /\ pc'[p] # "idle" => HeldDuring(p)'
<1>1. /\ FileInv /\ NamedInv /\ Alone /\ TypeInv
      /\ CallName(p) \in Name /\ call[p].op \in Ops
      /\ NoFile # Torn /\ Torn \notin State /\ NoFile \notin State
      /\ pc[p] \notin {"idle", "load"} => st[p] \in State
      /\ OnTrack(p)
      /\ Busy(p) => FileDuring(p) /\ HeldDuring(p)
      /\ Outside \notin Name /\ Free \notin Name
  BY SentinelAssumption, HolderAssumption, TypeFacts
     DEF HeldInv, FileInv, NamedInv, CallName
<1>2. CASE CallStep(p)
  <2>1. /\ pc'[p] = "load" /\ ~Working(call'[p].name) /\ file' = file
        /\ call'[p].name \in Name /\ ref' = ref
    BY <1>1, <1>2, CallsAlone, CallNames, CallTypes
       DEF TypedStep, Types, CallStep, HostUnchanged, hostVars
  <2> QED BY <2>1 DEF HeldInv, HeldRest, HeldDuring, Held, Tokens, CallName
<1>3. CASE RecordStep(p)
  <2>1. ref' = ref
    BY <1>3 DEF RecordStep, HostUnchanged, hostVars
  <2> USE <1>1, <2>1
      DEF Goto, TypeInv, TypeOK, FileDuring, HeldRest, HeldDuring, Held, Tokens,
          CallName, Busy
  <2>2. CASE LoadForUp(p)
    BY <2>2 DEF LoadForUp
  <2>3. CASE LoadRecord(p)
    BY <2>3 DEF LoadRecord
  <2>4. CASE SaveTruncate(p)
    BY <2>4 DEF SaveTruncate, SaveFailed
  <2>5. CASE SaveWrite(p)
    BY <2>5 DEF SaveWrite, SaveFailed, Written
  <2>6. CASE ClearState(p)
    BY <2>6 DEF ClearState
  <2> QED BY <1>3, <2>2, <2>3, <2>4, <2>5, <2>6 DEF RecordStep
<1>4. CASE CommandStep(p)
  <2>1. UNCHANGED <<file, call>> /\ OnTrack(p)' /\ pc[p] \notin {"idle", "load", "save", "write"}
    BY <1>1, <1>4, CommandNames
       DEF CommandStep, HasAlias, DeleteStaleRoute, AddAlias, UndoAlias,
         EnsureAppleRdrAnchor, SkippedAliasIfaces, DumpMainRuleset, DumpFilter,
         DumpNat, DumpDummynet, Dump, LoadMainRuleset,
         PFLoadAnchor, AnchorHoldsRules, PFStatus, PFEnable, UnloadAfterFailedEnable,
         FlushForDown, ReleasePF, DeleteAlias, DeleteClonedRoute
  <2>2. CASE PFEnable(p)
    <3>1. CASE ref' = ref
      BY <1>1, <2>1, <2>2, <3>1
         DEF PFEnable, Abort, Goto, TypeInv, TypeOK, HeldRest, HeldDuring, Held, Tokens,
             CallName, Busy
    <3>2. CASE ref' # ref
      <4>1. PICK t \in Token : /\ ref' = [ref EXCEPT ![t] = CallName(p)]
                               /\ st' = [st EXCEPT ![p].tok = t]
                               /\ pc'[p] = "save"
        BY <1>1, <2>1, <2>2, <3>2
           DEF PFEnable, ParsePFToken, Goto, CallName, TypeInv, TypeOK
      <4>2. st'[p].tok = t
        BY <1>1, <2>1, <4>1 DEF State, TypeInv, TypeOK
      <4>3. Held(CallName(p)) = {} /\ pc[p] = "enable"
        BY <1>1, <2>1, <2>2 DEF PFEnable, HeldDuring, Busy
      <4> QED BY <1>1, <2>1, <4>1, <4>2, <4>3
              DEF HeldRest, HeldDuring, Held, CallName, TypeInv, TypeOK
    <3> QED BY <3>1, <3>2
  <2>3. CASE ReleasePF(p)
    <3>1. /\ pc[p] = "release" /\ pc'[p] = "del"
          /\ st[p].tok \in Token \cup {NoToken}
          /\ Held(CallName(p)) \subseteq Tokens(CallName(p))
      BY <1>1, <2>1, <2>3 DEF ReleasePF, Goto, State, HeldDuring, Busy, TypeInv, TypeOK
    <3>2. Held(CallName(p)) \subseteq {st[p].tok}
      BY <1>1, <2>1, <3>1 DEF FileDuring, Tokens, Busy, OnTrack, CallName, Ops
    <3>3. Held(CallName(p))' = {}
      BY <1>1, <2>1, <2>3, <3>1, <3>2, SentinelAssumption
         DEF ReleasePF, Held, CallName, TypeInv, TypeOK
    <3> QED BY <3>1, <3>3 DEF HeldDuring, CallName
  <2>4. CASE ~PFEnable(p) /\ ~ReleasePF(p)
    <3>1. ref' = ref /\ st' = st
      BY <1>4, <2>4
         DEF CommandStep, HasAlias, DeleteStaleRoute, AddAlias, UndoAlias,
           EnsureAppleRdrAnchor, SkippedAliasIfaces, DumpMainRuleset, DumpFilter,
         DumpNat, DumpDummynet, Dump, LoadMainRuleset,
           PFLoadAnchor, AnchorHoldsRules, PFStatus, UnloadAfterFailedEnable,
           FlushForDown, DeleteAlias, DeleteClonedRoute, HostUnchanged, hostVars
    <3>2. CASE PFStatus(p)
      <4>1. ~PFEnabled => Held(CallName(p)) = {}
        BY <1>1 DEF PFEnabled, Held
      <4> QED BY <1>1, <2>1, <3>1, <3>2, <4>1
         DEF PFStatus, Abort, Goto, TypeInv, TypeOK, FileDuring, HeldRest, HeldDuring,
             Held, Tokens, CallName, Busy
    <3>3. CASE PFLoadAnchor(p)
      BY <1>1, <2>1, <3>1, <3>3
         DEF PFLoadAnchor, Abort, Goto, TypeInv, TypeOK, FileDuring, HeldRest, HeldDuring,
             Held, Tokens, CallName, Busy
    <3>4. CASE ~PFStatus(p) /\ ~PFLoadAnchor(p)
      BY <1>1, <1>4, <2>1, <2>4, <3>1, <3>4
         DEF CommandStep, HasAlias, DeleteStaleRoute, AddAlias, UndoAlias,
           EnsureAppleRdrAnchor, SkippedAliasIfaces, DumpMainRuleset, DumpFilter,
         DumpNat, DumpDummynet, Dump, LoadMainRuleset,
           AnchorHoldsRules, UnloadAfterFailedEnable, FlushForDown, DeleteAlias,
           DeleteClonedRoute, EndPass, Abort, Goto, TypeInv, TypeOK, FileDuring,
           HeldRest, HeldDuring, Held, Tokens, CallName, Busy
    <3> QED BY <3>2, <3>3, <3>4
  <2> QED BY <2>2, <2>3, <2>4
<1> QED BY <1>2, <1>3, <1>4, NoKill

LEMMA HeldStep ==
  ASSUME Serial, Faults \cap {"kill", "save", "unload", "parse"} = {},
         HeldInv, [Next]_vars
  PROVE  HeldInv'
<1>1. FileInv /\ FileInv' /\ NamedInv /\ NamedInv' /\ Alone
  BY FileStep, NamedStep DEF HeldInv, FileInv
<1>2. ASSUME NEW p \in Proc, ProcStep(p) PROVE HeldInv'
  <2>1. ASSUME NEW n \in Name, ~Working(n)' PROVE HeldRest(n)'
    BY <1>1, <1>2, <2>1, RestStep, HeldOwn
       DEF HeldInv, HeldRest, NothingNew, Tokens, CallName
  <2>2. ASSUME NEW q \in Proc, Busy(q)' PROVE HeldDuring(q)'
    <3>1. CASE q = p
      BY <1>2, <2>2, <3>1, HeldOwn DEF Busy
    <3>2. CASE q # p
      <4>1. HeldDuring(q) /\ CallKept(q) /\ NothingNew(CallName(q))
        BY <1>1, <1>2, <2>2, <3>2, DuringStep DEF HeldInv
      <4>2. /\ pc'[q] = pc[q] /\ st'[q] = st[q] /\ CallName(q)' = CallName(q)
            /\ Held(CallName(q))' \subseteq Held(CallName(q))
            /\ Tokens(CallName(q))' = Tokens(CallName(q))
        BY <4>1 DEF CallKept, CallName, NothingNew, Tokens, Held
      <4> QED BY <4>1, <4>2 DEF HeldDuring, CallName, Held, Tokens
    <3> QED BY <3>1, <3>2
  <2> QED BY <1>1, <2>1, <2>2 DEF HeldInv
<1>3. CASE IdleStep
  <2>1. UNCHANGED callVars /\ \A n \in Name : NothingNew(n)
    BY <1>1, <1>3, IdleNames
  <2>2. \A n \in Name : ~Working(n)' => HeldRest(n)'
    BY <2>1 DEF callVars, HeldInv, Working, Busy, HeldRest, NothingNew, Tokens, Held
  <2>3. ASSUME NEW q \in Proc, Busy(q)' PROVE HeldDuring(q)'
    <3>1. CallName(q) \in Name
      BY <1>1, TypeFacts DEF NamedInv, CallName
    <3>2. /\ HeldDuring(q) /\ UNCHANGED <<file, pc, call, st>>
          /\ Held(CallName(q))' \subseteq Held(CallName(q))
      BY <2>1, <2>3, <3>1 DEF callVars, HeldInv, Busy, NothingNew, Held, CallName
    <3> QED BY <3>2 DEF HeldDuring, CallName, Held, Tokens
  <2> QED BY <1>1, <2>2, <2>3 DEF HeldInv
<1>4. CASE Reboot
  BY <1>1, <1>4, HolderAssumption
     DEF Reboot, RebootCalls, HeldInv, Busy, HeldRest, Held
<1> QED BY <1>2, <1>3, <1>4, NextSteps

(***************************************************************************)
(* No pf reference leaks, however often a binding is taken up, healed and  *)
(* torn down: between calls a name holds at most the reference its state   *)
(* file records.  The callers serialise their calls on a name and are not  *)
(* killed; saves and releases work, and pfctl's token is understood.       *)
(***************************************************************************)
THEOREM NoReferenceLeaks ==
  ASSUME Serial, Faults \cap {"kill", "save", "unload", "parse"} = {}
  PROVE  Spec => []NoReferenceLeak
<1>1. Init => HeldInv
  BY FileInit, HolderAssumption
     DEF Init, CallInit, HostInit, HeldInv, Busy, HeldRest, Held
<1>2. HeldInv /\ [Next]_vars => HeldInv'
  BY HeldStep
<1>3. HeldInv => NoReferenceLeak
  BY DEF HeldInv, HeldRest, Tokens, Held, NoReferenceLeak
<1> QED BY <1>1, <1>2, <1>3, PTL DEF Spec

-----------------------------------------------------------------------------
(* Aliases and rules.                                                      *)

(***************************************************************************)
(* A command changes of a process' State at most the token.                *)
(***************************************************************************)
LEMMA CommandStates ==
  ASSUME NamedInv, NEW p \in Proc, CommandStep(p)
  PROVE  st'[p].aliases = st[p].aliases
<1>1. st[p] \in State /\ st \in [Proc -> State \cup {NoState}]
  BY AtCommand, TypeFacts DEF NamedInv, TypeInv, TypeOK
<1>2. CASE PFEnable(p)
  <2>1. st' = st \/ \E tok \in Token \cup {NoToken} : st' = [st EXCEPT ![p].tok = tok]
    BY <1>2 DEF PFEnable, ParsePFToken
  <2> QED BY <1>1, <2>1 DEF State
<1>3. CASE st' = st
  BY <1>3
<1> QED
  BY <1>2, <1>3
     DEF CommandStep, HasAlias, DeleteStaleRoute, AddAlias, UndoAlias,
       EnsureAppleRdrAnchor, SkippedAliasIfaces, DumpMainRuleset, DumpFilter,
         DumpNat, DumpDummynet, Dump, LoadMainRuleset,
       PFLoadAnchor, AnchorHoldsRules, PFStatus, UnloadAfterFailedEnable,
       FlushForDown, ReleasePF, DeleteAlias, DeleteClonedRoute

LEMMA TidyOwn ==
  ASSUME Serial, Faults \cap {"kill", "save", "unload", "del"} = {},
         TidyInv, NEW p \in Proc, ProcStep(p)
  PROVE  /\ pc'[p] = "idle" => TidyRest(CallName(p))'
         /\ pc'[p] # "idle" => TidyDuring(p)'
<1>1. /\ FileInv /\ NamedInv /\ Alone /\ TypeInv
      /\ CallName(p) \in Name /\ call[p].op \in Ops
      /\ NoFile # Torn /\ Torn \notin State /\ NoFile \notin State
      /\ pc[p] \notin {"idle", "load"} => st[p] \in State
      /\ OnTrack(p)
      /\ Busy(p) => FileDuring(p) /\ TidyDuring(p)
      /\ pc[p] \in LoopLabels => Cur(p) \in todo[p]
  BY SentinelAssumption, TypeFacts DEF TidyInv, FileInv, NamedInv, CallName
<1>2. CASE CallStep(p)
  <2>1. /\ pc'[p] = "load" /\ ~Working(call'[p].name) /\ file' = file
        /\ call'[p].name \in Name /\ alias' = alias /\ anchor' = anchor
    BY <1>1, <1>2, CallsAlone, CallNames, CallTypes
       DEF TypedStep, Types, CallStep, HostUnchanged, hostVars
  <2> QED BY <2>1 DEF TidyInv, TidyRest, TidyDuring, Mine, CallName
<1>3. CASE RecordStep(p)
  <2>1. alias' = alias /\ anchor' = anchor
    BY <1>3 DEF RecordStep, HostUnchanged, hostVars
  <2> USE <1>1, <2>1
      DEF Goto, Loop, TypeInv, TypeOK, FileDuring, TidyRest, TidyDuring, Mine,
          CallName, Busy, Visited
  <2>2. CASE LoadForUp(p)
    BY <2>2 DEF LoadForUp
  <2>3. CASE LoadRecord(p)
    BY <2>3 DEF LoadRecord
  <2>4. CASE SaveTruncate(p)
    BY <2>4 DEF SaveTruncate, SaveFailed
  <2>5. CASE SaveWrite(p)
    BY <2>5 DEF SaveWrite, SaveFailed, Written
  <2>6. CASE ClearState(p)
    BY <2>6 DEF ClearState, OnTrack, UpLabels, UpFails, VerifyLabels, ReassertLabels, Ops
  <2> QED BY <1>3, <2>2, <2>3, <2>4, <2>5, <2>6 DEF RecordStep
<1>4. CASE CommandStep(p)
  <2>1. /\ UNCHANGED <<file, call>> /\ OnTrack(p)'
        /\ pc[p] \notin {"idle", "load", "save", "write"}
        /\ st'[p].aliases = st[p].aliases
    BY <1>1, <1>4, CommandNames, CommandStates
       DEF CommandStep, HasAlias, DeleteStaleRoute, AddAlias, UndoAlias,
         EnsureAppleRdrAnchor, SkippedAliasIfaces, DumpMainRuleset, DumpFilter,
         DumpNat, DumpDummynet, Dump, LoadMainRuleset,
         PFLoadAnchor, AnchorHoldsRules, PFStatus, PFEnable, UnloadAfterFailedEnable,
         FlushForDown, ReleasePF, DeleteAlias, DeleteClonedRoute
  <2>2. /\ FileDuring(p) /\ TidyDuring(p)
        /\ file[CallName(p)] \in State => file[CallName(p)] = st[p]
        /\ call[p].op = "up" => file[CallName(p)] = NoFile
        /\ call[p].op # "up" => file[CallName(p)] = st[p]
        /\ call[p].op = "up" => pc[p] \notin {"del", "unroute"}
    BY <1>1, <2>1 DEF FileDuring, Busy, CallName
  <2>0. /\ call[p].op = "up" => pc[p] \notin {"has", "rdr", "status", "skip", "dump",
               "dumpnat", "dumpdummynet", "main"}
        /\ pc[p] \in {"del", "unroute"} => call[p].op = "down"
    BY <1>1, <2>2 DEF OnTrack, UpLabels, UpFails, VerifyLabels, ReassertLabels, Ops
  <2> USE <2>0, <1>1, <2>1, <2>2
      DEF Goto, Loop, EndPass, Abort, TypeInv, TypeOK, TidyRest, TidyDuring, Mine,
          CallName, Busy, Visited, OnTrack, Ops, HostUnchanged, hostVars
  <2>3. CASE HasAlias(p)
    BY <2>3 DEF HasAlias
  <2>4. CASE DeleteStaleRoute(p)
    BY <2>4 DEF DeleteStaleRoute
  <2>5. CASE AddAlias(p)
    BY <2>5 DEF AddAlias, LoopLabels
  <2>6. CASE UndoAlias(p)
    BY <2>6 DEF UndoAlias, RemoveAlias
  <2>7. CASE EnsureAppleRdrAnchor(p)
    BY <2>7 DEF EnsureAppleRdrAnchor
  <2>8. CASE SkippedAliasIfaces(p)
    BY <2>8 DEF SkippedAliasIfaces
  <2>9. CASE DumpMainRuleset(p)
    BY <2>9 DEF DumpMainRuleset, DumpFilter, DumpNat, DumpDummynet, Dump
  <2>10. CASE LoadMainRuleset(p)
    BY <2>10 DEF LoadMainRuleset
  <2>11. CASE PFLoadAnchor(p)
    BY <2>11 DEF PFLoadAnchor
  <2>12. CASE AnchorHoldsRules(p)
    BY <2>12 DEF AnchorHoldsRules
  <2>13. CASE PFStatus(p)
    BY <2>13 DEF PFStatus
  <2>14. CASE PFEnable(p)
    BY <2>14 DEF PFEnable
  <2>15. CASE UnloadAfterFailedEnable(p)
    BY <2>15 DEF UnloadAfterFailedEnable, FlushAnchor
  <2>16. CASE FlushForDown(p)
    BY <2>16 DEF FlushForDown, FlushAnchor
  <2>17. CASE ReleasePF(p)
    BY <2>17 DEF ReleasePF
  <2>18. CASE DeleteAlias(p)
    BY <2>18 DEF DeleteAlias, RemoveAlias, Cur
  <2>19. CASE DeleteClonedRoute(p)
    BY <2>19 DEF DeleteClonedRoute
  <2> QED BY <1>4, <2>3, <2>4, <2>5, <2>6, <2>7, <2>8, <2>9, <2>10, <2>11, <2>12,
             <2>13, <2>14, <2>15, <2>16, <2>17, <2>18, <2>19 DEF CommandStep
<1> QED BY <1>2, <1>3, <1>4, NoKill

LEMMA TidyStep ==
  ASSUME Serial, Faults \cap {"kill", "save", "unload", "del"} = {},
         TidyInv, [Next]_vars
  PROVE  TidyInv'
<1>1. FileInv /\ FileInv' /\ NamedInv /\ NamedInv' /\ Alone
  BY FileStep, NamedStep DEF TidyInv, FileInv
<1>2. ASSUME NEW p \in Proc, ProcStep(p) PROVE TidyInv'
  <2>1. ASSUME NEW n \in Name, ~Working(n)' PROVE TidyRest(n)'
    <3>1. CASE n = call'[p].name /\ pc'[p] = "idle"
      <4>1. call'[p] = call[p]
        BY <1>1, <1>2, <3>1, CallsAlone
      <4> QED BY <1>2, <3>1, <4>1, TidyOwn DEF CallName, TidyRest, Mine
    <3>2. CASE ~Working(n) /\ NothingNew(n)
      BY <2>1, <3>2 DEF TidyInv, TidyRest, NothingNew, Mine
    <3> QED BY <1>1, <1>2, <2>1, <3>1, <3>2, RestStep
  <2>2. ASSUME NEW q \in Proc, Busy(q)' PROVE TidyDuring(q)'
    <3>1. CASE q = p
      BY <1>2, <2>2, <3>1, TidyOwn DEF Busy
    <3>2. CASE q # p
      <4>1. TidyDuring(q) /\ CallKept(q) /\ NothingNew(CallName(q))
        BY <1>1, <1>2, <2>2, <3>2, DuringStep DEF TidyInv
      <4> QED BY <4>1
              DEF CallKept, NothingNew, TidyDuring, TidyRest, CallName, Visited, Cur, Mine
    <3> QED BY <3>1, <3>2
  <2> QED BY <1>1, <2>1, <2>2 DEF TidyInv
<1>3. CASE IdleStep
  <2>1. UNCHANGED callVars /\ \A n \in Name : NothingNew(n)
    BY <1>1, <1>3, IdleNames
  <2>2. \A n \in Name : ~Working(n)' => TidyRest(n)'
    BY <2>1 DEF callVars, TidyInv, Working, Busy, TidyRest, NothingNew, Mine
  <2>3. ASSUME NEW q \in Proc, Busy(q)' PROVE TidyDuring(q)'
    <3>1. CallName(q) \in Name
      BY <1>1, TypeFacts DEF NamedInv, CallName
    <3>2. TidyDuring(q) /\ UNCHANGED <<pc, call, st, todo>> /\ NothingNew(CallName(q))
      BY <2>1, <2>3, <3>1 DEF callVars, TidyInv, Busy
    <3> QED BY <3>2 DEF NothingNew, TidyDuring, TidyRest, CallName, Visited, Cur, Mine
  <2> QED BY <1>1, <2>2, <2>3 DEF TidyInv
<1>4. CASE Reboot
  BY <1>1, <1>4, SentinelAssumption
     DEF Reboot, RebootCalls, TidyInv, Busy, TidyRest, Mine
<1> QED BY <1>2, <1>3, <1>4, NextSteps

(***************************************************************************)
(* Every failure path rolls back: whichever of its commands fails, a call  *)
(* that leaves no state file leaves no rules loaded and no alias on an     *)
(* interface, in the same setting and with removals that work.             *)
(***************************************************************************)
THEOREM FailuresRollBack ==
  ASSUME Serial, Faults \cap {"kill", "save", "unload", "del"} = {}
  PROVE  Spec => []NoOrphans
<1>1. Init => TidyInv
  BY FileInit, SentinelAssumption
     DEF Init, CallInit, HostInit, TidyInv, Busy, TidyRest, Mine
<1>2. TidyInv /\ [Next]_vars => TidyInv'
  BY TidyStep
<1>3. TidyInv => NoOrphans
  BY DEF TidyInv, TidyRest, Mine, NoOrphans
<1> QED BY <1>1, <1>2, <1>3, PTL DEF Spec

-----------------------------------------------------------------------------
(* Binding.  The history knows a name at rest; during a call the machine   *)
(* is what the call has found and the commands so far have made of it.     *)

(***************************************************************************)
(* Until a call has changed something, and throughout a Verify, only       *)
(* others change the machine, and they install nothing.                    *)
(***************************************************************************)
HostSeen(p) ==
  LET n == CallName(p)
      h == hist[n].host
  IN
  /\ p \in calm => Host(n) = h
  /\ h = "clean" => Host(n) = "clean"

(***************************************************************************)
(* The teardown, which is also the roll-back of an Up that could not save. *)
(***************************************************************************)
Removing(p) ==
  LET n == CallName(p) IN
  /\ pc[p] \in {"release", "del", "unroute"} => anchor[n] = {}
  /\ pc[p] = "del" => Mine(n) \subseteq todo[p]
  /\ pc[p] = "unroute" => Mine(n) \subseteq todo[p] \ {Cur(p)}

(***************************************************************************)
(* An Up that has found nothing of the binding removes what it adds.       *)
(***************************************************************************)
UpUndoes(p) ==
  LET n == CallName(p) IN
  /\ Removing(p)
  /\ pc[p] \in {"alias", "add"} => Mine(n) \subseteq Visited(p)
  /\ pc[p] \in {"wild", "rules", "enable", "unload"} => todo[p] = {}
  /\ pc[p] = "undo" => Mine(n) \subseteq todo[p]
  /\ pc[p] \in {"alias", "add", "wild", "rules", "undo"} => anchor[n] = {}

DownUndoes(p) ==
  LET n == CallName(p) IN
  /\ Removing(p)
  /\ pc[p] = "clear" => anchor[n] = {} /\ Mine(n) = {}

HostDuring(p) ==
  /\ pc[p] = "load" \/ call[p].op = "verify" => HostSeen(p)
  /\ RemovalsWork /\ call[p].op = "up" /\ hist[CallName(p)].host = "clean" => UpUndoes(p)
  /\ RemovalsWork /\ call[p].op = "down" => DownUndoes(p)

BindInv ==
  /\ ContractInv /\ Alone /\ AskedFor /\ HistTyped
  /\ \A n \in Name : ~Working(n) => SeenAtRest(n) /\ hist[n].host = Host(n)
  /\ \A p \in Proc : Busy(p) => SeenDuring(p) /\ HostDuring(p)

-----------------------------------------------------------------------------
(* What the machine looks like.                                            *)

LEMMA HostIs ==
  ASSUME NEW n \in Name
  PROVE  /\ RecordNamed(n) =>
              /\ Host(n) = "clean" <=> anchor[n] = {} /\ Mine(n) = {}
              /\ Host(n) = "inforce" <=> file[n] \in State /\ LegsHold(file[n])
              /\ Host(n) \in {"clean", "damaged", "inforce"}
         /\ RecordNamed(n)' =>
              /\ Host(n)' = "clean" <=> anchor'[n] = {} /\ Mine(n)' = {}
              /\ Host(n)' = "inforce" <=> file'[n] \in State /\ LegsHold(file[n])'
              /\ Host(n)' \in {"clean", "damaged", "inforce"}
<1>1. RecordNamed(n) => (file[n] \in State /\ LegsHold(file[n]) => anchor[n] # {})
  BY DEF RecordNamed, LegsHold
<1>2. RecordNamed(n)' => (file'[n] \in State /\ LegsHold(file[n])' => anchor'[n] # {})
  BY DEF RecordNamed, LegsHold
<1> QED BY <1>1, <1>2 DEF Host, Mine

(***************************************************************************)
(* What is there of a binding, and what pf does with it.                   *)
(***************************************************************************)
LEMMA SameHost ==
  ASSUME NEW n \in Name, RecordNamed(n), file'[n] = file[n], anchor'[n] = anchor[n],
         Mine(n)' = Mine(n), PFEnabled' = PFEnabled, skip' = skip
  PROVE  Host(n)' = Host(n)
<1>1. file[n] \in State => (file[n].aliases \subseteq alias <=> file[n].aliases \subseteq alias')
  BY DEF RecordNamed, Mine
<1>2. file[n] \in State => (LegsHold(file[n]) <=> LegsHold(file[n])')
  BY <1>1 DEF LegsHold, RecordNamed, IfacesOf
<1>3. AliasesOf(n) \cap alias = {} <=> (AliasesOf(n) \cap alias = {})'
  BY DEF Mine
<1> QED BY <1>2, <1>3 DEF Host

LEMMA FootprintHost ==
  ASSUME NEW n \in Name, RecordNamed(n), Footprint(n)' = Footprint(n)
  PROVE  Host(n)' = Host(n)
<1>1. /\ file'[n] = file[n] /\ anchor'[n] = anchor[n] /\ Mine(n)' = Mine(n)
      /\ PFEnabled' = PFEnabled /\ skip' = skip
  BY DEF Footprint, Mine
<1> QED BY <1>1, SameHost

LEMMA NothingNewHost ==
  ASSUME NEW n \in Name, RecordNamed(n), RecordNamed(n)', NothingNew(n), Host(n) = "clean"
  PROVE  Host(n)' = "clean"
  BY HostIs DEF NothingNew

(***************************************************************************)
(* A call's record has all the aliases of its name.                        *)
(***************************************************************************)
LEMMA AllAliases ==
  ASSUME SameAliases, AskedFor, NEW p \in Proc, st[p] \in State
  PROVE  AliasesOf(CallName(p)) = st[p].aliases
<1>1. PICK o \in Options : o.name = CallName(p) /\ o.aliases = st[p].aliases
  BY DEF AskedFor, OptionsOf, Recorded
<1> QED BY <1>1 DEF SameAliases, AliasesOf

LEMMA CallTypesOf ==
  /\ TypeInv => CallTyped
  /\ TypeInv' => CallTyped'
  BY DEF TypeInv, TypeOK, CallTyped

LEMMA RecordTrackOf ==
  ASSUME NamedInv, NEW p \in Proc
  PROVE  RecordTrack(p)
  BY TypeFacts
     DEF NamedInv, OnTrack, RecordTrack, Ops, UpLabels, UpFails, DownLabels, VerifyLabels,
         ReassertLabels

LEMMA Remembered ==
  ASSUME Remember(Host), NEW n \in Name
  PROVE  /\ Working(n)' => hist'[n] = hist[n]
         /\ ~Working(n)' =>
              /\ hist'[n].rec = Recorded(file'[n])
              /\ hist'[n].host = Host(n)'
              /\ hist'[n].ret = [q \in Proc |-> IF call'[q].name = n THEN ret'[q]
                                                                  ELSE hist[n].ret[q]]
<1> DEFINE seen == [rec |-> Recorded(file'[n]), host |-> Host(n)',
                    ret |-> [q \in Proc |-> IF call'[q].name = n THEN ret'[q]
                                                              ELSE hist[n].ret[q]]]
<1>1. hist'[n] = IF Working(n)' THEN hist[n] ELSE seen
  BY DEF Remember, Recorded
<1> QED BY <1>1

-----------------------------------------------------------------------------
(* Steps of the processes.                                                 *)

(***************************************************************************)
(* How p gets into a call.                                                 *)
(***************************************************************************)
LEMMA CallEntered ==
  ASSUME NamedInv, AskedFor, NEW p \in Proc, CallStep(p)
  PROVE  /\ ~Busy(p) /\ Busy(p)' /\ pc'[p] = "load" /\ ret'[p] = "ok"
         /\ call'[p].name \in Name
         /\ UNCHANGED <<file, fd, alias, anchor, ref, skip>>
         /\ call'[p].op = "up" => Recorded(st'[p]) \in OptionsOf(call'[p].name)
         /\ st'[p] \in State => Recorded(st'[p]) \in OptionsOf(call'[p].name)
<1> USE TypeFacts DEF NamedInv, TypeInv, TypeOK, Begin, Goto, Note, Busy
<1>0. UNCHANGED <<alias, anchor, ref, skip>>
  BY DEF CallStep, HostUnchanged, hostVars
<1>1. ASSUME NEW o \in Options, Up(p, o)
      PROVE  /\ call'[p].name = o.name /\ o.name \in Name /\ Recorded(st'[p]) = o
  BY <1>1, OptionsName, RecordedOption DEF Up
<1>2. CASE \E o \in Options : Up(p, o)
  BY <1>0, <1>1, <1>2 DEF Up, OptionsOf
<1>3. CASE \E n \in Name : Down(p, n) \/ Verify(p, n) \/ Reassert(p, n)
  BY <1>0, <1>3, SentinelAssumption DEF Down, Verify, Reassert
<1> QED BY <1>2, <1>3 DEF CallStep

(***************************************************************************)
(* How a step moves the others: not at all.                                *)
(***************************************************************************)
LEMMA OthersStay ==
  ASSUME NamedInv, NEW p \in Proc, ProcStep(p)
  PROVE  /\ \A q \in Proc \ {p} :
              /\ pc'[q] = pc[q] /\ call'[q] = call[q] /\ st'[q] = st[q]
              /\ todo'[q] = todo[q] /\ ret'[q] = ret[q]
         /\ ~CallStep(p) => Busy(p) /\ call' = call
<1>1. \A q \in Proc \ {p} : CallKept(q)
  BY OthersKept DEF NamedInv
<1>2. RecordStep(p) => Busy(p) /\ call' = call
  BY DEF RecordStep, LoadForUp, LoadRecord, SaveTruncate, SaveWrite, SaveFailed,
         ClearState, Busy
<1>3. CommandStep(p) => Busy(p) /\ call' = call
  BY AtCommand DEF Busy
<1>4. KillStep(p) => Busy(p) /\ call' = call
  BY DEF KillStep, Kill
<1> QED BY <1>1, <1>2, <1>3, <1>4 DEF CallKept, ProcStep

(***************************************************************************)
(* `pfctl -E` changes of the record in hand the token only.                *)
(***************************************************************************)
LEMMA RecordInHand ==
  ASSUME NamedInv, NEW p \in Proc, CommandStep(p)
  PROVE  st'[p] \in State /\ Recorded(st'[p]) = Recorded(st[p])
<1>1. CASE PFEnable(p)
  <2>1. st' = st \/ \E tok \in Token \cup {NoToken} : st' = [st EXCEPT ![p].tok = tok]
    BY <1>1 DEF PFEnable, ParsePFToken
  <2>2. \A tok \in Token \cup {NoToken} :
          LET s == [st[p] EXCEPT !.tok = tok] IN
          s \in State /\ s.name = st[p].name /\ s.aliases = st[p].aliases /\ s.ports = st[p].ports
    BY AtCommand DEF State
  <2> QED BY <2>1, <2>2, AtCommand DEF Recorded
<1>2. CASE ~PFEnable(p)
  BY <1>2, AtCommand
<1> QED BY <1>1, <1>2

LEMMA AskedStays ==
  ASSUME NamedInv, AskedFor, NEW p \in Proc, ProcStep(p)
  PROVE  AskedFor'
<1>1. CASE CallStep(p)
  <2>1. file' = file /\ (st'[p] \in State => Recorded(st'[p]) \in OptionsOf(CallName(p)'))
    BY <1>1, CallEntered DEF CallName
  <2>2. \A q \in Proc \ {p} : st'[q] = st[q] /\ CallName(q)' = CallName(q)
    BY <1>1, OthersStay DEF CallName, ProcStep
  <2> QED BY <2>1, <2>2 DEF AskedFor, Recorded
<1>2. CASE RecordStep(p)
  BY <1>2, CallTypesOf, AskedRecord DEF RecordStep, AccessesRecord, NamedInv
<1>3. CASE CommandStep(p)
  <2>1. \A q \in Proc \ {p} : st'[q] = st[q]
    BY <1>3, OthersStay DEF ProcStep
  <2>2. Recorded(st'[p]) \in OptionsOf(CallName(p)) /\ UNCHANGED <<file, call>>
    BY <1>3, RecordInHand, AtCommand DEF AskedFor
  <2> QED BY <2>1, <2>2 DEF AskedFor, CallName, Recorded
<1>4. CASE KillStep(p)
  <2>1. st' = [st EXCEPT ![p] = NoState] /\ UNCHANGED <<file, call>>
    BY <1>4 DEF KillStep, Kill
  <2> QED BY <2>1, TypeFacts, SentinelAssumption
          DEF AskedFor, CallName, Recorded, NamedInv, TypeInv, TypeOK
<1> QED BY <1>1, <1>2, <1>3, <1>4 DEF ProcStep

(***************************************************************************)
(* What a step of p makes of the call it is in.                            *)
(***************************************************************************)
LEMMA SeenAlong ==
  ASSUME Serial, NamedInv, AskedFor, Alone, NEW p \in Proc, ProcStep(p), Busy(p)',
         CallStep(p) => \A n \in Name : ~Working(n) => SeenAtRest(n),
         Busy(p) => SeenDuring(p), hist'[call'[p].name] = hist[call'[p].name]
  PROVE  SeenDuring(p)'
<1>1. CASE CallStep(p)
  <2>1. PICK n \in Name : n = call'[p].name
    BY <1>1, CallEntered
  <2>2. ~Working(n) /\ UNCHANGED file /\ pc'[p] = "load" /\ ret'[p] = "ok"
    BY <1>1, <2>1, CallEntered, CallsAlone
  <2> QED BY <1>1, <2>1, <2>2, OthersStay, SeenBegin
<1>2. CASE RecordStep(p)
  <2>1. Busy(p) /\ call' = call /\ AccessesRecord(p) /\ CallTyped /\ RecordTrack(p)
    BY <1>2, CallTypesOf, RecordTrackOf, AskedRecord
       DEF RecordStep, AccessesRecord, LoadForUp, LoadRecord, SaveTruncate, SaveWrite,
           ClearState, Busy, NamedInv
  <2> QED BY <2>1, SeenRecord DEF CallName
<1>3. CASE CommandStep(p)
  <2>1. /\ UNCHANGED <<file, fd, call>> /\ st[p] \in State /\ OnTrack(p) /\ OnTrack(p)'
        /\ pc[p] # "load" /\ Busy(p) /\ call[p].op \in Ops /\ ret \in [Proc -> Results]
        /\ pc \in [Proc -> Labels]
        /\ st'[p] \in State /\ Recorded(st'[p]) = Recorded(st[p])
    BY <1>3, AtCommand, TypeFacts, RecordInHand DEF NamedInv, Busy
  <2>2. \A q \in Proc \ {p} : ret'[q] = ret[q]
    BY OthersStay
  <2> USE <2>1 DEF SeenDuring, RollBack, Goto, Note, Abort, EndPass, Busy
  <2>3. /\ pc[p] # "write" /\ pc'[p] \notin {"load", "write"}
        /\ IF call[p].op = "down" THEN ret'[p] \in {"ok", "err"}
           ELSE ret'[p] = IF pc'[p] \in RollBack THEN "err" ELSE "ok"
    <3>1. CASE HasAlias(p)
      BY <3>1 DEF HasAlias, OnTrack, DownLabels, UpLabels, UpFails
    <3>2. CASE DeleteStaleRoute(p) \/ AddAlias(p)
      BY <3>2 DEF DeleteStaleRoute, AddAlias, OnTrack, DownLabels, VerifyLabels
    <3>3. CASE UndoAlias(p)
      BY <3>3 DEF UndoAlias
    <3>4. CASE EnsureAppleRdrAnchor(p) \/ SkippedAliasIfaces(p)
      BY <3>4 DEF EnsureAppleRdrAnchor, SkippedAliasIfaces, OnTrack, DownLabels, UpLabels, UpFails
    <3>5. CASE DumpMainRuleset(p) \/ LoadMainRuleset(p)
      BY <3>5 DEF DumpMainRuleset, DumpFilter, DumpNat, DumpDummynet, Dump, LoadMainRuleset, OnTrack, DownLabels, UpLabels, UpFails
    <3>6. CASE PFLoadAnchor(p)
      BY <3>6 DEF PFLoadAnchor, OnTrack, DownLabels
    <3>7. CASE AnchorHoldsRules(p)
      BY <3>7 DEF AnchorHoldsRules, OnTrack, DownLabels, UpLabels, UpFails
    <3>8. CASE PFStatus(p)
      BY <3>8 DEF PFStatus, OnTrack, DownLabels, UpLabels, UpFails
    <3>9. CASE PFEnable(p)
      BY <3>9 DEF PFEnable, OnTrack, DownLabels
    <3>10. CASE UnloadAfterFailedEnable(p)
      BY <3>10 DEF UnloadAfterFailedEnable, OnTrack, DownLabels
    <3>11. CASE FlushForDown(p) \/ ReleasePF(p)
      BY <3>11 DEF FlushForDown, ReleasePF
    <3>12. CASE DeleteAlias(p) \/ DeleteClonedRoute(p)
      BY <3>12 DEF DeleteAlias, DeleteClonedRoute
    <3> QED BY <1>3, <3>1, <3>2, <3>3, <3>4, <3>5, <3>6, <3>7, <3>8, <3>9, <3>10, <3>11,
               <3>12 DEF CommandStep
  <2> QED BY <2>2, <2>3, SeenCommand DEF CallName
<1>4. CASE KillStep(p)
  BY <1>4, TypeFacts DEF KillStep, Kill, Goto, Busy, NamedInv, TypeInv, TypeOK
<1> QED BY <1>1, <1>2, <1>3, <1>4 DEF ProcStep

LEMMA CommandTargets ==
  ASSUME NamedInv, NEW p \in Proc, CommandStep(p)
  PROVE  pc[p] \notin {"load", "write"} /\ pc'[p] \notin {"load", "write"}
<1> USE AtCommand DEF Goto, Abort, EndPass
<1>1. CASE HasAlias(p) \/ DeleteStaleRoute(p) \/ AddAlias(p) \/ UndoAlias(p)
  BY <1>1 DEF HasAlias, DeleteStaleRoute, AddAlias, UndoAlias
<1>2. CASE EnsureAppleRdrAnchor(p) \/ SkippedAliasIfaces(p)
  BY <1>2 DEF EnsureAppleRdrAnchor, SkippedAliasIfaces
<1>3. CASE DumpMainRuleset(p) \/ LoadMainRuleset(p) \/ PFLoadAnchor(p)
  BY <1>3 DEF DumpMainRuleset, DumpFilter, DumpNat, DumpDummynet, Dump, LoadMainRuleset, PFLoadAnchor
<1>4. CASE AnchorHoldsRules(p) \/ PFStatus(p)
  BY <1>4 DEF AnchorHoldsRules, PFStatus
<1>5. CASE PFEnable(p)
  BY <1>5 DEF PFEnable
<1>6. CASE UnloadAfterFailedEnable(p) \/ FlushForDown(p) \/ ReleasePF(p)
  BY <1>6 DEF UnloadAfterFailedEnable, FlushForDown, ReleasePF
<1>7. CASE DeleteAlias(p) \/ DeleteClonedRoute(p)
  BY <1>7 DEF DeleteAlias, DeleteClonedRoute
<1> QED BY <1>1, <1>2, <1>3, <1>4, <1>5, <1>6, <1>7 DEF CommandStep

(***************************************************************************)
(* The roll-back takes away what the commands before it have added.        *)
(***************************************************************************)
LEMMA UpUndoing ==
  ASSUME NamedInv, RemovalsWork, NEW p \in Proc, CommandStep(p), call[p].op = "up",
         Mine(CallName(p)) \subseteq st[p].aliases, UpUndoes(p)
  PROVE  UpUndoes(p)'
<1>1. "del" \notin Faults /\ "unload" \notin Faults
  BY DEF RemovalsWork
<1>2. /\ pc \in [Proc -> Labels] /\ todo \in [Proc -> SUBSET Alias] /\ CallName(p) \in Name
      /\ anchor \in [Name -> SUBSET Rule] /\ UNCHANGED call
      /\ pc[p] \in LoopLabels => Cur(p) \in todo[p] /\ todo[p] \subseteq st[p].aliases
      /\ pc[p] \in UpLabels /\ st'[p].aliases = st[p].aliases
  BY AtCommand DEF CallName, OnTrack
<1> USE <1>1, <1>2
    DEF UpUndoes, Removing, Visited, Mine, CallName, Goto, Loop, Abort, EndPass, LoopLabels,
        HostUnchanged, hostVars
<1>3. CASE DeleteStaleRoute(p)
  BY <1>3 DEF DeleteStaleRoute
<1>4. CASE AddAlias(p)
  BY <1>4 DEF AddAlias
<1>5. CASE UndoAlias(p)
  BY <1>5 DEF UndoAlias, RemoveAlias
<1>6. CASE EnsureAppleRdrAnchor(p)
  BY <1>6 DEF EnsureAppleRdrAnchor
<1>7. CASE PFLoadAnchor(p)
  BY <1>7 DEF PFLoadAnchor
<1>8. CASE PFEnable(p)
  BY <1>8 DEF PFEnable
<1>9. CASE UnloadAfterFailedEnable(p)
  BY <1>9 DEF UnloadAfterFailedEnable, FlushAnchor
<1>10. CASE FlushForDown(p)
  BY <1>10 DEF FlushForDown, FlushAnchor
<1>11. CASE ReleasePF(p)
  BY <1>11 DEF ReleasePF
<1>12. CASE DeleteAlias(p)
  BY <1>12 DEF DeleteAlias, RemoveAlias, Cur
<1>13. CASE DeleteClonedRoute(p)
  BY <1>13 DEF DeleteClonedRoute
<1> QED BY <1>3, <1>4, <1>5, <1>6, <1>7, <1>8, <1>9, <1>10, <1>11, <1>12, <1>13
        DEF CommandStep, HasAlias, SkippedAliasIfaces, DumpMainRuleset, DumpFilter,
         DumpNat, DumpDummynet, Dump, LoadMainRuleset,
            AnchorHoldsRules, PFStatus, UpLabels, UpFails

LEMMA DownUndoing ==
  ASSUME NamedInv, RemovalsWork, NEW p \in Proc, CommandStep(p), call[p].op = "down",
         Mine(CallName(p)) \subseteq st[p].aliases, DownUndoes(p)
  PROVE  DownUndoes(p)'
<1>1. "del" \notin Faults /\ "unload" \notin Faults
  BY DEF RemovalsWork
<1>2. /\ pc \in [Proc -> Labels] /\ todo \in [Proc -> SUBSET Alias] /\ CallName(p) \in Name
      /\ anchor \in [Name -> SUBSET Rule] /\ UNCHANGED call
      /\ pc[p] \in LoopLabels => Cur(p) \in todo[p] /\ todo[p] \subseteq st[p].aliases
      /\ pc[p] \in DownLabels
  BY AtCommand DEF CallName, OnTrack
<1> USE <1>1, <1>2
    DEF DownUndoes, Removing, Mine, CallName, Goto, Loop, EndPass, LoopLabels
<1>3. CASE FlushForDown(p)
  BY <1>3 DEF FlushForDown, FlushAnchor
<1>4. CASE ReleasePF(p)
  BY <1>4 DEF ReleasePF
<1>5. CASE DeleteAlias(p)
  BY <1>5 DEF DeleteAlias, RemoveAlias, Cur
<1>6. CASE DeleteClonedRoute(p)
  BY <1>6 DEF DeleteClonedRoute
<1> QED BY <1>3, <1>4, <1>5, <1>6
        DEF CommandStep, HasAlias, DeleteStaleRoute, AddAlias, UndoAlias,
            EnsureAppleRdrAnchor, SkippedAliasIfaces, DumpMainRuleset, DumpFilter,
         DumpNat, DumpDummynet, Dump, LoadMainRuleset,
            PFLoadAnchor, AnchorHoldsRules, PFStatus, PFEnable, UnloadAfterFailedEnable,
            DownLabels

(***************************************************************************)
(* No command of a Verify changes the machine.                             *)
(***************************************************************************)
LEMMA VerifyLooks ==
  ASSUME NamedInv, NEW p \in Proc, CommandStep(p), call[p].op = "verify"
  PROVE  HostUnchanged
<1>1. pc[p] \in VerifyLabels
  BY AtCommand DEF OnTrack
<1> QED BY <1>1
        DEF CommandStep, HasAlias, DeleteStaleRoute, AddAlias, UndoAlias,
            EnsureAppleRdrAnchor, SkippedAliasIfaces, DumpMainRuleset, DumpFilter,
         DumpNat, DumpDummynet, Dump, LoadMainRuleset,
            PFLoadAnchor, AnchorHoldsRules, PFStatus, PFEnable, UnloadAfterFailedEnable,
            FlushForDown, ReleasePF, DeleteAlias, DeleteClonedRoute, VerifyLabels

LEMMA HostUntouched ==
  ASSUME HostUnchanged, UNCHANGED file, NEW n \in Name, RecordNamed(n)
  PROVE  Host(n)' = Host(n)
  BY SameHost DEF HostUnchanged, hostVars, Mine, PFEnabled

LEMMA HostAlong ==
  ASSUME SameAliases, ContractInv, AskedFor, Alone, Serial, NEW p \in Proc, ProcStep(p),
         Busy(p)', p \in calm' => p \in calm \/ CallStep(p),
         CallStep(p) => \A n \in Name : ~Working(n) => hist[n].host = Host(n),
         Busy(p) => HostDuring(p), hist'[call'[p].name] = hist[call'[p].name],
         \A n \in Name : RecordNamed(n)'
  PROVE  HostDuring(p)'
<1> DEFINE n == CallName(p)
           h == hist[n].host
<1>1. NamedInv /\ TypeInv
  BY DEF ContractInv, NamedInv
<1>2. CASE CallStep(p)
  <2>1. PICK m \in Name : m = call'[p].name
    BY <1>1, <1>2, CallEntered
  <2>2. ~Working(m) /\ pc'[p] = "load" /\ UNCHANGED file /\ HostUnchanged
    BY <1>1, <1>2, <2>1, CallEntered, CallsAlone DEF CallStep
  <2>3. hist'[m].host = Host(m)'
    BY <1>1, <1>2, <2>1, <2>2, HostUntouched DEF NamedInv
  <2> QED BY <2>1, <2>2, <2>3
          DEF HostDuring, HostSeen, UpUndoes, DownUndoes, Removing, CallName
<1>3. ASSUME ~CallStep(p)
      PROVE  /\ n \in Name /\ call' = call /\ hist'[n] = hist[n] /\ Busy(p)
             /\ call[p].op \in Ops /\ HostDuring(p) /\ p \in calm' => p \in calm
  BY <1>1, <1>3, OthersStay, TypeFacts DEF CallName
<1>4. ASSUME ~CallStep(p), Host(n)' = Host(n), HostSeen(p) PROVE HostSeen(p)'
  BY <1>3, <1>4 DEF HostSeen, CallName
<1>5. CASE RecordStep(p)
  <2>1. /\ ~CallStep(p) /\ HostUnchanged /\ UNCHANGED <<alias, anchor, call>>
        /\ pc \in [Proc -> Labels] /\ todo \in [Proc -> SUBSET Alias] /\ OnTrack(p)
    <3>1. Busy(p)
      BY <1>5 DEF RecordStep, LoadForUp, LoadRecord, SaveTruncate, SaveWrite, ClearState, Busy
    <3>2. ~CallStep(p)
      BY <1>1, <3>1, CallEntered
    <3> QED BY <1>1, <1>5, <3>2, OthersStay
            DEF RecordStep, HostUnchanged, hostVars, NamedInv, TypeInv, TypeOK
  <2>2. Mine(n)' = Mine(n)
    BY <2>1 DEF Mine, CallName
  <2> USE <1>3, <2>1, <2>2
      DEF HostDuring, UpUndoes, DownUndoes, Removing, Goto, Loop, Note, Busy, CallName
  <2>3. CASE LoadForUp(p)
    <3>1. h = "clean" => anchor[n] = {} /\ Mine(n) = {}
      BY <1>1, <2>3, HostIs DEF HostSeen, LoadForUp, NamedInv
    <3> QED BY <2>3, <3>1 DEF LoadForUp, Visited
  <2>4. CASE LoadRecord(p)
    <3>1. Host(n)' = Host(n)
      BY <1>1, <2>4, HostUntouched DEF LoadRecord, NamedInv
    <3> QED BY <1>4, <2>4, <3>1 DEF LoadRecord
  <2>5. CASE SaveTruncate(p)
    BY <2>5 DEF SaveTruncate, SaveFailed, OnTrack, VerifyLabels, DownLabels
  <2>6. CASE SaveWrite(p)
    BY <2>6 DEF SaveWrite, SaveFailed, OnTrack, VerifyLabels, DownLabels
  <2>7. CASE ClearState(p)
    BY <2>7 DEF ClearState
  <2> QED BY <1>5, <2>3, <2>4, <2>5, <2>6, <2>7 DEF RecordStep
<1>6. CASE CommandStep(p)
  <2>1. /\ ~CallStep(p) /\ call' = call /\ file' = file /\ pc[p] # "load" /\ pc'[p] # "load"
        /\ Mine(n) \subseteq st[p].aliases
    <3>1. ~CallStep(p)
      BY <1>1, <1>6, AtCommand, CallEntered DEF Busy
    <3> QED BY <1>1, <1>6, <3>1, CommandTargets, AtCommand, AllAliases DEF Mine, CallName
  <2> USE <1>3, <2>1 DEF HostDuring, CallName
  <2>2. CASE call[p].op = "verify"
    <3>1. Host(n)' = Host(n)
      BY <1>1, <1>6, <2>2, VerifyLooks, HostUntouched DEF NamedInv
    <3> QED BY <1>4, <2>2, <3>1
  <2>3. CASE call[p].op = "up" /\ RemovalsWork /\ h = "clean"
    <3>1. UpUndoes(p)'
      BY <1>1, <1>6, <2>3, UpUndoing
    <3> QED BY <2>3, <3>1
  <2>4. CASE call[p].op = "down" /\ RemovalsWork
    <3>1. DownUndoes(p)'
      BY <1>1, <1>6, <2>4, DownUndoing
    <3> QED BY <2>4, <3>1
  <2> QED BY <2>2, <2>3, <2>4
<1>7. CASE KillStep(p)
  BY <1>1, <1>7, TypeFacts DEF KillStep, Kill, Goto, Busy, TypeInv, TypeOK
<1> QED BY <1>2, <1>5, <1>6, <1>7 DEF ProcStep

-----------------------------------------------------------------------------
(* The calls that a step is not about.                                     *)

LEMMA HostStays ==
  ASSUME NEW q \in Proc, HostDuring(q), NEW n, n = CallName(q), NothingNew(n),
         pc'[q] = pc[q], call'[q] = call[q], st'[q] = st[q], todo'[q] = todo[q],
         hist'[n] = hist[n], q \in calm' => q \in calm /\ Host(n)' = Host(n),
         Host(n) = "clean" => Host(n)' = "clean"
  PROVE  HostDuring(q)'
<1>1. HostSeen(q) => HostSeen(q)'
  BY DEF HostSeen, CallName
<1>2. Removing(q) => Removing(q)'
  BY DEF Removing, Cur, CallName, NothingNew
<1>3. UpUndoes(q) => UpUndoes(q)'
  BY <1>2 DEF UpUndoes, Visited, CallName, NothingNew
<1>4. DownUndoes(q) => DownUndoes(q)'
  BY <1>2 DEF DownUndoes, CallName, NothingNew
<1> QED BY <1>1, <1>3, <1>4 DEF HostDuring, CallName

LEMMA FilesStayOpen ==
  ASSUME NamedInv, Alone, NEW p \in Proc, ProcStep(p), NEW q \in Proc \ {p}, Busy(q), q \in fd
  PROVE  q \in fd'
<1>1. CASE CallStep(p)
  BY <1>1 DEF CallStep, Up, Down, Verify, Reassert, Begin
<1>2. CASE RecordStep(p)
  BY <1>2, OthersStay
     DEF Alone, CallName, RecordStep, LoadForUp, LoadRecord, SaveTruncate, SaveWrite,
         SaveFailed, ClearState, Busy
<1>3. CASE CommandStep(p)
  BY <1>3, AtCommand
<1>4. CASE KillStep(p)
  BY <1>4 DEF KillStep, Kill
<1> QED BY <1>1, <1>2, <1>3, <1>4 DEF ProcStep

LEMMA OthersAlong ==
  ASSUME Serial, NamedInv, NamedInv', Alone, AskedFor, NEW p \in Proc, ProcStep(p),
         NEW q \in Proc \ {p}, Busy(q)', SeenDuring(q), HostDuring(q),
         NEW n \in Name, n = CallName(q), hist'[n] = hist[n],
         q \in calm' => q \in calm /\ Host(n)' = Host(n)
  PROVE  SeenDuring(q)' /\ HostDuring(q)'
<1>1. /\ \A o \in Proc \ {p} :
              /\ pc'[o] = pc[o] /\ call'[o] = call[o] /\ st'[o] = st[o]
              /\ todo'[o] = todo[o] /\ ret'[o] = ret[o]
      /\ Busy(q)
  BY OthersStay DEF Busy
<1>2. NothingNew(n) /\ call'[p].name # n
  BY DuringStep
<1>3. Host(n) = "clean" => Host(n)' = "clean"
  BY <1>2, NothingNewHost DEF NamedInv
<1>4. HostDuring(q)'
  BY <1>1, <1>2, <1>3, HostStays
<1>5. SeenDuring(q)'
  BY <1>1, <1>2, FilesStayOpen, SeenKept DEF NothingNew
<1> QED BY <1>4, <1>5

-----------------------------------------------------------------------------
(* The invariant.                                                          *)

LEMMA BindInit ==
  ASSUME Init, HistInit
  PROVE  BindInv
<1>1. ContractInv
  BY NamedInit
<1>2. \A p \in Proc : ~Busy(p)
  BY DEF Init, CallInit, Busy
<1>3. ASSUME NEW n \in Name
      PROVE  Host(n) = "clean" /\ SeenAtRest(n) /\ hist[n].host = "clean" /\ file[n] = NoFile
             /\ hist[n] = [rec |-> NoFile, host |-> "clean",
                           ret |-> [p \in Proc |-> "nobinding"]]
  BY SentinelAssumption
     DEF Init, HistInit, CallInit, HostInit, Host, Recorded, SeenAtRest
<1>4. Alone /\ AskedFor
  BY <1>2, <1>3, SentinelAssumption DEF Alone, AskedFor, Init, CallInit
<1>5. HistTyped
  BY <1>3 DEF HistTyped, Results
<1> QED BY <1>1, <1>2, <1>3, <1>4, <1>5 DEF BindInv

(***************************************************************************)
(* Only p gets calm, by entering a call, and it stays calm in its own      *)
(* steps; another call stays calm while its binding stands as it stood.    *)
(***************************************************************************)
Watched(p) ==
  /\ \A q \in Proc \ {p} :
       q \in calm' => q \in calm /\ Footprint(CallName(q))' = Footprint(CallName(q))
  /\ p \in calm' <=> p \in calm \/ CallStep(p)

LEMMA HistTypes ==
  ASSUME HistTyped, NamedInv', AskedFor', Remember(Host)
  PROVE  HistTyped'
<1>1. ASSUME NEW n \in Name
      PROVE  /\ Host(n)' \in {"clean", "damaged", "inforce"}
             /\ Host(n)' = "inforce" => file'[n] \in State
  BY HostIs DEF NamedInv
<1>2. CallTyped'
  BY CallTypesOf DEF NamedInv
<1>3. ASSUME NEW n \in Name
      PROVE  \/ hist'[n] = hist[n]
             \/ /\ hist'[n].rec = Recorded(file'[n])
                /\ hist'[n].host \in {"clean", "damaged", "inforce"}
                /\ hist'[n].host = "inforce" => file'[n] \in State
                /\ hist'[n].ret = [q \in Proc |-> IF call'[q].name = n THEN ret'[q]
                                                                    ELSE hist[n].ret[q]]
  BY <1>1, Remembered
<1> QED BY <1>2, <1>3, HistKeepsTypes

LEMMA RestSeen ==
  ASSUME Remember(Host), NEW n \in Name, ~Working(n)'
  PROVE  SeenAtRest(n)' /\ hist'[n].host = Host(n)'
<1>1. /\ hist'[n].rec = Recorded(file'[n])
      /\ hist'[n].host = Host(n)'
      /\ hist'[n].ret = [q \in Proc |-> IF call'[q].name = n THEN ret'[q]
                                                          ELSE hist[n].ret[q]]
  BY Remembered
<1>2. \A q \in Proc : call'[q].name = n => hist'[n].ret[q] = ret'[q]
  BY <1>1
<1>3. SeenAtRest(n)'
  BY <1>1, <1>2 DEF SeenAtRest, CallName, Recorded
<1> QED BY <1>1, <1>3

LEMMA BindProc ==
  ASSUME SameAliases, Serial, BindInv, ContractInv', NEW p \in Proc, ProcStep(p),
         Watched(p), Remember(Host)
  PROVE  BindInv'
<1>1. /\ ContractInv /\ NamedInv /\ NamedInv' /\ Alone /\ AskedFor /\ HistTyped
      /\ \A n \in Name : ~Working(n) => SeenAtRest(n) /\ hist[n].host = Host(n)
      /\ \A q \in Proc : Busy(q) => SeenDuring(q) /\ HostDuring(q)
  BY DEF BindInv, ContractInv
<1>2. Alone' /\ AskedFor'
  BY <1>1, CallsAlone, AskedStays
<1>3. HistTyped'
  BY <1>1, <1>2, HistTypes
<1>4. ASSUME NEW q \in Proc, Busy(q)'
      PROVE  SeenDuring(q)' /\ HostDuring(q)'
  <2>1. PICK n \in Name : n = call'[q].name
    BY <1>1, TypeFacts DEF NamedInv, TypeInv, TypeOK
  <2>2. hist'[n] = hist[n]
    BY <1>4, <2>1, Remembered DEF Working
  <2>3. CASE q = p
    <3>1. SeenDuring(p)'
      BY <1>1, <1>4, <2>1, <2>2, <2>3, SeenAlong
    <3>2. HostDuring(p)'
      BY <1>1, <1>4, <2>1, <2>2, <2>3, HostAlong DEF Watched, NamedInv
    <3> QED BY <2>3, <3>1, <3>2
  <2>4. CASE q # p
    <3>1. n = CallName(q) /\ n = CallName(q)' /\ Busy(q)
      BY <1>1, <1>4, <2>1, <2>4, OthersStay DEF Busy, CallName
    <3>2. q \in calm' => q \in calm /\ Footprint(n)' = Footprint(n)
      BY <2>4, <3>1 DEF Watched
    <3>3. q \in calm' => q \in calm /\ Host(n)' = Host(n)
      BY <1>1, <3>2, FootprintHost DEF NamedInv
    <3> QED BY <1>1, <1>4, <2>2, <2>4, <3>1, <3>3, OthersAlong
  <2> QED BY <2>3, <2>4
<1> QED BY <1>1, <1>2, <1>3, <1>4, RestSeen DEF BindInv

LEMMA BindOutside ==
  ASSUME BindInv, ContractInv', OutsideStep, Observe({}, {}), Remember(Host)
  PROVE  BindInv'
<1>1. /\ ContractInv /\ NamedInv /\ NamedInv' /\ Alone /\ AskedFor /\ HistTyped
      /\ \A n \in Name : ~Working(n) => SeenAtRest(n) /\ hist[n].host = Host(n)
      /\ \A q \in Proc : Busy(q) => SeenDuring(q) /\ HostDuring(q)
  BY DEF BindInv, ContractInv
<1>2. UNCHANGED callVars
  BY DEF OutsideStep
<1>3. Alone' /\ AskedFor'
  BY <1>1, <1>2 DEF callVars, Alone, AskedFor, Busy, CallName, Recorded
<1>4. HistTyped'
  BY <1>1, <1>3, HistTypes
<1>5. ASSUME NEW q \in Proc, Busy(q)'
      PROVE  SeenDuring(q)' /\ HostDuring(q)'
  <2>1. PICK n \in Name : n = CallName(q)
    BY <1>1, TypeFacts DEF NamedInv, CallName
  <2>2. hist'[n] = hist[n] /\ Busy(q)
    BY <1>2, <1>5, <2>1, Remembered DEF Working, callVars, CallName, Busy
  <2>3. SeenDuring(q)'
    BY <1>1, <1>2, <2>1, <2>2 DEF SeenDuring, callVars, CallName, RollBack, Recorded
  <2>4. q \in calm' => q \in calm /\ Footprint(n)' = Footprint(n)
    <3>1. q \in calm' => q \in calm /\ Footprint(call[q].name)' = Footprint(call[q].name)
      BY DEF Observe
    <3>2. n = call[q].name /\ n = call'[q].name
      BY <1>2, <2>1 DEF callVars, CallName
    <3> QED BY <3>1, <3>2
  <2>5. q \in calm' => q \in calm /\ Host(n)' = Host(n)
    BY <1>1, <2>4, FootprintHost DEF NamedInv
  <2>6. NothingNew(n) /\ (Host(n) = "clean" => Host(n)' = "clean")
    BY <1>1, OutsideNames, NothingNewHost DEF NamedInv
  <2>7. HostDuring(q)'
    <3>1. pc'[q] = pc[q] /\ call'[q] = call[q] /\ st'[q] = st[q] /\ todo'[q] = todo[q]
      BY <1>2 DEF callVars
    <3> QED BY <1>1, <2>1, <2>2, <2>5, <2>6, <3>1, HostStays
  <2> QED BY <2>3, <2>7
<1> QED BY <1>1, <1>3, <1>4, <1>5, RestSeen DEF BindInv

LEMMA BindReboot ==
  ASSUME BindInv, ContractInv', Reboot, Remember(Host)
  PROVE  BindInv'
<1>1. NamedInv' /\ HistTyped
  BY DEF BindInv, ContractInv
<1>2. \A p \in Proc : ~Busy(p)'
  BY DEF Reboot, RebootCalls, Busy
<1>3. Alone' /\ AskedFor'
  BY <1>2, SentinelAssumption DEF Reboot, RebootCalls, Alone, AskedFor
<1>4. HistTyped'
  BY <1>1, <1>3, HistTypes
<1> QED BY <1>2, <1>3, <1>4, RestSeen DEF BindInv

LEMMA BindStays ==
  ASSUME BindInv, ContractInv', UNCHANGED <<vars, hist>>
  PROVE  BindInv'
<1>1. UNCHANGED <<file, pc, call, st, todo, fd, ret, alias, anchor, ref, skip, calm, hist>>
  BY DEF vars, pfVars, hostVars, callVars
<1>2. Alone' /\ AskedFor' /\ HistTyped'
  BY <1>1 DEF BindInv, Alone, AskedFor, HistTyped, Busy, CallName, Recorded
<1>3. \A n : Working(n)' = Working(n) /\ SeenAtRest(n)' = SeenAtRest(n) /\ Host(n)' = Host(n)
  BY <1>1 DEF Working, SeenAtRest, Host, LegsHold, IfacesOf, PFEnabled, Busy, CallName, Recorded
<1>4. \A q : Busy(q)' = Busy(q) /\ SeenDuring(q)' = SeenDuring(q) /\ HostDuring(q)' = HostDuring(q)
  BY <1>1, <1>3 DEF SeenDuring, HostDuring, HostSeen, UpUndoes, DownUndoes, Removing, Cur, Mine,
     Visited, Busy, CallName, Recorded
<1> QED BY <1>1, <1>2, <1>3, <1>4 DEF BindInv

-----------------------------------------------------------------------------
(* Each step is a step of Binding, for every name.                         *)

StepOf(n) == UNCHANGED B(n)!bindingVars \/ B(n)!BindingNext

LEMMA StepBeside ==
  ASSUME BindInv, BindInv', NEW p \in Proc, ProcStep(p), Watched(p), Remember(Host),
         NEW n \in Name, call'[p].name # n, CallStep(p) \/ CallName(p) # n
  PROVE  StepOf(n)
<1>1. /\ NamedInv /\ NamedInv' /\ Alone /\ HistTyped /\ HistTyped' /\ CallTyped /\ AskedFor
      /\ ~Working(n) => SeenAtRest(n) /\ hist[n].host = Host(n)
  BY CallTypesOf DEF BindInv, ContractInv, NamedInv
<1>2. \A q \in Proc \ {p} : /\ pc'[q] = pc[q] /\ call'[q] = call[q]
                            /\ st'[q] = st[q] /\ ret'[q] = ret[q]
                            /\ q \in calm' => q \in calm
  BY <1>1, OthersStay DEF Watched
<1>3. Busy(p) => CallName(p) # n
  BY <1>1, CallEntered
<1>4. Working(n)' <=> Working(n)
  BY <1>2, <1>3 DEF Working, Busy, CallName
<1>5. file'[n] = file[n] /\ (Host(n) = "clean" => Host(n)' = "clean")
  BY <1>1, OtherNames, NothingNewHost DEF NothingNew, NamedInv
<1>6. Working(n) => hist'[n] = hist[n]
  BY <1>4, Remembered
<1>7. ~Working(n) =>
        /\ SeenAtRest(n)
        /\ hist'[n].rec = Recorded(file'[n])
        /\ hist'[n].ret = [q \in Proc |-> IF call'[q].name = n THEN ret'[q]
                                                               ELSE hist[n].ret[q]]
        /\ hist[n].host = "clean" => hist'[n].host = "clean"
  BY <1>1, <1>4, <1>5, Remembered
<1>8. PICK A \in SUBSET Proc : A = {p}
  OBVIOUS
<1>9. UNCHANGED B(n)!bindingVars \/ B(n)!Interfere
  BY <1>1, <1>2, <1>3, <1>5, <1>6, <1>7, <1>8, AsideSteps
<1> QED BY <1>9 DEF StepOf, B!BindingNext

LEMMA StepEnters ==
  ASSUME BindInv, BindInv', NEW p \in Proc, CallStep(p), Watched(p), Remember(Host),
         NEW n \in Name, call'[p].name = n
  PROVE  StepOf(n)
<1>1. NamedInv /\ NamedInv' /\ AskedFor /\ Alone' /\ CallTyped /\ CallTyped'
  BY CallTypesOf DEF BindInv, ContractInv, NamedInv
<1>2. /\ ~Busy(p) /\ Busy(p)' /\ p \in calm'
      /\ call'[p].op = "up" => Recorded(st'[p]) \in OptionsOf(n)
  BY <1>1, CallEntered DEF Watched
<1>3. hist'[n] = hist[n]
  BY <1>2, Remembered DEF Working
<1>4. \A q \in Proc \ {p} : CallOn(n, q) = [op |-> "idle"] /\ CallOn(n, q)' = [op |-> "idle"]
  BY <1>1, <1>2, OthersStay DEF Alone, CallOn, CallName, Busy, ProcStep
<1>5. B(n)!BindingNext
  BY <1>1, <1>2, <1>3, <1>4, CallBegins
<1> QED BY <1>5 DEF StepOf

LEMMA StepInside ==
  ASSUME BindInv, BindInv', NEW p \in Proc, ProcStep(p), ~CallStep(p), Busy(p)', Watched(p),
         Remember(Host), NEW n \in Name, CallName(p) = n
  PROVE  StepOf(n)
<1>1. NamedInv /\ Alone
  BY DEF BindInv, ContractInv
<1>2. /\ Busy(p) /\ call' = call /\ \A q \in Proc \ {p} : pc'[q] = pc[q]
      /\ p \in calm <=> p \in calm'
  BY <1>1, OthersStay DEF Watched
<1>3. hist'[n] = hist[n]
  BY <1>2, Remembered DEF Working, CallName
<1>4. call[p].op = "up" => Recorded(st'[p]) = Recorded(st[p])
  <2>1. CASE RecordStep(p)
    <3>1. call[p].op = "up" => st' = st
      BY <2>1 DEF RecordStep, LoadForUp, LoadRecord, SaveTruncate, SaveWrite, SaveFailed,
         ClearState
    <3> QED BY <3>1
  <2>2. CASE CommandStep(p)
    BY <1>1, <2>2, RecordInHand
  <2>3. CASE KillStep(p)
    BY <1>1, <2>3, TypeFacts DEF KillStep, Kill, Goto, Busy, NamedInv, TypeInv, TypeOK
  <2> QED BY <2>1, <2>2, <2>3 DEF ProcStep
<1>5. UNCHANGED B(n)!bindingVars
  BY <1>1, <1>2, <1>3, <1>4, InsideCall
<1> QED BY <1>5 DEF StepOf

LEMMA CallLeft ==
  ASSUME BindInv, BindInv', NEW p \in Proc, ProcStep(p), ~CallStep(p), ~Busy(p)',
         Remember(Host), NEW n \in Name, CallName(p) = n, NEW r, r = ret'[p]
  PROVE  /\ Ends(n, p, r) /\ Busy(p) /\ call' = call
         /\ hist'[n].rec = Recorded(file'[n]) /\ hist'[n].host = Host(n)'
<1>1. NamedInv /\ Alone /\ HistTyped /\ HistTyped' /\ CallTyped /\ CallTyped'
  BY CallTypesOf DEF BindInv, ContractInv, NamedInv
<1>2. /\ Busy(p) /\ call' = call
      /\ \A q \in Proc \ {p} : pc'[q] = pc[q] /\ ret'[q] = ret[q]
  BY <1>1, OthersStay
<1>3. ~Working(n)'
  BY <1>1, <1>2 DEF Working, Alone, Busy, CallName
<1>4. SeenDuring(p)
  BY <1>2 DEF BindInv
<1>5. /\ hist'[n].rec = Recorded(file'[n]) /\ hist'[n].host = Host(n)'
      /\ hist'[n].ret = [q \in Proc |-> IF call'[q].name = n THEN ret'[q]
                                                             ELSE hist[n].ret[q]]
  BY <1>3, Remembered
<1>6. Ends(n, p, r)
  BY <1>1, <1>2, <1>4, <1>5, CallEnded
<1> QED BY <1>2, <1>5, <1>6

(***************************************************************************)
(* What the contracts say of the machine after a calm call that returned   *)
(* nil.                                                                    *)
(***************************************************************************)
LEMMA ContractHost ==
  ASSUME ContractInv', NEW p \in Proc, p \in calm', ~Busy(p)', ret'[p] = "ok",
         NEW n \in Name, call'[p].name = n
  PROVE  /\ call'[p].op = "up" => Host(n)' # "clean"
         /\ call'[p].op = "reassert" => Host(n)' = "inforce"
         /\ call'[p].op = "verify" => LegsHold(st[p])'
<1>1. /\ NamedInv' /\ Progress(p)' /\ pc'[p] = "idle" /\ st'[p] \in State
      /\ st'[p].name = n /\ st'[p].aliases \subseteq AliasesOf(n)
  BY DEF ContractInv, NamedInv, OnTrack, CallNamed, Busy
<1>2. PFAnchor(st'[p]) # {} /\ st'[p].aliases # {}
  BY <1>1, RulesNotEmpty, StateFields
<1>3. CASE call'[p].op = "up"
  <2>1. st'[p].aliases \subseteq alias'
    BY <1>1, <1>3 DEF Progress, UpProgress, Past
  <2>2. Mine(n)' # {}
    BY <1>1, <1>2, <2>1 DEF Mine
  <2> QED BY <1>1, <1>3, <2>2, HostIs DEF NamedInv
<1>4. CASE call'[p].op = "reassert"
  <2>1. /\ st'[p].aliases \subseteq alias' /\ anchor'[n] = PFAnchor(st'[p])
        /\ PFEnabled' /\ IfacesOf(st'[p]) \cap skip' = {} /\ file'[n] = st'[p]
    BY <1>1, <1>4 DEF Progress, ReassertProgress, Past, PFAnchor, IfacesOf
  <2>2. file'[n] \in State /\ LegsHold(file[n])'
    BY <1>1, <1>2, <2>1 DEF LegsHold, IfacesOf
  <2> QED BY <1>1, <1>4, <2>2, HostIs DEF NamedInv
<1>5. CASE call'[p].op = "verify"
  BY <1>1, <1>5 DEF Progress, VerifyProgress, Past, LegsHold, IfacesOf
<1> QED BY <1>3, <1>4, <1>5

LEMMA StepRecordEnds ==
  ASSUME BindInv, BindInv', NEW p \in Proc, RecordStep(p), ~Busy(p)', Watched(p),
         Remember(Host), NEW n \in Name, CallName(p) = n
  PROVE  StepOf(n)
<1>1. PICK r : r = ret'[p]
  OBVIOUS
<1>2. /\ NamedInv /\ NamedInv' /\ ContractInv' /\ CallTyped /\ AskedFor /\ ~CallStep(p)
  <2>1. NamedInv /\ NamedInv' /\ ContractInv' /\ CallTyped /\ AskedFor
    BY CallTypesOf DEF BindInv, ContractInv, NamedInv
  <2>2. Busy(p)
    BY DEF RecordStep, LoadForUp, LoadRecord, SaveTruncate, SaveWrite, ClearState, Busy
  <2> QED BY <2>1, <2>2, CallEntered
<1>3. /\ Ends(n, p, r) /\ Busy(p) /\ call' = call
      /\ hist'[n].rec = Recorded(file'[n]) /\ hist'[n].host = Host(n)'
  BY <1>1, <1>2, CallLeft DEF ProcStep
<1>4. /\ SeenDuring(p) /\ HostDuring(p) /\ RecordTrack(p) /\ AccessesRecord(p)
      /\ HostUnchanged
  BY <1>2, <1>3, RecordTrackOf DEF BindInv, RecordStep, AccessesRecord
<1>5. pc[p] = "load" => HostKept(n, p)
  <2>1. ASSUME pc[p] = "load" PROVE Host(n)' = Host(n)
    <3>1. file' = file
      BY <2>1 DEF RecordStep, LoadForUp, LoadRecord, SaveTruncate, SaveWrite, ClearState
    <3> QED BY <1>2, <1>4, <3>1, HostUntouched DEF NamedInv
  <2> QED BY <1>3, <1>4, <2>1 DEF HostDuring, HostSeen, HostKept
<1>6. /\ call[p].op = "up" /\ r = "ok" /\ p \in calm => hist'[n].host # "clean"
      /\ call[p].op = "reassert" /\ r = "ok" /\ p \in calm => hist'[n].host = "inforce"
  BY <1>1, <1>2, <1>3, ContractHost DEF Watched, CallName
<1>7. pc[p] = "clear" /\ RemovalsWork => hist'[n].host = "clean"
  <2>1. ASSUME pc[p] = "clear", RemovalsWork
        PROVE  anchor'[n] = {} /\ Mine(n)' = {}
    <3>1. DownUndoes(p)
      BY <1>4, <2>1 DEF HostDuring, RecordTrack
    <3> QED BY <1>4, <2>1, <3>1 DEF DownUndoes, Mine, HostUnchanged, hostVars
  <2> QED BY <1>2, <1>3, <2>1, HostIs DEF NamedInv
<1>8. B(n)!BindingNext
  BY <1>1, <1>2, <1>3, <1>4, <1>5, <1>6, <1>7, RecordEnds
<1> QED BY <1>8 DEF StepOf

(***************************************************************************)
(* A command that ends an Up or a Reassert ends it with an error; none     *)
(* ends a Down.                                                            *)
(***************************************************************************)
LEMMA CommandFails ==
  ASSUME NamedInv, NEW p \in Proc, CommandStep(p), ~Busy(p)', SeenDuring(p), call[p].op \in Ops,
         call[p].op # "verify"
  PROVE  call[p].op # "down" /\ ret'[p] = "err"
<1> USE AtCommand DEF Goto, Note, Abort, EndPass, Busy, SeenDuring, RollBack, Ops, OnTrack
<1>1. CASE HasAlias(p)
  BY <1>1 DEF HasAlias, DownLabels
<1>2. CASE DeleteStaleRoute(p) \/ AddAlias(p)
  BY <1>2 DEF DeleteStaleRoute, AddAlias, DownLabels
<1>3. CASE UndoAlias(p)
  BY <1>3 DEF UndoAlias, DownLabels, ReassertLabels
<1>4. CASE EnsureAppleRdrAnchor(p) \/ SkippedAliasIfaces(p)
  BY <1>4 DEF EnsureAppleRdrAnchor, SkippedAliasIfaces, DownLabels
<1>5. CASE DumpMainRuleset(p) \/ LoadMainRuleset(p)
  BY <1>5 DEF DumpMainRuleset, DumpFilter, DumpNat, DumpDummynet, Dump, LoadMainRuleset, DownLabels
<1>6. CASE PFLoadAnchor(p)
  BY <1>6 DEF PFLoadAnchor, DownLabels
<1>7. CASE AnchorHoldsRules(p) \/ PFStatus(p)
  BY <1>7 DEF AnchorHoldsRules, PFStatus, DownLabels
<1>8. CASE PFEnable(p)
  BY <1>8 DEF PFEnable, DownLabels
<1>9. CASE UnloadAfterFailedEnable(p)
  BY <1>9 DEF UnloadAfterFailedEnable, DownLabels
<1>10. CASE FlushForDown(p) \/ ReleasePF(p) \/ DeleteAlias(p)
  BY <1>10 DEF FlushForDown, ReleasePF, DeleteAlias
<1>11. CASE DeleteClonedRoute(p)
  BY <1>11 DEF DeleteClonedRoute, ReassertLabels
<1> QED BY <1>1, <1>2, <1>3, <1>4, <1>5, <1>6, <1>7, <1>8, <1>9, <1>10, <1>11
        DEF CommandStep

(***************************************************************************)
(* A failed Up that found nothing of the binding leaves nothing of it.     *)
(***************************************************************************)
LEMMA UpUndone ==
  ASSUME NamedInv, RemovalsWork, NEW p \in Proc, CommandStep(p), ~Busy(p)', call[p].op = "up",
         Mine(CallName(p)) \subseteq st[p].aliases, UpUndoes(p)
  PROVE  anchor'[CallName(p)] = {} /\ Mine(CallName(p))' = {}
<1>1. "del" \notin Faults /\ "unload" \notin Faults
  BY DEF RemovalsWork
<1>2. /\ pc \in [Proc -> Labels] /\ todo \in [Proc -> SUBSET Alias] /\ CallName(p) \in Name
      /\ anchor \in [Name -> SUBSET Rule] /\ UNCHANGED call
      /\ pc[p] \in LoopLabels => Cur(p) \in todo[p] /\ todo[p] \subseteq st[p].aliases
      /\ pc[p] \in UpLabels /\ st[p].aliases # {}
  BY AtCommand, StateFields DEF CallName, OnTrack
<1> USE <1>1, <1>2
    DEF UpUndoes, Removing, Visited, Mine, CallName, Goto, Loop, Abort, EndPass, LoopLabels,
        HostUnchanged, hostVars, Busy
<1>3. CASE DeleteStaleRoute(p)
  BY <1>3 DEF DeleteStaleRoute
<1>4. CASE AddAlias(p)
  BY <1>4 DEF AddAlias
<1>5. CASE UndoAlias(p)
  BY <1>5 DEF UndoAlias, RemoveAlias
<1>6. CASE EnsureAppleRdrAnchor(p)
  BY <1>6 DEF EnsureAppleRdrAnchor
<1>7. CASE PFLoadAnchor(p)
  BY <1>7 DEF PFLoadAnchor
<1>8. CASE PFEnable(p)
  BY <1>8 DEF PFEnable
<1>9. CASE UnloadAfterFailedEnable(p)
  BY <1>9 DEF UnloadAfterFailedEnable
<1>10. CASE FlushForDown(p) \/ ReleasePF(p) \/ DeleteAlias(p)
  BY <1>10 DEF FlushForDown, ReleasePF, DeleteAlias
<1>11. CASE DeleteClonedRoute(p)
  BY <1>11 DEF DeleteClonedRoute
<1> QED BY <1>3, <1>4, <1>5, <1>6, <1>7, <1>8, <1>9, <1>10, <1>11
        DEF CommandStep, HasAlias, SkippedAliasIfaces, DumpMainRuleset, DumpFilter,
         DumpNat, DumpDummynet, Dump, LoadMainRuleset,
            AnchorHoldsRules, PFStatus, UpLabels, UpFails

LEMMA StepCommandEnds ==
  ASSUME BindInv, BindInv', SameAliases, NEW p \in Proc, CommandStep(p), ~Busy(p)', Watched(p),
         Remember(Host), NEW n \in Name, CallName(p) = n
  PROVE  StepOf(n)
<1>1. PICK r : r = ret'[p]
  OBVIOUS
<1>2. /\ NamedInv /\ NamedInv' /\ ContractInv' /\ CallTyped /\ AskedFor /\ ~CallStep(p)
      /\ HistTyped
  BY CallTypesOf, CallEntered, AtCommand DEF BindInv, ContractInv, NamedInv, Busy
<1>3. /\ Ends(n, p, r) /\ Busy(p) /\ call' = call
      /\ hist'[n].rec = Recorded(file'[n]) /\ hist'[n].host = Host(n)'
  BY <1>1, <1>2, CallLeft DEF ProcStep
<1>4. /\ SeenDuring(p) /\ HostDuring(p) /\ pc[p] # "load" /\ file' = file
      /\ OnTrack(p) /\ call[p].op \in Ops /\ ret \in [Proc -> Results]
      /\ st[p] \in State /\ Mine(n) \subseteq st[p].aliases
  BY <1>2, <1>3, AtCommand, TypeFacts, AllAliases DEF BindInv, NamedInv, Mine
<1>5. ASSUME call[p].op = "verify"
      PROVE  Host(n)' = Host(n) /\ HostKept(n, p) /\ r \in {"ok", "err"} /\ st' = st
  <2>1. Host(n)' = Host(n)
    BY <1>2, <1>4, <1>5, VerifyLooks, HostUntouched DEF NamedInv
  <2>2. r \in {"ok", "err"} /\ st' = st
    BY <1>1, <1>2, <1>4, <1>5, AtCommand
       DEF OnTrack, VerifyLabels, CommandStep, HasAlias, DeleteStaleRoute, AddAlias, UndoAlias,
           EnsureAppleRdrAnchor, SkippedAliasIfaces, DumpMainRuleset, DumpFilter,
         DumpNat, DumpDummynet, Dump, LoadMainRuleset,
           PFLoadAnchor, AnchorHoldsRules, PFStatus, PFEnable, UnloadAfterFailedEnable,
           FlushForDown, ReleasePF, DeleteAlias, DeleteClonedRoute,
           SeenDuring, RollBack, Abort, Note
  <2> QED BY <1>3, <1>4, <1>5, <2>1, <2>2 DEF HostDuring, HostSeen, HostKept
<1>6. call[p].op = "verify" /\ r = "ok" /\ p \in calm => hist[n].host = "inforce"
  <2>1. ASSUME call[p].op = "verify", r = "ok", p \in calm PROVE Host(n)' = "inforce"
    <3>1. LegsHold(st[p])' /\ st' = st
      BY <1>1, <1>2, <1>3, <1>5, <2>1, ContractHost DEF Watched, CallName
    <3>2. Recorded(file[n]) = Recorded(st[p])
      BY <1>4, <2>1 DEF SeenDuring
    <3>3. file[n] \in State /\ file[n].aliases = st[p].aliases /\ file[n].name = st[p].name
      <4>1. Recorded(st[p]) \in OptionsOf(n)
        BY <1>2, <1>4 DEF AskedFor
      <4>2. file[n] \in State
        BY <1>2, <3>2, <4>1, RecordedFile
      <4> QED BY <1>4, <3>2, <4>2 DEF Recorded
    <3>4. LegsHold(file[n])'
      BY <1>4, <3>1, <3>3 DEF LegsHold, IfacesOf
    <3> QED BY <1>2, <1>4, <3>3, <3>4, HostIs DEF NamedInv
  <2> QED BY <1>3, <1>4, <1>5, <2>1 DEF HostDuring, HostSeen
<1>7. call[p].op # "verify" => call[p].op # "down" /\ r = "err"
  BY <1>1, <1>2, <1>4, CommandFails
<1>8. call[p].op = "up" /\ RemovalsWork /\ hist[n].host = "clean" => hist'[n].host = "clean"
  <2>1. ASSUME call[p].op = "up", RemovalsWork, hist[n].host = "clean"
        PROVE  anchor'[n] = {} /\ Mine(n)' = {}
    <3>1. UpUndoes(p)
      BY <1>4, <2>1 DEF HostDuring
    <3>2. anchor'[CallName(p)] = {} /\ Mine(CallName(p))' = {}
      BY <1>2, <1>4, <2>1, <3>1, UpUndone
    <3> QED BY <1>3, <3>2 DEF CallName, Mine
  <2> QED BY <1>2, <1>3, <2>1, HostIs DEF NamedInv
<1>9. call[p].op # "down"
  BY <1>7
<1>10. B(n)!BindingNext
  BY <1>1, <1>2, <1>3, <1>4, <1>5, <1>6, <1>7, <1>8, <1>9, CommandEnds
<1> QED BY <1>10 DEF StepOf

LEMMA StepKillEnds ==
  ASSUME BindInv, BindInv', NEW p \in Proc, KillStep(p), Remember(Host), NEW n \in Name,
         CallName(p) = n
  PROVE  StepOf(n)
<1>1. /\ NamedInv /\ CallTyped /\ AskedFor /\ TypeInv
  BY CallTypesOf DEF BindInv, ContractInv, NamedInv
<1>2. /\ Busy(p) /\ ~Busy(p)' /\ ret'[p] = "killed" /\ ~CallStep(p)
      /\ file' = file /\ HostUnchanged
  BY <1>1, CallEntered, TypeFacts DEF KillStep, Kill, Goto, Note, Busy, CallTyped
<1>3. PICK r : r = "killed"
  OBVIOUS
<1>4. /\ Ends(n, p, r) /\ hist'[n].rec = Recorded(file[n]) /\ hist'[n].host = Host(n)'
  BY <1>2, <1>3, CallLeft DEF ProcStep, Recorded
<1>5. SeenDuring(p) /\ HostDuring(p)
  BY <1>2 DEF BindInv
<1>6. pc[p] = "load" \/ call[p].op = "verify" => HostKept(n, p)
  <2>1. Host(n)' = Host(n)
    BY <1>1, <1>2, HostUntouched DEF NamedInv
  <2> QED BY <1>4, <1>5, <2>1 DEF HostDuring, HostSeen, HostKept
<1>7. B(n)!BindingNext
  BY <1>1, <1>3, <1>4, <1>5, <1>6, KilledEnds
<1> QED BY <1>7 DEF StepOf

LEMMA StepOutside ==
  ASSUME BindInv, BindInv', OutsideStep, Observe({}, {}), Remember(Host), NEW n \in Name
  PROVE  StepOf(n)
<1>1. /\ NamedInv /\ NamedInv' /\ Alone /\ HistTyped /\ HistTyped' /\ CallTyped
      /\ ~Working(n) => SeenAtRest(n) /\ hist[n].host = Host(n)
      /\ UNCHANGED callVars
  BY CallTypesOf DEF BindInv, ContractInv, NamedInv, OutsideStep
<1>2. \A q \in Proc : /\ pc'[q] = pc[q] /\ call'[q] = call[q]
                      /\ st'[q] = st[q] /\ ret'[q] = ret[q]
                      /\ q \in calm' => q \in calm
  BY <1>1 DEF callVars, Observe
<1>3. file'[n] = file[n] /\ (Working(n)' <=> Working(n))
  BY <1>1 DEF callVars, Working, Busy
<1>4. Working(n) => hist'[n] = hist[n]
  BY <1>3, Remembered
<1>5. Host(n) = "clean" => Host(n)' = "clean"
  BY <1>1, OutsideNames, NothingNewHost DEF NamedInv
<1>6. ~Working(n) =>
        /\ SeenAtRest(n)
        /\ hist'[n].rec = Recorded(file'[n])
        /\ hist'[n].ret = [q \in Proc |-> IF call'[q].name = n THEN ret'[q]
                                                               ELSE hist[n].ret[q]]
        /\ hist[n].host = "clean" => hist'[n].host = "clean"
  BY <1>1, <1>3, <1>5, Remembered
<1>7. PICK A \in SUBSET Proc : A = {}
  OBVIOUS
<1>8. UNCHANGED B(n)!bindingVars \/ B(n)!Interfere
  BY <1>1, <1>2, <1>3, <1>4, <1>6, <1>7, AsideSteps
<1> QED BY <1>8 DEF StepOf, B!BindingNext

LEMMA StepReboot ==
  ASSUME BindInv, BindInv', Reboot, Remember(Host), NEW n \in Name
  PROVE  StepOf(n)
<1>1. ~Working(n)' /\ file'[n] = NoFile /\ anchor'[n] = {} /\ Mine(n)' = {}
  BY DEF Reboot, RebootCalls, Working, Busy, Mine
<1>2. Host(n)' = "clean"
  BY <1>1, HostIs DEF BindInv, ContractInv, NamedInv
<1>3. /\ hist'[n].rec = NoFile /\ hist'[n].host = "clean"
      /\ hist'[n].ret = [q \in Proc |-> IF call'[q].name = n THEN ret'[q]
                                                             ELSE hist[n].ret[q]]
  BY <1>1, <1>2, Remembered, SentinelAssumption DEF Recorded
<1>4. HistTyped /\ RebootCalls
  BY DEF BindInv, Reboot
<1>5. B(n)!BindingNext
  BY <1>3, <1>4, RebootSteps
<1> QED BY <1>5 DEF StepOf

(***************************************************************************)
(* Every step of one of the processes.                                     *)
(***************************************************************************)
LEMMA StepProc ==
  ASSUME SameAliases, BindInv, BindInv', NEW p \in Proc, ProcStep(p), Watched(p),
         Remember(Host), NEW n \in Name
  PROVE  StepOf(n)
<1>1. NamedInv /\ AskedFor
  BY DEF BindInv, ContractInv
<1>2. CASE CallStep(p)
  <2>1. CASE call'[p].name = n
    BY <1>2, <2>1, StepEnters
  <2>2. CASE call'[p].name # n
    BY <1>2, <2>2, StepBeside
  <2> QED BY <2>1, <2>2
<1>3. CASE ~CallStep(p)
  <2>1. call' = call
    BY <1>1, <1>3, OthersStay
  <2>2. CASE CallName(p) # n
    BY <2>1, <2>2, StepBeside DEF CallName
  <2>3. CASE CallName(p) = n /\ Busy(p)'
    BY <1>3, <2>3, StepInside
  <2>4. CASE CallName(p) = n /\ ~Busy(p)'
    BY <1>3, <2>4, StepRecordEnds, StepCommandEnds, StepKillEnds DEF ProcStep
  <2> QED BY <2>2, <2>3, <2>4
<1> QED BY <1>2, <1>3

LEMMA ProcWatched ==
  ASSUME BindInv, NEW p \in Proc,
         \/ CallStep(p) /\ Observe({p}, {p})
         \/ (RecordStep(p) \/ CommandStep(p) \/ KillStep(p)) /\ Observe({p}, {})
  PROVE  ProcStep(p) /\ Watched(p)
<1>1. NamedInv /\ AskedFor /\ ProcStep(p)
  BY DEF BindInv, ContractInv, ProcStep
<1>2. Observe({p}, IF CallStep(p) THEN {p} ELSE {})
  <2>1. CASE CallStep(p) /\ Observe({p}, {p})
    BY <2>1
  <2>2. CASE (RecordStep(p) \/ CommandStep(p) \/ KillStep(p)) /\ Observe({p}, {})
    <3>1. Busy(p)
      BY <1>1, <2>2, AtCommand
         DEF RecordStep, LoadForUp, LoadRecord, SaveTruncate, SaveWrite, ClearState,
             KillStep, Kill, Busy
    <3> QED BY <1>1, <2>2, <3>1, CallEntered
  <2> QED BY <2>1, <2>2
<1>3. p \in calm' <=> p \in calm \/ CallStep(p)
  BY <1>2 DEF Observe
<1>4. ASSUME NEW q \in Proc \ {p}, q \in calm'
      PROVE  q \in calm /\ Footprint(CallName(q))' = Footprint(CallName(q))
  BY <1>2, <1>4 DEF Observe, CallName
<1> QED BY <1>1, <1>3, <1>4 DEF Watched

LEMMA BindStep ==
  ASSUME SameAliases, Serial, BindInv, [Next /\ Remember(Host)]_<<vars, hist>>
  PROVE  /\ BindInv'
         /\ [\A n \in Name : StepOf(n)]_<<callVars, calm, hist>>
<1>1. ContractInv'
  <2>1. ContractInv /\ [Next]_vars
    BY DEF BindInv
  <2> QED BY <2>1, ContractStep
<1>2. CASE UNCHANGED <<vars, hist>>
  <2>1. UNCHANGED <<callVars, calm, hist>>
    BY <1>2 DEF vars, pfVars
  <2> QED BY <1>1, <1>2, <2>1, BindStays
<1>3. ASSUME NEW p \in Proc, Remember(Host),
             \/ CallStep(p) /\ Observe({p}, {p})
             \/ (RecordStep(p) \/ CommandStep(p) \/ KillStep(p)) /\ Observe({p}, {})
      PROVE  BindInv' /\ \A n \in Name : StepOf(n)
  <2>1. ProcStep(p) /\ Watched(p)
    BY <1>3, ProcWatched
  <2>2. BindInv'
    BY <1>1, <1>3, <2>1, BindProc
  <2> QED BY <1>3, <2>1, <2>2, StepProc
<1>4. CASE OutsideStep /\ Observe({}, {}) /\ Remember(Host)
  <2>1. BindInv'
    BY <1>1, <1>4, BindOutside
  <2> QED BY <1>4, <2>1, StepOutside
<1>5. CASE Reboot /\ Remember(Host)
  <2>1. BindInv'
    BY <1>1, <1>5, BindReboot
  <2> QED BY <1>5, <2>1, StepReboot
<1> QED BY <1>2, <1>3, <1>4, <1>5 DEF Next

LEMMA BindBegins ==
  ASSUME Init, HistInit, NEW n \in Name
  PROVE  B(n)!BindingInit
<1>1. \A p \in Proc : CallOn(n, p) = [op |-> "idle"]
  BY DEF Init, CallInit, CallOn, Busy
<1>2. hist[n] = [rec |-> NoFile, host |-> "clean", ret |-> [p \in Proc |-> "nobinding"]]
  BY DEF HistInit
<1> QED BY <1>1, <1>2 DEF B!BindingInit, B!Idle

(***************************************************************************)
(* Calls on one name that are kept apart are atomic, however their         *)
(* commands fail, are interrupted or interfered with: a caller sees the    *)
(* outcomes Binding allows and no others.  (For options that give a name   *)
(* the same aliases in every Up: the machine is clean when none of them is *)
(* there, and a roll-back takes away those of its own call.)               *)
(***************************************************************************)
THEOREM BindingImplemented ==
  ASSUME Serial, SameAliases
  PROVE  HistSpec => ImplementsBinding
<1>1. Init /\ HistInit => BindInv /\ \A n \in Name : B(n)!BindingInit
  BY BindBegins, BindInit
<1>2. BindInv /\ [Next /\ Remember(Host)]_<<vars, hist>> =>
        /\ BindInv'
        /\ [\A n \in Name :
              \/ UNCHANGED B(n)!bindingVars
              \/ B(n)!BindingNext]_<<callVars, calm, hist>>
  BY BindStep DEF StepOf
<1> QED BY <1>1, <1>2, PTL DEF HistSpec, ImplementsBinding

=============================================================================
