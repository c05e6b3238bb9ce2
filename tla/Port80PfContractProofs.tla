------------------------ MODULE Port80PfContractProofs ------------------------
(***************************************************************************)
(* What the calls of Port80Pf promise, proved for any processes, names,    *)
(* aliases, tokens, faults and interference: UpContract, ReassertContract, *)
(* VerifyContract, DownContract, DownUnblocks and ReassertInPlace.         *)
(*                                                                         *)
(* A call runs one command after the other while other calls and the rest  *)
(* of the machine act in between.  The invariant says, for a process that  *)
(* is still calm, which legs of its binding the commands up to pc[p] have  *)
(* established; what the others do either leaves the footprint of the      *)
(* binding alone or ends the calm.                                         *)
(***************************************************************************)
EXTENDS Port80PfProofs

-----------------------------------------------------------------------------
(* Names.  Records and calls are about the binding they are filed under.   *)

RecordNamed(n) ==
  file[n] \in State => file[n].name = n /\ file[n].aliases \subseteq AliasesOf(n)

CallNamed(p) ==
  st[p] \in State =>
    st[p].name = call[p].name /\ st[p].aliases \subseteq AliasesOf(call[p].name)

(***************************************************************************)
(* The commands each call runs.                                            *)
(***************************************************************************)
UpFails == {"undo", "unload", "teardown", "release", "del", "unroute"}

UpLabels ==
  {"idle", "load", "alias", "add", "wild", "rules", "enable", "save", "write"}
    \cup UpFails

DownLabels == {"idle", "load", "teardown", "release", "del", "unroute", "clear"}

ReassertLabels ==
  {"idle", "load", "has", "alias", "add", "wild", "skip", "dump", "dumpnat",
   "dumpdummynet", "main", "rules", "status", "enable", "save", "write"}

VerifyLabels == {"idle", "load", "has", "rdr", "status", "skip"}

OnTrack(p) ==
  /\ call[p].op = "up" => pc[p] \in UpLabels
  /\ call[p].op = "up" /\ pc[p] \in UpFails => ret[p] # "ok"
  /\ call[p].op = "down" => pc[p] \in DownLabels
  /\ call[p].op = "verify" => pc[p] \in VerifyLabels
  /\ call[p].op = "reassert" => pc[p] \in ReassertLabels
  /\ pc[p] = "idle" /\ ret[p] = "ok" => st[p] \in State
  /\ pc[p] \in LoopLabels => todo[p] \subseteq st[p].aliases

NamedInv ==
  /\ TypeInv
  /\ \A n \in Name : RecordNamed(n)
  /\ \A p \in Proc : CallNamed(p) /\ OnTrack(p)

-----------------------------------------------------------------------------
(* Progress: what p's call has established at its current command.         *)

(***************************************************************************)
(* The call is at one of `labels`, or has returned nil.                    *)
(***************************************************************************)
Past(p, labels) == pc[p] \in labels \/ (pc[p] = "idle" /\ ret[p] = "ok")

Visited(p) == st[p].aliases \ todo[p]

UpProgress(p) ==
  LET s == st[p]
      n == call[p].name
  IN
  /\ pc[p] \in {"alias", "add"} =>
       Visited(p) \subseteq alias /\ Visited(p) \cap reject \subseteq undeleted
  /\ pc[p] = "add" => (Cur(p) \in reject => Cur(p) \in undeleted)
  /\ Past(p, {"wild", "rules", "enable", "save", "write"}) =>
       s.aliases \subseteq alias /\ s.aliases \cap reject \subseteq undeleted
  /\ Past(p, {"rules", "enable", "save", "write"}) => Wildcard \in main
  /\ Past(p, {"enable", "save", "write"}) => anchor[n] = PFAnchor(s)
  /\ Past(p, {"save", "write"}) => PFEnabled /\ (s.tok # NoToken => ref[s.tok] = n)
  /\ pc[p] = "write" => file[n] = Torn /\ p \in fd
  /\ Past(p, {}) => file[n] = s

(***************************************************************************)
(* reapply's commands after ensureAppleRdrAnchor.                          *)
(***************************************************************************)
AfterWildcard ==
  {"skip", "dump", "dumpnat", "dumpdummynet", "main", "rules", "status", "enable",
   "save", "write"}

ReassertProgress(p) ==
  LET s == st[p]
      n == call[p].name
  IN
  /\ pc[p] \in {"has", "alias", "add"} => Visited(p) \subseteq alias
  /\ Past(p, {"wild"} \cup AfterWildcard) => s.aliases \subseteq alias
  /\ Past(p, AfterWildcard) => Wildcard \in main
  /\ pc[p] \in {"dumpnat", "dumpdummynet", "main"} => InSection(main, "filter") \subseteq dump[p]
  /\ pc[p] \in {"dumpdummynet", "main"} => InSection(main, "nat") \subseteq dump[p]
  /\ Past(p, {"rules", "status", "enable", "save", "write"}) => IfacesOf(s) \cap skip = {}
  /\ Past(p, {"status", "enable", "save", "write"}) => anchor[n] = PFAnchor(s)
  /\ Past(p, {"save", "write"}) => PFEnabled
  /\ pc[p] = "write" => file[n] = Torn /\ p \in fd
  /\ Past(p, {}) => file[n] = s

VerifyProgress(p) ==
  LET s == st[p]
      n == call[p].name
  IN
  /\ pc[p] = "has" => Visited(p) \subseteq alias
  /\ Past(p, {"rdr", "status", "skip"}) => s.aliases \subseteq alias
  /\ Past(p, {"status", "skip"}) => anchor[n] # {}
  /\ Past(p, {"skip"}) => PFEnabled
  /\ Past(p, {}) => IfacesOf(s) \cap skip = {}

DownProgress(p) ==
  LET s == st[p]
      n == call[p].name
      gone(as) == as \cap alias = {} /\ as \cap reject \subseteq undeleted
  IN
  /\ pc[p] = "load" => s = NoState
  /\ pc[p] \in {"del", "unroute"} /\ ret[p] = "ok" => gone(Visited(p))
  /\ pc[p] = "unroute" /\ ret[p] = "ok" => Cur(p) \notin alias
  /\ Past(p, {"clear"}) /\ ret[p] = "ok" => gone(s.aliases)
  /\ "unload" \notin Faults =>
       /\ Past(p, {"release", "del", "unroute", "clear"}) => anchor[n] = {}
       /\ Past(p, {"del", "unroute", "clear"}) => (s.tok # NoToken => ref[s.tok] # n)
  /\ Past(p, {}) => file[n] = NoFile
  /\ pc[p] = "idle" /\ s \in State /\ "clear" \notin Faults => file[n] = NoFile

Progress(p) ==
  /\ call[p].op = "up" => UpProgress(p)
  /\ call[p].op = "reassert" => ReassertProgress(p)
  /\ call[p].op = "verify" => VerifyProgress(p)
  /\ call[p].op = "down" => DownProgress(p)

(***************************************************************************)
(* The inductive invariant behind the contracts.                           *)
(***************************************************************************)
ContractInv == NamedInv /\ \A p \in calm : Progress(p)

LEMMA NamedInit == Init => ContractInv
<1> SUFFICES ASSUME Init PROVE ContractInv
  OBVIOUS
<1>1. TypeInv
  BY TypeInit
<1>2. \A n \in Name : RecordNamed(n)
  BY SentinelAssumption DEF Init, CallInit, RecordNamed
<1>3. \A p \in Proc : CallNamed(p) /\ OnTrack(p)
  BY SentinelAssumption
     DEF Init, CallInit, CallNamed, OnTrack, VerifyLabels
<1> QED BY <1>1, <1>2, <1>3 DEF ContractInv, NamedInv, Init

-----------------------------------------------------------------------------
(* What a step of p leaves alone.                                          *)

(***************************************************************************)
(* The call of q is where it was; its open file is gone only if the record *)
(* has been removed.                                                       *)
(***************************************************************************)
CallKept(q) ==
  /\ pc'[q] = pc[q] /\ call'[q] = call[q] /\ st'[q] = st[q]
  /\ todo'[q] = todo[q] /\ ret'[q] = ret[q] /\ dump'[q] = dump[q]
  /\ q \in fd => q \in fd' \/ file'[call[q].name] = NoFile

ProcStep(p) == CallStep(p) \/ RecordStep(p) \/ CommandStep(p) \/ KillStep(p)

LEMMA OthersKept ==
  ASSUME TypeInv, NEW p \in Proc, ProcStep(p), NEW q \in Proc \ {p}
  PROVE  CallKept(q)
<1>1. OthersUnchanged(p)
  BY CallTypes, RecordTypes, CommandTypes, KillTypes DEF ProcStep, TypedStep
<1>2. ret \in [Proc -> Results] /\ dump \in [Proc -> SUBSET Attachments]
  BY HostTypes
<1>3. CASE CallStep(p)
  BY <1>1, <1>2, <1>3
     DEF CallStep, Up, Down, Verify, Reassert, Begin, Note, OthersUnchanged, CallKept
<1>4. CASE RecordStep(p)
  <2>1. dump' = dump /\ ret'[q] = ret[q]
    BY <1>2, <1>4
       DEF RecordStep, LoadForUp, LoadRecord, SaveTruncate, SaveWrite, SaveFailed,
           ClearState, Note
  <2>2. q \in fd => q \in fd' \/ file'[call[q].name] = NoFile
    BY <1>4, TypeFacts
       DEF RecordStep, LoadForUp, LoadRecord, SaveTruncate, SaveWrite, SaveFailed,
           ClearState, TypeInv, TypeOK
  <2> QED BY <1>1, <2>1, <2>2 DEF OthersUnchanged, CallKept
<1>5. CASE CommandStep(p)
  <2>1. fd' = fd /\ ret'[q] = ret[q] /\ dump'[q] = dump[q]
    BY <1>2, <1>5
       DEF CommandStep, HasAlias, DeleteStaleRoute, AddAlias, UndoAlias,
           EnsureAppleRdrAnchor, SkippedAliasIfaces, DumpMainRuleset, DumpFilter, DumpNat,
         DumpDummynet, Dump, LoadMainRuleset, PFLoadAnchor, AnchorHoldsRules, PFStatus, PFEnable,
           UnloadAfterFailedEnable, FlushForDown, ReleasePF, DeleteAlias,
           DeleteClonedRoute, Abort, Note
  <2> QED BY <1>1, <2>1 DEF OthersUnchanged, CallKept
<1>6. CASE KillStep(p)
  BY <1>1, <1>2, <1>6 DEF KillStep, Kill, Note, OthersUnchanged, CallKept
<1> QED BY <1>3, <1>4, <1>5, <1>6 DEF ProcStep

-----------------------------------------------------------------------------
(* Names and tracks are kept.                                              *)

LEMMA CallNames ==
  ASSUME NamedInv, NEW p \in Proc, CallStep(p)
  PROVE  /\ CallNamed(p)' /\ OnTrack(p)' /\ UNCHANGED file
         /\ pc'[p] = "load" /\ (call'[p].op = "down" => st'[p] = NoState)
<1> USE DEF NamedInv, TypeInv, TypeOK, Begin, Goto, Note
<1>1. ASSUME NEW o \in Options, Up(p, o)
      PROVE  CallNamed(p)'
  BY <1>1, OptionNamed, OptionsName DEF Up, CallNamed
<1>2. ASSUME NEW n \in Name, Down(p, n) \/ Verify(p, n) \/ Reassert(p, n)
      PROVE  CallNamed(p)'
  BY <1>2, SentinelAssumption DEF Down, Verify, Reassert, CallNamed
<1>3. UNCHANGED file /\ pc'[p] = "load" /\ (call'[p].op = "down" => st'[p] = NoState)
  BY OptionsName DEF CallStep, Up, Down, Verify, Reassert
<1>4. OnTrack(p)'
  BY <1>3 DEF OnTrack, UpLabels, UpFails, DownLabels, VerifyLabels, ReassertLabels, LoopLabels
<1> QED BY <1>1, <1>2, <1>3, <1>4 DEF CallStep

LEMMA RecordNames ==
  ASSUME NamedInv, NEW p \in Proc, RecordStep(p)
  PROVE  CallNamed(p)' /\ OnTrack(p)' /\ \A n \in Name : RecordNamed(n)'
<1>1. /\ TypeInv /\ CallNamed(p) /\ OnTrack(p) /\ call[p].name \in Name
      /\ pc[p] \notin {"idle", "load"} => st[p] \in State
  BY TypeFacts DEF NamedInv
<1>2. call' = call
  BY DEF RecordStep, LoadForUp, LoadRecord, SaveTruncate, SaveWrite, SaveFailed,
         ClearState
<1>3. st'[p] = st[p] \/ st'[p] = file[call[p].name]
  BY DEF RecordStep, LoadForUp, LoadRecord, SaveTruncate, SaveWrite, SaveFailed,
         ClearState, NamedInv, TypeInv, TypeOK
<1>4. CallNamed(p)'
  BY <1>1, <1>2, <1>3 DEF NamedInv, RecordNamed, CallNamed
<1>5. OnTrack(p)'
  BY <1>1, <1>2
     DEF RecordStep, LoadForUp, LoadRecord, SaveTruncate, SaveWrite, SaveFailed,
         ClearState, Goto, Note, Loop, TypeInv, TypeOK, OnTrack, UpLabels, UpFails,
         DownLabels, VerifyLabels, ReassertLabels, LoopLabels
<1>6. ASSUME NEW n \in Name PROVE RecordNamed(n)'
  <2>1. \/ file'[n] \in {file[n], Torn, NoFile}
        \/ n = call[p].name /\ file'[n] = st[p]
    BY <1>1 DEF RecordStep, LoadForUp, LoadRecord, SaveTruncate, SaveWrite, SaveFailed,
           ClearState, Written, TypeInv, TypeOK
  <2> QED BY <1>1, <2>1, SentinelAssumption DEF NamedInv, RecordNamed, CallNamed
<1> QED BY <1>4, <1>5, <1>6

LEMMA CommandNames ==
  ASSUME NamedInv, NEW p \in Proc, CommandStep(p)
  PROVE  CallNamed(p)' /\ OnTrack(p)' /\ UNCHANGED file
<1>1. /\ TypeInv /\ CallNamed(p) /\ OnTrack(p)
      /\ pc[p] \notin {"idle", "load"} => st[p] \in State
  BY TypeFacts DEF NamedInv
<1>2. UNCHANGED <<file, call>> /\ pc[p] \notin {"idle", "load"}
  BY DEF CommandStep, HasAlias, DeleteStaleRoute, AddAlias, UndoAlias,
         EnsureAppleRdrAnchor, SkippedAliasIfaces, DumpMainRuleset, DumpFilter, DumpNat,
         DumpDummynet, Dump, LoadMainRuleset,
         PFLoadAnchor, AnchorHoldsRules, PFStatus, PFEnable,
         UnloadAfterFailedEnable, FlushForDown, ReleasePF, DeleteAlias,
         DeleteClonedRoute
<1>3. /\ st'[p].name = st[p].name /\ st'[p].aliases = st[p].aliases
      /\ st'[p] \in State
  <2>1. CASE PFEnable(p)
    <3>1. st' = st \/ \E tok \in Token \cup {NoToken} : st' = [st EXCEPT ![p].tok = tok]
      BY <2>1 DEF PFEnable, ParsePFToken
    <3> QED BY <1>1, <1>2, <3>1 DEF State, TypeInv, TypeOK
  <2>2. CASE st' = st
    BY <1>1, <1>2, <2>2
  <2> QED
    BY <2>1, <2>2
       DEF CommandStep, HasAlias, DeleteStaleRoute, AddAlias, UndoAlias,
         EnsureAppleRdrAnchor, SkippedAliasIfaces, DumpMainRuleset, DumpFilter, DumpNat,
         DumpDummynet, Dump, LoadMainRuleset,
         PFLoadAnchor, AnchorHoldsRules, PFStatus, 
         UnloadAfterFailedEnable, FlushForDown, ReleasePF, DeleteAlias,
         DeleteClonedRoute
<1>4. CallNamed(p)'
  BY <1>1, <1>2, <1>3 DEF CallNamed
<1>5. OnTrack(p)'
  BY <1>1, <1>2, <1>3
     DEF CommandStep, HasAlias, DeleteStaleRoute, AddAlias, UndoAlias,
         EnsureAppleRdrAnchor, SkippedAliasIfaces, DumpMainRuleset, DumpFilter, DumpNat,
         DumpDummynet, Dump, LoadMainRuleset,
         PFLoadAnchor, AnchorHoldsRules, PFStatus, PFEnable,
         UnloadAfterFailedEnable, FlushForDown, ReleasePF, DeleteAlias,
         DeleteClonedRoute, EndPass, Abort, Goto, Note, Loop, TypeInv, TypeOK, OnTrack,
         UpLabels, UpFails, DownLabels, VerifyLabels, ReassertLabels, LoopLabels
<1> QED BY <1>2, <1>4, <1>5

LEMMA KillNames ==
  ASSUME NamedInv, NEW p \in Proc, KillStep(p)
  PROVE  CallNamed(p)' /\ OnTrack(p)' /\ UNCHANGED file
  BY SentinelAssumption
     DEF KillStep, Kill, Goto, Note, NamedInv, TypeInv, TypeOK, CallNamed, OnTrack,
         UpLabels, UpFails, DownLabels, VerifyLabels, ReassertLabels, LoopLabels

LEMMA NamedStep ==
  ASSUME NamedInv, [Next]_vars
  PROVE  NamedInv'
<1>1. TypeInv /\ TypeInv'
  BY TypeStep DEF NamedInv
<1>2. ASSUME NEW p \in Proc, ProcStep(p) PROVE NamedInv'
  <2>1. CallNamed(p)' /\ OnTrack(p)' /\ \A n \in Name : RecordNamed(n)'
    BY <1>2, CallNames, RecordNames, CommandNames, KillNames
       DEF ProcStep, NamedInv, RecordNamed
  <2>2. ASSUME NEW q \in Proc \ {p} PROVE CallNamed(q)' /\ OnTrack(q)'
    BY <1>1, <1>2, OthersKept DEF CallKept, NamedInv, CallNamed, OnTrack
  <2> QED BY <1>1, <2>1, <2>2 DEF NamedInv
<1>3. CASE OutsideStep
  BY <1>1, <1>3
     DEF OutsideStep, callVars, NamedInv, RecordNamed, CallNamed, OnTrack
<1>4. CASE Reboot
  BY <1>1, <1>4, SentinelAssumption
     DEF Reboot, RebootCalls, NamedInv, RecordNamed, CallNamed, OnTrack, UpLabels,
         UpFails, DownLabels, VerifyLabels, ReassertLabels, LoopLabels
<1>5. CASE UNCHANGED vars
  BY <1>1, <1>5
     DEF vars, pfVars, callVars, NamedInv, RecordNamed, CallNamed, OnTrack
<1> QED BY <1>2, <1>3, <1>4, <1>5 DEF Next, ProcStep

-----------------------------------------------------------------------------
(* Progress under the steps of others.                                     *)

(***************************************************************************)
(* A route stays undeleted as long as it is there.                         *)
(***************************************************************************)
LEMMA RoutesKept ==
  ASSUME [Next]_vars
  PROVE  undeleted \cap reject' \subseteq undeleted'
<1>1. ASSUME NEW a, DeleteRoute(a) \/ RemoveAlias(a)
      PROVE  undeleted \cap reject' \subseteq undeleted'
  BY <1>1 DEF DeleteRoute, RemoveAlias
<1>2. ASSUME UNCHANGED undeleted PROVE undeleted \cap reject' \subseteq undeleted'
  BY <1>2
<1>3. ASSUME NEW p \in Proc, CommandStep(p)
      PROVE  undeleted \cap reject' \subseteq undeleted'
  BY <1>1, <1>2, <1>3
     DEF CommandStep, HasAlias, DeleteStaleRoute, AddAlias, UndoAlias,
         EnsureAppleRdrAnchor, SkippedAliasIfaces, DumpMainRuleset, DumpFilter, DumpNat,
         DumpDummynet, Dump, LoadMainRuleset, PFLoadAnchor, AnchorHoldsRules, PFStatus,
         PFEnable, UnloadAfterFailedEnable, FlushForDown, ReleasePF, DeleteAlias,
         DeleteClonedRoute, HostUnchanged, hostVars
<1>4. ASSUME NEW p \in Proc, CallStep(p) \/ RecordStep(p) \/ KillStep(p)
      PROVE  UNCHANGED undeleted
  BY <1>4 DEF CallStep, RecordStep, KillStep, HostUnchanged, hostVars
<1>5. CASE OutsideStep
  BY <1>1, <1>2, <1>5
     DEF OutsideStep, OutsideFlush, OutsideDisable, InternetSharing, OutsideReload,
         OutsideAliasLoss, OutsideReference
<1>6. CASE Reboot
  BY <1>6 DEF Reboot
<1> QED BY <1>2, <1>3, <1>4, <1>5, <1>6 DEF Next, vars, pfVars, hostVars

(***************************************************************************)
(* A calm process has what it had: its call is where it was, and what its  *)
(* binding stands on is unchanged.                                         *)
(***************************************************************************)
LEMMA ProgressKept ==
  ASSUME NamedInv, NEW q \in Proc, Progress(q), CallKept(q),
         Footprint(call[q].name)' = Footprint(call[q].name),
         undeleted \cap reject' \subseteq undeleted'
  PROVE  Progress(q)'
<1> DEFINE n == call[q].name
<1>1. /\ n \in Name
      /\ pc[q] \notin {"idle", "load"} => st[q] \in State
      /\ pc[q] = "idle" /\ ret[q] = "ok" => st[q] \in State
      /\ st[q] \in State =>
           /\ st[q].aliases \subseteq AliasesOf(n)
           /\ st[q].tok \in Token \cup {NoToken}
      /\ pc[q] \in LoopLabels => Cur(q) \in todo[q]
      /\ todo[q] \subseteq Alias
      /\ OnTrack(q)
  BY TypeFacts, StateFields DEF NamedInv, TypeInv, TypeOK, CallNamed, OnTrack
<1>2. /\ file'[n] = file[n] /\ anchor'[n] = anchor[n]
      /\ AliasesOf(n) \cap alias' = AliasesOf(n) \cap alias
      /\ AliasesOf(n) \cap reject' = AliasesOf(n) \cap reject
      /\ \A t \in Token : ref'[t] = n <=> ref[t] = n
      /\ PFEnabled' = PFEnabled /\ skip' = skip /\ main' = main
  <2>1. \A t \in Token : ref'[t] = n <=> ref[t] = n
    <3>1. {t \in Token : ref'[t] = n} = {t \in Token : ref[t] = n}
      BY DEF Footprint, CallKept
    <3> QED BY <3>1
  <2> QED BY <2>1 DEF Footprint, CallKept
<1>3. /\ pc'[q] = pc[q] /\ call'[q] = call[q] /\ st'[q] = st[q]
      /\ todo'[q] = todo[q] /\ ret'[q] = ret[q] /\ dump'[q] = dump[q]
      /\ file[n] = Torn /\ q \in fd => q \in fd'
  BY <1>2, SentinelAssumption DEF CallKept
<1>4. Cur(q)' = Cur(q)
  BY <1>3 DEF Cur
<1>5. pc[q] \in LoopLabels => Cur(q) \in AliasesOf(n)
  BY <1>1 DEF OnTrack, LoopLabels
<1> QED
  <2>1. CASE call[q].op = "up"
    BY <1>1, <1>2, <1>3, <1>4, <1>5, <2>1
       DEF Progress, UpProgress, Past, Visited, LoopLabels
  <2>2. CASE call[q].op = "reassert"
    <3>1. \A section : InSection(main, section)' = InSection(main, section)
      BY <1>2 DEF InSection
    <3>2. IfacesOf(st[q])' = IfacesOf(st[q]) /\ Visited(q)' = Visited(q)
      BY <1>3 DEF IfacesOf, Visited
    <3>3. Past(q, AfterWildcard)' <=> Past(q, AfterWildcard)
      BY <1>3 DEF Past, AfterWildcard
    <3> QED BY <1>1, <1>2, <1>3, <2>2, <3>1, <3>2, <3>3
            DEF Progress, ReassertProgress, Past, OnTrack, Visited, AfterWildcard
  <2>3. CASE call[q].op = "verify"
    BY <1>1, <1>2, <1>3, <2>3 DEF Progress, VerifyProgress, Past, Visited, IfacesOf, OnTrack
  <2>4. CASE call[q].op = "down"
    BY <1>1, <1>2, <1>3, <1>4, <1>5, <2>4 DEF Progress, DownProgress, Past, Visited, LoopLabels
  <2>5. call[q].op \in {"up", "reassert", "verify", "down"}
    BY TypeFacts DEF NamedInv, Ops
  <2> QED BY <1>3, <2>1, <2>2, <2>3, <2>4, <2>5 DEF Progress

-----------------------------------------------------------------------------
(* Progress of a command.                                                  *)

(***************************************************************************)
(* What every command of p can count on.                                   *)
(***************************************************************************)
LEMMA AtCommand ==
  ASSUME NamedInv, NEW p \in Proc, CommandStep(p)
  PROVE  /\ pc \in [Proc -> Labels] /\ todo \in [Proc -> SUBSET Alias]
         /\ ret \in [Proc -> Results] /\ st \in [Proc -> State \cup {NoState}]
         /\ anchor \in [Name -> SUBSET Rule]
         /\ ref \in [Token -> Name \cup {Outside, Free}]
         /\ dump \in [Proc -> SUBSET Attachments]
         /\ pc[p] \notin {"idle", "load"}
         /\ st[p] \in State /\ call[p].name \in Name
         /\ pc[p] \in LoopLabels => Cur(p) \in todo[p] /\ todo[p] \subseteq st[p].aliases
         /\ OnTrack(p) /\ OnTrack(p)'
         /\ UNCHANGED <<file, call, fd>>
         /\ st'[p].aliases = st[p].aliases /\ PFAnchor(st'[p]) = PFAnchor(st[p])
         /\ ~PFEnable(p) => st' = st
<1>1. UNCHANGED <<file, call, fd>> /\ pc[p] \notin {"idle", "load"}
  BY DEF CommandStep, HasAlias, DeleteStaleRoute, AddAlias, UndoAlias,
         EnsureAppleRdrAnchor, SkippedAliasIfaces, DumpMainRuleset, DumpFilter, DumpNat,
         DumpDummynet, Dump, LoadMainRuleset,
         PFLoadAnchor, AnchorHoldsRules, PFStatus, PFEnable,
         UnloadAfterFailedEnable, FlushForDown, ReleasePF, DeleteAlias,
         DeleteClonedRoute
<1>2. ~PFEnable(p) => st' = st
  BY DEF CommandStep, HasAlias, DeleteStaleRoute, AddAlias, UndoAlias,
         EnsureAppleRdrAnchor, SkippedAliasIfaces, DumpMainRuleset, DumpFilter, DumpNat,
         DumpDummynet, Dump, LoadMainRuleset,
         PFLoadAnchor, AnchorHoldsRules, PFStatus,
         UnloadAfterFailedEnable, FlushForDown, ReleasePF, DeleteAlias,
         DeleteClonedRoute
<1>3. st[p] \in State /\ st \in [Proc -> State \cup {NoState}]
  BY <1>1, TypeFacts DEF NamedInv, TypeInv, TypeOK
<1>4. st'[p].aliases = st[p].aliases /\ st'[p].ports = st[p].ports
  <2>1. CASE PFEnable(p)
    <3>1. st' = st \/ \E tok \in Token \cup {NoToken} : st' = [st EXCEPT ![p].tok = tok]
      BY <2>1 DEF PFEnable, ParsePFToken
    <3> QED BY <1>3, <3>1 DEF State
  <2> QED BY <1>2, <2>1
<1>5. PFAnchor(st'[p]) = PFAnchor(st[p])
  BY <1>4 DEF PFAnchor
<1> QED BY <1>1, <1>2, <1>3, <1>4, <1>5, TypeFacts, CommandNames
        DEF NamedInv, TypeInv, TypeOK, OnTrack

(***************************************************************************)
(* `pfctl -E` leaves pf on by a reference of p's name, which is the token  *)
(* p holds if its output could be parsed; or p is not on its way to save.  *)
(***************************************************************************)
LEMMA Enables ==
  ASSUME NamedInv, NEW p \in Proc, CommandStep(p), PFEnable(p)
  PROVE  /\ pc[p] = "enable" /\ UNCHANGED <<alias, reject, undeleted, anchor, skip, main, dump>>
         /\ \/ /\ pc'[p] = "save" /\ ret'[p] = ret[p] /\ PFEnabled'
               /\ st'[p].tok # NoToken => ref'[st'[p].tok] = call[p].name
            \/ pc'[p] \in {"unload", "undo", "idle"} /\ ret'[p] = "err"
<1> USE AtCommand DEF Goto, Note
<1>1. pc[p] = "enable" /\ UNCHANGED <<alias, reject, undeleted, anchor, skip, main, dump>>
  BY DEF PFEnable
<1>2. ASSUME NEW t \in Token, ref' = [ref EXCEPT ![t] = call[p].name],
             NEW tok \in ParsePFToken(t), st' = [st EXCEPT ![p].tok = tok],
             Goto(p, "save"), UNCHANGED <<todo, ret>>
      PROVE  /\ pc'[p] = "save" /\ ret'[p] = ret[p] /\ PFEnabled'
             /\ st'[p].tok # NoToken => ref'[st'[p].tok] = call[p].name
  <2>1. ref'[t] = call[p].name /\ call[p].name # Free
    BY <1>2, HolderAssumption
  <2>2. PFEnabled'
    BY <2>1 DEF PFEnabled
  <2>3. tok \in {t, NoToken}
    BY DEF ParsePFToken
  <2>4. st'[p].tok = tok
    BY <1>2, <2>3, StateToken
  <2> QED BY <1>2, <2>1, <2>2, <2>3, <2>4
<1>3. ASSUME "pf" \in Faults,
             IF call[p].op = "up"
               THEN Note(p, "err") /\ Goto(p, "unload") /\ UNCHANGED todo
               ELSE Abort(p)
      PROVE  pc'[p] \in {"unload", "undo", "idle"} /\ ret'[p] = "err"
  BY <1>3 DEF Abort
<1> QED BY <1>1, <1>2, <1>3 DEF PFEnable

LEMMA UpCommand ==
  ASSUME NamedInv, NEW p \in Proc, CommandStep(p), call[p].op = "up", UpProgress(p)
  PROVE  UpProgress(p)'
<1> USE AtCommand DEF Goto, Loop, Note
<1>1. CASE HasAlias(p)
  BY <1>1 DEF HasAlias, OnTrack, UpLabels, UpFails
<1>2. CASE DeleteStaleRoute(p)
  <2>1. Cur(p)' = Cur(p)
    BY <1>2 DEF DeleteStaleRoute, Cur
  <2> QED BY <1>2, <2>1 DEF DeleteStaleRoute, DeleteRoute, UpProgress, Past, Visited
<1>3. CASE AddAlias(p)
  BY <1>3 DEF AddAlias, UpProgress, Past, Visited, EndPass, Abort, LoopLabels
<1>4. CASE UndoAlias(p)
  BY <1>4 DEF UndoAlias, UpProgress, Past, EndPass, OnTrack, UpFails
<1>5. CASE EnsureAppleRdrAnchor(p)
  BY <1>5 DEF EnsureAppleRdrAnchor, UpProgress, Past, Abort, HostUnchanged, hostVars, PFEnabled
<1>6. CASE PFLoadAnchor(p)
  BY <1>6 DEF PFLoadAnchor, UpProgress, Past, Abort, PFEnabled
<1>7. CASE PFEnable(p)
  BY <1>7, Enables DEF UpProgress, Past
<1>8. CASE UnloadAfterFailedEnable(p)
  BY <1>8 DEF UnloadAfterFailedEnable, UpProgress, Past, Abort
<1>9. CASE FlushForDown(p)
  BY <1>9 DEF FlushForDown, UpProgress, Past
<1>10. CASE ReleasePF(p)
  BY <1>10 DEF ReleasePF, UpProgress, Past
<1>11. CASE DeleteAlias(p)
  BY <1>11 DEF DeleteAlias, UpProgress, Past
<1>12. CASE DeleteClonedRoute(p)
  BY <1>12 DEF DeleteClonedRoute, UpProgress, Past, EndPass, OnTrack, UpFails
<1> QED
  BY <1>1, <1>2, <1>3, <1>4, <1>5, <1>6, <1>7, <1>8, <1>9, <1>10, <1>11, <1>12
     DEF CommandStep, SkippedAliasIfaces, DumpMainRuleset, DumpFilter, DumpNat,
         DumpDummynet, Dump, LoadMainRuleset,
         AnchorHoldsRules, PFStatus, OnTrack, UpLabels, UpFails

LEMMA ReassertCommand ==
  ASSUME NamedInv, NEW p \in Proc, CommandStep(p), call[p].op = "reassert",
         ReassertProgress(p)
  PROVE  ReassertProgress(p)'
<1> USE AtCommand DEF Goto, Loop, Note
<1>1. CASE HasAlias(p)
  BY <1>1 DEF HasAlias, ReassertProgress, Past, Visited, EndPass, Abort, HostUnchanged,
         hostVars, LoopLabels, AfterWildcard
<1>2. CASE DeleteStaleRoute(p)
  BY <1>2 DEF DeleteStaleRoute, ReassertProgress, Past, Visited, AfterWildcard
<1>3. CASE AddAlias(p)
  BY <1>3 DEF AddAlias, ReassertProgress, Past, Visited, EndPass, Abort, LoopLabels,
         AfterWildcard
<1>4. CASE EnsureAppleRdrAnchor(p)
  BY <1>4 DEF EnsureAppleRdrAnchor, ReassertProgress, Past, Abort, HostUnchanged, hostVars,
         AfterWildcard
<1>5. CASE SkippedAliasIfaces(p)
  BY <1>5 DEF SkippedAliasIfaces, ReassertProgress, Past, Abort, HostUnchanged, hostVars,
         IfacesOf, AfterWildcard
<1>6. CASE DumpFilter(p)
  BY <1>6 DEF DumpFilter, Dump, InSection, ReassertProgress, Past, Abort, HostUnchanged,
         hostVars, AfterWildcard
<1>7. CASE DumpNat(p)
  BY <1>7 DEF DumpNat, Dump, InSection, ReassertProgress, Past, Abort, HostUnchanged,
         hostVars, AfterWildcard
<1>8. CASE DumpDummynet(p)
  BY <1>8 DEF DumpDummynet, InSection, ReassertProgress, Past, Abort, HostUnchanged,
         hostVars, AfterWildcard
<1>9. CASE LoadMainRuleset(p)
  <2>1. Wildcard \in main => Wildcard \in InSection(main, "nat")
    BY DEF Wildcard, InSection
  <2> QED BY <1>9, <2>1 DEF LoadMainRuleset, ReassertProgress, Past, Abort, IfacesOf,
         AfterWildcard
<1>10. CASE PFLoadAnchor(p)
  BY <1>10 DEF PFLoadAnchor, ReassertProgress, Past, Abort, IfacesOf, AfterWildcard
<1>11. CASE PFStatus(p)
  BY <1>11 DEF PFStatus, ReassertProgress, Past, Abort, HostUnchanged, hostVars, IfacesOf,
         PFEnabled, AfterWildcard
<1>12. CASE PFEnable(p)
  BY <1>12, Enables DEF ReassertProgress, Past, IfacesOf, AfterWildcard
<1> QED
  BY <1>1, <1>2, <1>3, <1>4, <1>5, <1>6, <1>7, <1>8, <1>9, <1>10, <1>11, <1>12
     DEF CommandStep, DumpMainRuleset, UndoAlias, AnchorHoldsRules,
         UnloadAfterFailedEnable, FlushForDown, ReleasePF, DeleteAlias,
         DeleteClonedRoute, OnTrack, ReassertLabels

LEMMA VerifyCommand ==
  ASSUME NamedInv, NEW p \in Proc, CommandStep(p), call[p].op = "verify",
         VerifyProgress(p)
  PROVE  VerifyProgress(p)'
<1> USE AtCommand DEF Goto, Loop, Note
<1>1. CASE HasAlias(p)
  BY <1>1 DEF HasAlias, VerifyProgress, Past, Visited, EndPass, Abort, HostUnchanged,
         hostVars, LoopLabels
<1>2. CASE AnchorHoldsRules(p)
  BY <1>2 DEF AnchorHoldsRules, VerifyProgress, Past, Abort, HostUnchanged, hostVars
<1>3. CASE PFStatus(p)
  BY <1>3 DEF PFStatus, VerifyProgress, Past, Abort, HostUnchanged, hostVars, PFEnabled
<1>4. CASE SkippedAliasIfaces(p)
  BY <1>4 DEF SkippedAliasIfaces, VerifyProgress, Past, Abort, HostUnchanged, hostVars,
         IfacesOf, PFEnabled
<1> QED
  BY <1>1, <1>2, <1>3, <1>4
     DEF CommandStep, DeleteStaleRoute, AddAlias, UndoAlias, EnsureAppleRdrAnchor,
         DumpMainRuleset, DumpFilter, DumpNat,
         DumpDummynet, Dump, LoadMainRuleset, PFLoadAnchor, PFEnable,
         UnloadAfterFailedEnable, FlushForDown, ReleasePF, DeleteAlias,
         DeleteClonedRoute, OnTrack, VerifyLabels

LEMMA DownCommand ==
  ASSUME NamedInv, NEW p \in Proc, CommandStep(p), call[p].op = "down",
         DownProgress(p)
  PROVE  DownProgress(p)'
<1> USE AtCommand DEF Goto, Loop, Note
<1>1. CASE FlushForDown(p)
  BY <1>1 DEF FlushForDown, FlushAnchor, DownProgress, Past
<1>2. CASE ReleasePF(p)
  <2>1. "unload" \notin Faults => (st[p].tok # NoToken => ref'[st[p].tok] # call[p].name)
    BY <1>2, StateFields, HolderAssumption DEF ReleasePF
  <2> QED BY <1>2, <2>1 DEF ReleasePF, DownProgress, Past, Visited
<1>3. CASE DeleteAlias(p)
  <2>1. Cur(p)' = Cur(p)
    BY <1>3 DEF DeleteAlias, Cur
  <2> QED BY <1>3, <2>1 DEF DeleteAlias, RemoveAlias, DownProgress, Past, Visited, LoopLabels
<1>4. CASE DeleteClonedRoute(p)
  BY <1>4 DEF DeleteClonedRoute, DeleteRoute, DownProgress, Past, Visited, EndPass, LoopLabels
<1> QED
  BY <1>1, <1>2, <1>3, <1>4
     DEF CommandStep, HasAlias, DeleteStaleRoute, AddAlias, UndoAlias,
         EnsureAppleRdrAnchor, SkippedAliasIfaces, DumpMainRuleset, DumpFilter, DumpNat,
         DumpDummynet, Dump, LoadMainRuleset,
         PFLoadAnchor, AnchorHoldsRules, PFStatus, PFEnable, UnloadAfterFailedEnable,
         OnTrack, DownLabels

LEMMA ProgressCommand ==
  ASSUME NamedInv, NEW p \in Proc, CommandStep(p), Progress(p)
  PROVE  Progress(p)'
<1>1. call'[p] = call[p]
  BY AtCommand
<1> QED BY <1>1, UpCommand, ReassertCommand, VerifyCommand, DownCommand DEF Progress

-----------------------------------------------------------------------------
(* Progress of the steps around the commands.                              *)

LEMMA ProgressRecord ==
  ASSUME NamedInv, NEW p \in Proc, RecordStep(p), Progress(p)
  PROVE  Progress(p)'
<1>1. /\ pc \in [Proc -> Labels] /\ todo \in [Proc -> SUBSET Alias]
      /\ ret \in [Proc -> Results] /\ st \in [Proc -> State \cup {NoState}]
      /\ file \in [Name -> State \cup {NoFile, Torn}]
      /\ call[p].name \in Name /\ OnTrack(p)
      /\ call[p].op \in Ops
      /\ pc[p] \notin {"idle", "load"} => st[p] \in State
      /\ HostUnchanged /\ dump' = dump /\ call' = call
  BY TypeFacts
     DEF NamedInv, TypeInv, TypeOK, RecordStep, LoadForUp, LoadRecord, SaveTruncate,
         SaveWrite, SaveFailed, ClearState
<1>2. /\ UNCHANGED hostVars /\ PFEnabled' = PFEnabled
  BY <1>1 DEF HostUnchanged, hostVars, PFEnabled
<1> USE DEF Goto, Loop, Note, hostVars
<1>3. CASE LoadForUp(p)
  BY <1>1, <1>2, <1>3
     DEF LoadForUp, Progress, UpProgress, Past, Visited
<1>4. CASE LoadRecord(p)
  BY <1>1, <1>2, <1>4, SentinelAssumption
     DEF LoadRecord, Progress, ReassertProgress, VerifyProgress, DownProgress, Past,
         Visited, AfterWildcard
<1>5. CASE SaveTruncate(p)
  BY <1>1, <1>2, <1>5
     DEF SaveTruncate, SaveFailed, Progress, UpProgress, ReassertProgress, Past, AfterWildcard,
         OnTrack, DownLabels, VerifyLabels
<1>6. CASE SaveWrite(p)
  BY <1>1, <1>2, <1>6
     DEF SaveWrite, Written, SaveFailed, Progress, UpProgress, ReassertProgress, Past,
         AfterWildcard,
         OnTrack, DownLabels, VerifyLabels
<1>7. CASE ClearState(p)
  BY <1>1, <1>2, <1>7
     DEF ClearState, Progress, DownProgress, Past, OnTrack, UpLabels, UpFails,
         ReassertLabels, VerifyLabels
<1> QED BY <1>3, <1>4, <1>5, <1>6, <1>7 DEF RecordStep

LEMMA ProgressCall ==
  ASSUME NamedInv, NEW p \in Proc, CallStep(p)
  PROVE  Progress(p)'
<1>1. pc'[p] = "load" /\ (call'[p].op = "down" => st'[p] = NoState)
  BY CallNames
<1> QED BY <1>1 DEF Progress, UpProgress, ReassertProgress, VerifyProgress, DownProgress,
                    Past, AfterWildcard

LEMMA ProgressKill ==
  ASSUME NamedInv, NEW p \in Proc, KillStep(p), Progress(p)
  PROVE  Progress(p)'
<1>1. pc'[p] = "idle" /\ ret'[p] = "killed" /\ st'[p] = NoState
  BY DEF KillStep, Kill, Goto, Note, NamedInv, TypeInv, TypeOK
<1> QED BY <1>1, SentinelAssumption
        DEF Progress, UpProgress, ReassertProgress, VerifyProgress, DownProgress, Past,
            AfterWildcard

(***************************************************************************)
(* Whoever is calm after the step is p itself, or has its footprint        *)
(* untouched.                                                              *)
(***************************************************************************)
LEMMA ContractStep ==
  ASSUME ContractInv, [Next]_vars
  PROVE  ContractInv'
<1>1. NamedInv /\ NamedInv' /\ TypeInv /\ calm \subseteq Proc
      /\ undeleted \cap reject' \subseteq undeleted'
  BY NamedStep, RoutesKept DEF ContractInv, NamedInv, TypeInv, TypeOK
<1>2. ASSUME NEW p \in Proc, ProcStep(p), NEW entering \in SUBSET {p},
             Observe({p}, entering), p \in calm' => Progress(p)'
      PROVE  ContractInv'
  <2>1. ASSUME NEW q \in calm', q # p PROVE Progress(q)'
    <3>1. q \in calm /\ Footprint(call[q].name)' = Footprint(call[q].name)
      BY <1>2, <2>1 DEF Observe
    <3>2. q \in Proc \ {p} /\ Progress(q)
      BY <1>1, <2>1, <3>1 DEF ContractInv
    <3>3. CallKept(q)
      BY <1>1, <1>2, <3>2, OthersKept
    <3> QED BY <1>1, <3>1, <3>2, <3>3, ProgressKept
  <2> QED BY <1>1, <1>2, <2>1 DEF ContractInv
<1>3. ASSUME NEW p \in Proc, CallStep(p), Observe({p}, {p}) PROVE ContractInv'
  BY <1>1, <1>2, <1>3, ProgressCall DEF ProcStep
<1>4. ASSUME NEW p \in Proc, RecordStep(p) \/ CommandStep(p) \/ KillStep(p),
             Observe({p}, {})
      PROVE  ContractInv'
  <2>1. p \in calm' => p \in calm
    BY <1>4 DEF Observe
  <2>2. p \in calm' => Progress(p)'
    BY <1>1, <1>4, <2>1, ProgressRecord, ProgressCommand, ProgressKill DEF ContractInv
  <2> QED BY <1>2, <1>4, <2>2 DEF ProcStep
<1>5. CASE OutsideStep /\ Observe({}, {})
  <2>1. ASSUME NEW q \in calm' PROVE Progress(q)'
    <3>1. q \in calm /\ Footprint(call[q].name)' = Footprint(call[q].name)
      BY <1>5 DEF Observe
    <3>2. CallKept(q)
      BY <1>5 DEF OutsideStep, callVars, CallKept
    <3> QED BY <1>1, <3>1, <3>2, ProgressKept DEF ContractInv
  <2> QED BY <1>1, <2>1 DEF ContractInv
<1>6. CASE Reboot /\ calm' = {}
  BY <1>1, <1>6 DEF ContractInv
<1>7. CASE UNCHANGED vars
  <2>1. calm' = calm /\ \A q : CallKept(q) /\ Footprint(call[q].name)' = Footprint(call[q].name)
    BY <1>7 DEF vars, pfVars, callVars, hostVars, CallKept, Footprint, PFEnabled
  <2> QED BY <1>1, <2>1, ProgressKept DEF ContractInv
<1> QED BY <1>3, <1>4, <1>5, <1>6, <1>7 DEF Next

LEMMA ContractHolds == Spec => []ContractInv
<1>1. ContractInv /\ [Next]_vars => ContractInv'
  BY ContractStep
<1> QED BY <1>1, NamedInit, PTL DEF Spec

-----------------------------------------------------------------------------
(* The contracts.                                                          *)

(***************************************************************************)
(* A binding has an alias and a port, so its rules are never empty.        *)
(***************************************************************************)
LEMMA RulesNotEmpty ==
  ASSUME NEW s \in State
  PROVE  PFAnchor(s) # {}
<1>1. PICK a \in s.aliases, port \in s.ports : a \in Alias /\ port \in Port
  BY DEF State
<1> DEFINE r == [on |-> Loopback, to |-> a, port |-> port, target |-> "localhost"]
<1>2. r \in Rule
  BY <1>1, IfaceAssumption DEF Rule
<1>3. r \in PFAnchor(s)
  BY <1>1, <1>2 DEF PFAnchor
<1> QED BY <1>3

LEMMA Contracts ==
  ASSUME ContractInv
  PROVE  /\ UpContract /\ ReassertContract /\ VerifyContract /\ DownContract
         /\ "clear" \notin Faults => DownUnblocks
<1> SUFFICES ASSUME NEW p \in Proc, p \in calm, ~Busy(p)
             PROVE  LET s == st[p]
                        ok(op) == call[p].op = op /\ ret[p] = "ok"
                    IN
                    /\ ok("up") =>
                         /\ s.aliases \subseteq alias
                         /\ s.aliases \cap reject \subseteq undeleted
                         /\ anchor[s.name] = PFAnchor(s)
                         /\ Wildcard \in main
                         /\ PFEnabled
                         /\ s.tok # NoToken => ref[s.tok] = s.name
                         /\ file[s.name] = s
                    /\ ok("reassert") =>
                         /\ LegsHold(s)
                         /\ anchor[s.name] = PFAnchor(s)
                         /\ Wildcard \in main
                         /\ file[s.name] = s
                    /\ ok("verify") => LegsHold(s)
                    /\ ok("down") =>
                         /\ s.aliases \cap alias = {}
                         /\ s.aliases \cap reject \subseteq undeleted
                         /\ file[s.name] = NoFile
                         /\ "unload" \notin Faults =>
                              /\ anchor[s.name] = {}
                              /\ s.tok # NoToken => ref[s.tok] # s.name
                    /\ "clear" \notin Faults /\ call[p].op = "down" /\ s \in State =>
                         file[call[p].name] = NoFile
  BY DEF UpContract, ReassertContract, VerifyContract, DownContract, DownUnblocks, Returned
<1>1. Progress(p) /\ pc[p] = "idle"
  BY DEF ContractInv, Busy
<1>2. ret[p] = "ok" => st[p] \in State /\ st[p].name = call[p].name
  BY <1>1 DEF ContractInv, NamedInv, CallNamed, OnTrack
<1>3. ret[p] = "ok" => PFAnchor(st[p]) # {}
  BY <1>2, RulesNotEmpty
<1> QED BY <1>1, <1>2, <1>3
        DEF Progress, UpProgress, ReassertProgress, VerifyProgress, DownProgress, Past,
            LegsHold

(***************************************************************************)
(* An Up that returned nil has installed all there is to its binding, as   *)
(* far as nobody else touched the binding during the call: aliases without *)
(* stale routes, rules under the wildcard, a reference of its own, and a   *)
(* complete state file - whatever the other calls did in between.          *)
(***************************************************************************)
THEOREM UpDelivers == Spec => []UpContract
<1>1. ContractInv => UpContract
  BY Contracts
<1> QED BY <1>1, ContractHolds, PTL

(***************************************************************************)
(* A Reassert that returned nil has repaired every leg, even when its      *)
(* early checks were made many commands before its return.                 *)
(***************************************************************************)
THEOREM ReassertDelivers == Spec => []ReassertContract
<1>1. ContractInv => ReassertContract
  BY Contracts
<1> QED BY <1>1, ContractHolds, PTL

(***************************************************************************)
(* A Verify that returned nil read its legs one after the other, and they  *)
(* all hold when it returns.                                               *)
(***************************************************************************)
THEOREM VerifyDelivers == Spec => []VerifyContract
<1>1. ContractInv => VerifyContract
  BY Contracts
<1> QED BY <1>1, ContractHolds, PTL

(***************************************************************************)
(* A Down that returned nil has removed aliases, routes and record, and    *)
(* rules and reference as well if pfctl does not fail, whose errors        *)
(* applyDown drops.                                                        *)
(***************************************************************************)
THEOREM DownDelivers == Spec => []DownContract
<1>1. ContractInv => DownContract
  BY Contracts
<1> QED BY <1>1, ContractHolds, PTL

(***************************************************************************)
(* A Down that found a record has removed it when it ends on its own, even *)
(* if every command of the teardown failed: only the removal itself        *)
(* ("clear") is assumed to work.                                           *)
(***************************************************************************)
THEOREM DownAlwaysUnblocks ==
  ASSUME "clear" \notin Faults
  PROVE  Spec => []DownUnblocks
<1>1. ContractInv => DownUnblocks
  BY Contracts
<1> QED BY <1>1, ContractHolds, PTL

-----------------------------------------------------------------------------
(* Reassert works in place.                                                *)

(***************************************************************************)
(* What the dumps have read is loaded back, dummynet anchors excepted.     *)
(***************************************************************************)
LEMMA LoadsBack ==
  ASSUME NamedInv, NEW p \in Proc, call[p].op = "reassert", ReassertProgress(p),
         LoadMainRuleset(p)
  PROVE  main \subseteq main' \cup InSection(Stock, "dummynet")
<1>1. main \subseteq Attachments
  BY DEF NamedInv, TypeInv, TypeOK
<1>2. CASE UNCHANGED main
  BY <1>2
<1>3. CASE main' = dump[p]
  <2>1. InSection(main, "filter") \cup InSection(main, "nat") \subseteq main'
    BY <1>3 DEF LoadMainRuleset, ReassertProgress
  <2>2. ASSUME NEW a \in main PROVE a \in main' \cup InSection(Stock, "dummynet")
    BY <1>1, <2>1 DEF Attachments, Stock, Section, InSection
  <2> QED BY <2>2
<1> QED BY <1>2, <1>3 DEF LoadMainRuleset

LEMMA TakesNothingStep ==
  ASSUME ContractInv, [Next]_vars
  PROVE  [TakesNothingAway]_vars
<1> DEFINE Kept(p) == /\ alias \subseteq alias'
                      /\ anchor[call[p].name] # {} => anchor'[call[p].name] # {}
                      /\ PFEnabled => PFEnabled'
                      /\ p \in calm => main \subseteq main' \cup InSection(Stock, "dummynet")
<1> SUFFICES ASSUME NEW p \in Proc, Steps(p), Busy(p), call[p].op = "reassert"
             PROVE  Kept(p)
  BY DEF TakesNothingAway
<1>1. /\ NamedInv /\ TypeInv
      /\ pc[p] \in ReassertLabels
      /\ p \in calm => ReassertProgress(p)
  BY DEF ContractInv, NamedInv, OnTrack, Progress
<1>2. ASSUME HostUnchanged PROVE Kept(p)
  BY <1>2 DEF HostUnchanged, hostVars, PFEnabled
<1>3. ASSUME NEW q \in Proc, CallStep(q) \/ RecordStep(q) \/ KillStep(q) PROVE Kept(p)
  BY <1>2, <1>3 DEF CallStep, RecordStep, KillStep
<1>4. ASSUME CommandStep(p) PROVE Kept(p)
  <2>1. CASE AddAlias(p)
    BY <2>1 DEF AddAlias, PFEnabled
  <2>2. CASE DeleteStaleRoute(p)
    BY <2>2 DEF DeleteStaleRoute, PFEnabled
  <2>3. CASE LoadMainRuleset(p)
    BY <1>1, <2>3, LoadsBack DEF LoadMainRuleset, PFEnabled
  <2>4. CASE PFLoadAnchor(p)
    <3>1. pc[p] = "rules" /\ UNCHANGED <<alias, main, ref>>
      BY <2>4 DEF PFLoadAnchor
    <3>2. PFAnchor(st[p]) # {} /\ call[p].name \in Name
      BY <1>1, <3>1, TypeFacts, RulesNotEmpty
    <3>3. anchor[call[p].name] # {} => anchor'[call[p].name] # {}
      BY <1>1, <2>4, <3>2 DEF PFLoadAnchor, TypeInv, TypeOK
    <3> QED BY <3>1, <3>3 DEF PFEnabled
  <2>5. CASE PFEnable(p)
    <3>1. UNCHANGED <<alias, main, anchor>> /\ call[p].name \in Name
      BY <1>1, <2>5, TypeFacts DEF PFEnable
    <3>2. \/ UNCHANGED ref
          \/ \E t \in Token : ref' = [ref EXCEPT ![t] = call[p].name]
      BY <2>5 DEF PFEnable
    <3>3. PFEnabled => PFEnabled'
      BY <1>1, <3>1, <3>2, HolderAssumption DEF PFEnabled, TypeInv, TypeOK
    <3> QED BY <3>1, <3>3
  <2>6. CASE HostUnchanged
    BY <1>2, <2>6
  <2> QED
    BY <1>1, <1>4, <2>1, <2>2, <2>3, <2>4, <2>5, <2>6
       DEF CommandStep, HasAlias, UndoAlias, EnsureAppleRdrAnchor, SkippedAliasIfaces,
           DumpMainRuleset, DumpFilter, DumpNat, DumpDummynet, AnchorHoldsRules, PFStatus,
           UnloadAfterFailedEnable, FlushForDown, ReleasePF, DeleteAlias,
           DeleteClonedRoute, ReassertLabels
<1>5. ASSUME NEW q \in Proc, CommandStep(q) PROVE Kept(p)
  <2>1. OthersUnchanged(q)
    BY <1>1, <1>5, CommandTypes DEF TypedStep
  <2>2. q = p
    BY <2>1 DEF OthersUnchanged, Steps
  <2> QED BY <1>4, <1>5, <2>2
<1>6. CASE OutsideStep
  BY <1>6 DEF OutsideStep, callVars, Steps
<1>7. CASE Reboot
  BY <1>7 DEF Reboot, RebootCalls, Steps
<1>8. CASE UNCHANGED vars
  BY <1>8 DEF vars, pfVars, callVars, Steps
<1> QED BY <1>3, <1>5, <1>6, <1>7, <1>8 DEF Next

(***************************************************************************)
(* In whatever state a Reassert finds the host, and whatever else runs,    *)
(* none of its steps takes away an alias, empties the sub-anchor or        *)
(* switches pf off: it runs none of the removing commands, and the rules   *)
(* it loads are never empty.  The main ruleset, dumped section by section  *)
(* and loaded back, loses nothing but dummynet anchors as long as nobody   *)
(* else has changed the binding's footprint during the call.               *)
(***************************************************************************)
THEOREM ReassertTearsNothingDown == Spec => ReassertInPlace
<1>1. Init => ContractInv
  BY NamedInit
<1>2. ContractInv /\ [Next]_vars => ContractInv'
  BY ContractStep
<1>3. ContractInv /\ [Next]_vars => [TakesNothingAway]_vars
  BY TakesNothingStep
<1> QED BY <1>1, <1>2, <1>3, PTL DEF Spec, ReassertInPlace

=============================================================================
