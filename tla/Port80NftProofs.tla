--------------------------- MODULE Port80NftProofs ---------------------------
(***************************************************************************)
(* Theorems about Port80Nft, for any processes, names, aliases, ports,     *)
(* faults and interference: its types, and what its calls promise          *)
(* (UpContract, ReassertContract, VerifyContract, DownContract,            *)
(* DownUnblocks), and that calls kept apart are atomic                     *)
(* (ImplementsBinding).                                                    *)
(*                                                                         *)
(* As for macOS, the invariant says of a calm process which legs of its    *)
(* binding the commands up to pc[p] have established.  The table is built  *)
(* rule by rule, so that for a Reassert the invariant has to count: at     *)
(* each rule, the table holds the rules already added once and no others.  *)
(***************************************************************************)
EXTENDS Port80NftBinding, Port80BindingProofs

-----------------------------------------------------------------------------
(* Rules and chains.                                                       *)

LEMMA EmptyChainHolds ==
  EmptyChain \in Chain /\ RulesIn(EmptyChain) = {}
  BY DEF EmptyChain, Chain, RulesIn

(***************************************************************************)
(* `nft add rule` appends one rule and keeps the others.                   *)
(***************************************************************************)
LEMMA AppendHolds ==
  ASSUME NEW t \in Chain, NEW r \in Rule
  PROVE  /\ Append1(t, r) \in Chain
         /\ RulesIn(Append1(t, r)) = RulesIn(t) \cup {r}
         /\ t[r] = 0 => Append1(t, r)[r] = 1
         /\ \A x \in Rule \ {r} : Append1(t, r)[x] = t[x]
<1>1. \A x \in Rule : t[x] \in 0..2
  BY DEF Chain
<1>2. Append1(t, r) = [x \in Rule |-> IF x = r THEN (IF t[r] = 2 THEN 2 ELSE t[r] + 1)
                                              ELSE t[x]]
  BY DEF Append1, Chain
<1>3. Append1(t, r) \in Chain
  BY <1>1, <1>2 DEF Chain
<1> QED BY <1>1, <1>2, <1>3 DEF RulesIn

LEMMA StateRules ==
  ASSUME NEW s \in State
  PROVE  NftRules(s) \subseteq Rule /\ NftRules(s) # {}
<1>1. PICK a \in s.aliases, o \in s.ports : a \in Alias /\ o \in Port
  BY DEF State
<1>2. [to |-> a, port |-> o] \in NftRules(s)
  BY <1>1 DEF NftRules, Rule
<1> QED BY <1>2 DEF NftRules

LEMMA NoChains ==
  NoTable # NoChain /\ NoTable \notin Chain /\ NoChain \notin Chain
  BY TableAssumption

-----------------------------------------------------------------------------
(* Type correctness.                                                       *)

LoopLabels == {"has", "alias", "undo", "del"}

HoldsState(p) ==
  \/ pc[p] = "idle"
  \/ pc[p] = "load" /\ call[p].op # "up"
  \/ st[p] \in State

HoldsAlias(p) == pc[p] \in LoopLabels => todo[p] # {}

(***************************************************************************)
(* At "rule" there is a rule left to add.                                  *)
(***************************************************************************)
HoldsRule(p) == pc[p] = "rule" => left[p] # {}

Holds(p) == HoldsState(p) /\ HoldsAlias(p) /\ HoldsRule(p)

(***************************************************************************)
(* The inductive strengthening of TypeOK.                                  *)
(***************************************************************************)
TypeInv == TypeOK /\ \A p \in Proc : Holds(p)

LEMMA TypeInit == Init => TypeInv
<1>1. (CHOOSE n \in Name : TRUE) \in Name
  BY NameAssumption
<1> QED BY <1>1
        DEF Init, CallInit, HostInit, TypeInv, TypeOK, Labels, Ops, Results, Holds,
            HoldsState, HoldsAlias, HoldsRule, LoopLabels

LEMMA TypeFacts ==
  ASSUME TypeInv, NEW p \in Proc
  PROVE  /\ call[p].name \in Name /\ call[p].op \in Ops
         /\ call \in [Proc -> [op: Ops, name: Name]]
         /\ pc \in [Proc -> Labels] /\ todo \in [Proc -> SUBSET Alias]
         /\ ret \in [Proc -> Results] /\ st \in [Proc -> State \cup {NoState}]
         /\ left \in [Proc -> SUBSET Rule] /\ alias \subseteq Alias
         /\ file \in [Name -> State \cup {NoFile, Torn}] /\ fd \subseteq Proc
         /\ table \in [Name -> Chain \cup {NoTable, NoChain}]
         /\ pc[p] \notin {"idle", "load"} => st[p] \in State
         /\ pc[p] \in LoopLabels => Cur(p) \in todo[p] /\ Cur(p) \in Alias
         /\ pc[p] = "rule" =>
              LET r == CHOOSE x \in left[p] : TRUE IN r \in left[p] /\ r \in Rule
<1>1. TypeOK /\ Holds(p)
  BY DEF TypeInv
<1>2. pc[p] \in LoopLabels => Cur(p) \in todo[p]
  BY <1>1, CurInTodo DEF Holds, HoldsAlias
<1>3. pc[p] = "rule" => (CHOOSE x \in left[p] : TRUE) \in left[p]
  BY <1>1 DEF Holds, HoldsRule
<1> QED BY <1>1, <1>2, <1>3 DEF TypeOK, Holds, HoldsState

(***************************************************************************)
(* TypeOK without the history variable, and what a step of p leaves alone. *)
(***************************************************************************)
Types ==
  /\ file \in [Name -> State \cup {NoFile, Torn}]
  /\ pc \in [Proc -> Labels]
  /\ call \in [Proc -> [op: Ops, name: Name]]
  /\ st \in [Proc -> State \cup {NoState}]
  /\ todo \in [Proc -> SUBSET Alias]
  /\ fd \subseteq Proc
  /\ ret \in [Proc -> Results]
  /\ alias \subseteq Alias
  /\ table \in [Name -> Chain \cup {NoTable, NoChain}]
  /\ left \in [Proc -> SUBSET Rule]

(***************************************************************************)
(* The call of q is where it was; its open file is gone only if the record *)
(* has been removed.                                                       *)
(***************************************************************************)
CallKept(q) ==
  /\ pc'[q] = pc[q] /\ call'[q] = call[q] /\ st'[q] = st[q] /\ todo'[q] = todo[q]
  /\ ret'[q] = ret[q] /\ left'[q] = left[q]
  /\ q \in fd => q \in fd' \/ file'[call[q].name] = NoFile

TypedStep(p) ==
  Types' /\ Holds(p)' /\ \A q \in Proc \ {p} : CallKept(q)

LEMMA CallTypes ==
  ASSUME TypeInv, NEW p \in Proc, CallStep(p)
  PROVE  TypedStep(p)
<1>1. ASSUME NEW op \in Ops, NEW n \in Name, NEW s \in State \cup {NoState},
             op = "up" => s \in State, Begin(p, op, n, s),
             UNCHANGED <<alias, table, left>>
      PROVE  TypedStep(p)
  BY <1>1, TypeFacts
     DEF Types, Begin, Goto, Note, Loop, Labels, Results, TypedStep, Holds, HoldsState,
         HoldsAlias, HoldsRule, LoopLabels, CallKept
<1>2. ASSUME NEW o \in Options, Up(p, o) PROVE TypedStep(p)
  BY <1>1, <1>2, OptionsState, OptionsName DEF CallStep, Up, Ops
<1>3. ASSUME NEW n \in Name, Down(p, n) \/ Verify(p, n) \/ Reassert(p, n)
      PROVE  TypedStep(p)
  BY <1>1, <1>3 DEF CallStep, Down, Verify, Reassert, Ops
<1> QED BY <1>2, <1>3 DEF CallStep

LEMMA RecordTypes ==
  ASSUME TypeInv, NEW p \in Proc, RecordStep(p)
  PROVE  TypedStep(p)
<1> USE TypeFacts
    DEF TypedStep, Types, Holds, HoldsState, HoldsAlias, HoldsRule, LoopLabels, CallKept,
        Goto, Note, Loop, Labels, Results
<1>0. UNCHANGED <<alias, table, left>> /\ Holds(p)
  BY DEF RecordStep, TypeInv
<1>1. CASE LoadForUp(p)
  BY <1>0, <1>1, StateFields DEF LoadForUp
<1>2. CASE LoadRecord(p)
  <2>1. file[call[p].name] \in State => file[call[p].name].aliases \in (SUBSET Alias) \ {{}}
    BY StateFields
  <2> QED BY <1>0, <1>2, <2>1 DEF LoadRecord
<1>3. CASE SaveTruncate(p)
  BY <1>0, <1>3 DEF SaveTruncate, SaveFailed
<1>4. CASE SaveWrite(p)
  <2>1. Written(p) \subseteq State \cup {NoFile, Torn}
    BY <1>4 DEF Written, SaveWrite
  <2>2. file' \in [Name -> State \cup {NoFile, Torn}]
    BY <1>4, <2>1 DEF SaveWrite
  <2> QED BY <1>0, <1>4, <2>2 DEF SaveWrite, SaveFailed
<1>5. CASE ClearState(p)
  BY <1>0, <1>5 DEF ClearState
<1> QED BY <1>1, <1>2, <1>3, <1>4, <1>5 DEF RecordStep

(***************************************************************************)
(* How a command moves the control of p.                                   *)
(***************************************************************************)
Moved(p) ==
  /\ pc' \in [Proc -> Labels]
  /\ todo' \in [Proc -> SUBSET Alias]
  /\ ret' \in [Proc -> Results]
  /\ pc'[p] # "load" /\ HoldsAlias(p)'
  /\ \A q \in Proc \ {p} : pc'[q] = pc[q] /\ todo'[q] = todo[q] /\ ret'[q] = ret[q]

LEMMA AbortMoves ==
  ASSUME TypeInv, NEW p \in Proc, pc[p] \notin {"idle", "load"}, Abort(p)
  PROVE  Moved(p) /\ pc'[p] \in {"untable", "idle"}
<1>1. st[p].aliases \ todo[p] \in SUBSET Alias
  BY TypeFacts, StateFields
<1> QED BY <1>1, TypeFacts
        DEF Abort, Note, Loop, Goto, Moved, HoldsAlias, LoopLabels, Labels, Results

LEMMA EndPassMoves ==
  ASSUME TypeInv, NEW p \in Proc, pc[p] \in LoopLabels,
         NEW head \in LoopLabels, NEW after \in {"list", "drop", "table", "idle", "clear"},
         EndPass(p, head, after), ret' = ret \/ Note(p, "err")
  PROVE  Moved(p) /\ pc'[p] \in {head, after}
<1>1. todo[p] \ {Cur(p)} = {} => todo[p] = {Cur(p)}
  BY TypeFacts
<1> QED BY <1>1, TypeFacts
        DEF EndPass, Note, Loop, Goto, Moved, HoldsAlias, LoopLabels, Labels, Results

LEMMA GotoMoves ==
  ASSUME TypeInv, NEW p \in Proc, NEW label \in Labels \ {"load"}, Goto(p, label),
         todo' = todo, ret' = ret, label \in LoopLabels => todo[p] # {}
  PROVE  Moved(p) /\ pc'[p] = label
  BY TypeFacts DEF Goto, Moved, HoldsAlias

(***************************************************************************)
(* Most commands keep left as it is.                                       *)
(***************************************************************************)
LEMMA CommandTyped ==
  ASSUME TypeInv, NEW p \in Proc, pc[p] \notin {"idle", "load"}, Moved(p),
         UNCHANGED <<file, fd, call, st>>,
         alias' \subseteq Alias, table' \in [Name -> Chain \cup {NoTable, NoChain}],
         left' \in [Proc -> SUBSET Rule],
         \A q \in Proc \ {p} : left'[q] = left[q],
         pc'[p] = "rule" => left'[p] # {}
  PROVE  TypedStep(p)
<1>1. HoldsState(p)' /\ HoldsRule(p)'
  BY TypeFacts DEF HoldsState, HoldsRule
<1> QED BY <1>1, TypeFacts DEF Moved, TypedStep, Types, Holds, CallKept

LEMMA CommandTypes ==
  ASSUME TypeInv, NEW p \in Proc, CommandStep(p)
  PROVE  /\ TypedStep(p) /\ UNCHANGED <<file, fd, call, st>>
         /\ pc[p] \notin {"idle", "load"}
<1> USE TypeFacts DEF Labels, LoopLabels
<1>1. UNCHANGED <<file, fd, call, st>> /\ pc[p] \notin {"idle", "load"}
  BY DEF CommandStep, HasAlias, AddAlias, DropTable, AddTable, AddChain, AddRule,
         ListTable, RollbackTable, UndoAlias, DeleteTable, DeleteAlias
<1>2. Moved(p) /\ (pc'[p] = "rule" => pc[p] \in {"chain", "rule"})
  <2>1. CASE Abort(p)
    BY <1>1, <2>1, AbortMoves
  <2>2. CASE ~Abort(p)
    <3>1. CASE HasAlias(p)
      <4>1. \/ EndPass(p, "has", IF call[p].op = "verify" THEN "list" ELSE "drop") /\ ret' = ret
            \/ Goto(p, "alias") /\ todo' = todo /\ ret' = ret
        BY <2>2, <3>1 DEF HasAlias
      <4>2. pc[p] = "has"
        BY <3>1 DEF HasAlias
      <4> QED BY <4>1, <4>2, EndPassMoves, GotoMoves
    <3>2. CASE AddAlias(p)
      <4>1. \/ EndPass(p, "alias", "table") /\ ret' = ret
            \/ EndPass(p, "has", "drop") /\ ret' = ret
        BY <2>2, <3>2 DEF AddAlias
      <4>2. pc[p] = "alias"
        BY <3>2 DEF AddAlias
      <4> QED BY <4>1, <4>2, EndPassMoves
    <3>3. CASE DropTable(p)
      BY <3>3, GotoMoves DEF DropTable
    <3>4. CASE AddTable(p)
      BY <2>2, <3>4, GotoMoves DEF AddTable
    <3>5. CASE AddChain(p)
      BY <2>2, <3>5, GotoMoves DEF AddChain
    <3>6. CASE AddRule(p)
      <4>1. /\ pc[p] = "rule"
            /\ \/ Goto(p, "save") /\ todo' = todo /\ ret' = ret
               \/ Goto(p, "rule") /\ todo' = todo /\ ret' = ret
        BY <2>2, <3>6 DEF AddRule
      <4> QED BY <4>1, GotoMoves
    <3>7. CASE ListTable(p)
      BY <2>2, <3>7, GotoMoves DEF ListTable
    <3>8. CASE RollbackTable(p)
      BY <3>8, GotoMoves DEF RollbackTable
    <3>9. CASE UndoAlias(p)
      BY <3>9, EndPassMoves DEF UndoAlias
    <3>10. CASE DeleteTable(p)
      <4>1. st[p].aliases \in (SUBSET Alias) \ {{}}
        BY <1>1, StateFields
      <4> QED BY <3>10, <4>1
              DEF DeleteTable, Moved, HoldsAlias, Goto, Loop, Note, Results
    <3>11. CASE DeleteAlias(p)
      BY <3>11, EndPassMoves DEF DeleteAlias
    <3> QED BY <3>1, <3>2, <3>3, <3>4, <3>5, <3>6, <3>7, <3>8, <3>9, <3>10, <3>11
            DEF CommandStep
  <2> QED BY <2>1, <2>2
<1>3. alias' \subseteq Alias
  BY DEF CommandStep, HasAlias, AddAlias, DropTable, AddTable, AddChain, AddRule,
         ListTable, RollbackTable, UndoAlias, DeleteTable, DeleteAlias
<1>4. table' \in [Name -> Chain \cup {NoTable, NoChain}]
  <2>1. table' = table \/ \E t \in Chain \cup {NoTable, NoChain} : SetTable(p, t)
    BY EmptyChainHolds, AppendHolds
       DEF CommandStep, HasAlias, AddAlias, DropTable, AddTable, AddChain, AddRule,
           ListTable, RollbackTable, UndoAlias, DeleteTable, DeleteAlias
  <2> QED BY <2>1 DEF SetTable
<1>5. /\ left' \in [Proc -> SUBSET Rule] /\ \A q \in Proc \ {p} : left'[q] = left[q]
      /\ pc'[p] = "rule" => left'[p] # {}
  <2>1. CASE AddChain(p)
    BY <1>1, <2>1, StateRules DEF AddChain, Left, Goto, Abort
  <2>2. CASE AddRule(p)
    BY <1>1, <2>2 DEF AddRule, Left, Goto, Abort
  <2>3. CASE left' = left /\ pc[p] \notin {"chain", "rule"}
    BY <1>2, <2>3
  <2> QED BY <2>1, <2>2, <2>3
          DEF CommandStep, HasAlias, AddAlias, DropTable, AddTable, ListTable,
              RollbackTable, UndoAlias, DeleteTable, DeleteAlias
<1> QED BY <1>1, <1>2, <1>3, <1>4, <1>5, CommandTyped

LEMMA KillTypes ==
  ASSUME TypeInv, NEW p \in Proc, KillStep(p)
  PROVE  TypedStep(p)
  BY TypeFacts
     DEF KillStep, Kill, TypedStep, Types, Holds, HoldsState, HoldsAlias, HoldsRule,
         LoopLabels, CallKept, Goto, Note, Loop, Labels, Results, Left

ProcStep(p) == CallStep(p) \/ RecordStep(p) \/ CommandStep(p) \/ KillStep(p)

LEMMA ProcTypes ==
  ASSUME TypeInv, NEW p \in Proc, ProcStep(p)
  PROVE  TypedStep(p)
  BY CallTypes, RecordTypes, CommandTypes, KillTypes DEF ProcStep

LEMMA TypeStep ==
  ASSUME TypeInv, [Next]_vars
  PROVE  TypeInv'
<1>1. calm' \subseteq Proc
  BY DEF Next, Observe, TypeInv, TypeOK, vars
<1>2. ASSUME NEW p \in Proc, ProcStep(p) PROVE TypeInv'
  <2>1. TypedStep(p)
    BY <1>2, ProcTypes
  <2>2. \A q \in Proc : Holds(q)'
    BY <2>1 DEF TypedStep, CallKept, TypeInv, Holds, HoldsState, HoldsAlias, HoldsRule
  <2> QED BY <1>1, <2>1, <2>2 DEF TypedStep, Types, TypeInv, TypeOK
<1>3. CASE OutsideStep
  BY <1>1, <1>3, EmptyChainHolds
     DEF OutsideStep, OutsideFlush, OutsideAliasLoss, callVars, TypeInv, TypeOK, Holds,
         HoldsState, HoldsAlias, HoldsRule
<1>4. CASE Reboot
  BY <1>1, <1>4
     DEF Reboot, RebootCalls, TypeInv, TypeOK, Labels, Results, Holds, HoldsState,
         HoldsAlias, HoldsRule, LoopLabels
<1>5. CASE UNCHANGED vars
  BY <1>5 DEF vars, nftVars, callVars, TypeInv, TypeOK, Holds, HoldsState, HoldsAlias, HoldsRule
<1> QED BY <1>2, <1>3, <1>4, <1>5 DEF Next, ProcStep

(***************************************************************************)
(* Whatever the processes, faults and interference, every variable keeps   *)
(* its type: no command runs without the State, the alias or the rule it   *)
(* works on.                                                               *)
(***************************************************************************)
THEOREM TypeCorrect == Spec => []TypeOK
<1>1. TypeInv => TypeOK
  BY DEF TypeInv
<1> QED BY <1>1, TypeInit, TypeStep, PTL DEF Spec

-----------------------------------------------------------------------------
(* Names.  Records and calls are about the binding they are filed under.   *)

RecordNamed(n) ==
  file[n] \in State => file[n].name = n /\ file[n].aliases \subseteq AliasesOf(n)

CallNamed(p) ==
  st[p] \in State =>
    st[p].name = call[p].name /\ st[p].aliases \subseteq AliasesOf(call[p].name)

(***************************************************************************)
(* The commands each call runs.                                            *)
(***************************************************************************)
UpFails == {"untable", "undo", "teardown", "del"}

UpLabels == {"idle", "load", "alias", "table", "chain", "rule", "save", "write"} \cup UpFails

DownLabels == {"idle", "load", "teardown", "del", "clear"}

VerifyLabels == {"idle", "load", "has", "list"}

ReassertLabels ==
  {"idle", "load", "has", "alias", "drop", "table", "chain", "rule", "save", "write"}

OnTrack(p) ==
  /\ call[p].op = "up" => pc[p] \in UpLabels
  /\ call[p].op = "up" /\ pc[p] \in UpFails => ret[p] # "ok"
  /\ call[p].op = "down" => pc[p] \in DownLabels
  /\ call[p].op = "verify" => pc[p] \in VerifyLabels
  /\ call[p].op = "reassert" => pc[p] \in ReassertLabels
  /\ pc[p] = "idle" /\ ret[p] = "ok" => st[p] \in State
  /\ pc[p] \in LoopLabels \cup {"untable"} => todo[p] \subseteq st[p].aliases
  /\ pc[p] = "rule" => left[p] \subseteq NftRules(st[p])

NamedInv ==
  /\ TypeInv
  /\ \A n \in Name : RecordNamed(n)
  /\ \A p \in Proc : CallNamed(p) /\ OnTrack(p)

LEMMA NamedInit == Init => NamedInv
  BY TypeInit, SentinelAssumption
     DEF Init, CallInit, RecordNamed, CallNamed, OnTrack, VerifyLabels, NamedInv, LoopLabels

LEMMA CallNames ==
  ASSUME NamedInv, NEW p \in Proc, CallStep(p)
  PROVE  /\ CallNamed(p)' /\ OnTrack(p)' /\ UNCHANGED file
         /\ pc'[p] = "load" /\ (call'[p].op = "down" => st'[p] = NoState)
<1> USE TypeFacts DEF NamedInv, Begin, Goto, Note
<1>1. ASSUME NEW o \in Options, Up(p, o)
      PROVE  CallNamed(p)'
  BY <1>1, OptionNamed, OptionsName DEF Up, CallNamed
<1>2. ASSUME NEW n \in Name, Down(p, n) \/ Verify(p, n) \/ Reassert(p, n)
      PROVE  CallNamed(p)'
  BY <1>2, SentinelAssumption DEF Down, Verify, Reassert, CallNamed
<1>3. UNCHANGED file /\ pc'[p] = "load" /\ (call'[p].op = "down" => st'[p] = NoState)
  BY OptionsName DEF CallStep, Up, Down, Verify, Reassert
<1>4. OnTrack(p)'
  BY <1>3 DEF OnTrack, UpLabels, UpFails, DownLabels, VerifyLabels, ReassertLabels, LoopLabels
<1> QED BY <1>1, <1>2, <1>3, <1>4 DEF CallStep

LEMMA RecordNames ==
  ASSUME NamedInv, NEW p \in Proc, RecordStep(p)
  PROVE  /\ CallNamed(p)' /\ OnTrack(p)' /\ call' = call
         /\ \A n \in Name : RecordNamed(n)'
<1>1. TypeInv /\ CallNamed(p) /\ OnTrack(p)
  BY DEF NamedInv
<1>2. call' = call
  BY DEF RecordStep, LoadForUp, LoadRecord, SaveTruncate, SaveWrite, SaveFailed, ClearState
<1>3. st'[p] = st[p] \/ st'[p] = file[call[p].name]
  BY <1>1, TypeFacts
     DEF RecordStep, LoadForUp, LoadRecord, SaveTruncate, SaveWrite, SaveFailed, ClearState
<1>4. CallNamed(p)'
  BY <1>1, <1>2, <1>3, TypeFacts DEF NamedInv, RecordNamed, CallNamed
<1>5. OnTrack(p)'
  BY <1>1, <1>2, TypeFacts
     DEF RecordStep, LoadForUp, LoadRecord, SaveTruncate, SaveWrite, SaveFailed,
         ClearState, Goto, Note, Loop, OnTrack, UpLabels, UpFails, DownLabels,
         VerifyLabels, ReassertLabels, LoopLabels
<1>6. ASSUME NEW n \in Name PROVE RecordNamed(n)'
  <2>1. \/ file'[n] \in {file[n], Torn, NoFile}
        \/ n = call[p].name /\ file'[n] = st[p]
    BY <1>1, TypeFacts
       DEF RecordStep, LoadForUp, LoadRecord, SaveTruncate, SaveWrite, SaveFailed,
           ClearState, Written
  <2> QED BY <1>1, <2>1, SentinelAssumption DEF NamedInv, RecordNamed, CallNamed
<1> QED BY <1>2, <1>4, <1>5, <1>6

(***************************************************************************)
(* What every command of p can count on.                                   *)
(***************************************************************************)
LEMMA AtCommand ==
  ASSUME NamedInv, NEW p \in Proc, CommandStep(p)
  PROVE  /\ pc \in [Proc -> Labels] /\ todo \in [Proc -> SUBSET Alias]
         /\ ret \in [Proc -> Results] /\ left \in [Proc -> SUBSET Rule]
         /\ table \in [Name -> Chain \cup {NoTable, NoChain}]
         /\ pc[p] \notin {"idle", "load"} /\ st[p] \in State /\ call[p].name \in Name
         /\ pc[p] \in LoopLabels => Cur(p) \in todo[p] /\ todo[p] \subseteq st[p].aliases
         /\ CallNamed(p) /\ OnTrack(p) /\ OnTrack(p)'
         /\ UNCHANGED <<file, fd, call, st>>
<1>1. /\ UNCHANGED <<file, fd, call, st>> /\ pc[p] \notin {"idle", "load"}
      /\ TypeInv /\ CallNamed(p) /\ OnTrack(p)
  BY CommandTypes DEF NamedInv
<1>2. OnTrack(p)'
  <2> USE <1>1, TypeFacts
      DEF EndPass, Abort, Goto, Note, Loop, Left, OnTrack, UpLabels, UpFails,
          DownLabels, VerifyLabels, ReassertLabels, LoopLabels
  <2>1. CASE AddChain(p)
    BY <2>1 DEF AddChain
  <2>2. CASE AddRule(p)
    BY <2>2 DEF AddRule
  <2>3. CASE HasAlias(p) \/ AddAlias(p)
    BY <2>3 DEF HasAlias, AddAlias
  <2>4. CASE UndoAlias(p) \/ DeleteAlias(p) \/ DeleteTable(p)
    BY <2>4 DEF UndoAlias, DeleteAlias, DeleteTable
  <2>5. CASE DropTable(p) \/ AddTable(p) \/ ListTable(p) \/ RollbackTable(p)
    BY <2>5 DEF DropTable, AddTable, ListTable, RollbackTable
  <2> QED BY <2>1, <2>2, <2>3, <2>4, <2>5 DEF CommandStep
<1> QED BY <1>1, <1>2, TypeFacts DEF OnTrack

LEMMA NamedStep ==
  ASSUME NamedInv, [Next]_vars
  PROVE  NamedInv'
<1>1. TypeInv /\ TypeInv'
  BY TypeStep DEF NamedInv
<1>2. ASSUME NEW p \in Proc, ProcStep(p) PROVE NamedInv'
  <2>1. CallNamed(p)' /\ OnTrack(p)' /\ \A n \in Name : RecordNamed(n)'
    <3>1. CASE KillStep(p)
      BY <1>1, <3>1, TypeFacts, SentinelAssumption
         DEF KillStep, Kill, Goto, Note, NamedInv, RecordNamed, CallNamed, OnTrack,
             UpLabels, UpFails, DownLabels, VerifyLabels, ReassertLabels, LoopLabels
    <3> QED BY <1>2, <3>1, CallNames, RecordNames, AtCommand
            DEF ProcStep, NamedInv, RecordNamed, CallNamed
  <2>2. ASSUME NEW q \in Proc \ {p} PROVE CallNamed(q)' /\ OnTrack(q)'
    BY <1>1, <1>2, ProcTypes DEF TypedStep, CallKept, NamedInv, CallNamed, OnTrack
  <2> QED BY <1>1, <2>1, <2>2 DEF NamedInv
<1>3. CASE OutsideStep \/ UNCHANGED vars
  BY <1>1, <1>3
     DEF OutsideStep, vars, nftVars, callVars, NamedInv, RecordNamed, CallNamed, OnTrack
<1>4. CASE Reboot
  BY <1>1, <1>4, SentinelAssumption
     DEF Reboot, RebootCalls, NamedInv, RecordNamed, CallNamed, OnTrack, UpLabels,
         UpFails, DownLabels, VerifyLabels, ReassertLabels, LoopLabels
<1> QED BY <1>2, <1>3, <1>4 DEF Next, ProcStep

-----------------------------------------------------------------------------
(* Progress: what p's call has established at its current command.         *)

(***************************************************************************)
(* The call is at one of `labels`, or has returned nil.                    *)
(***************************************************************************)
Past(p, labels) == pc[p] \in labels \/ (pc[p] = "idle" /\ ret[p] = "ok")

Visited(p) == st[p].aliases \ todo[p]

UpProgress(p) ==
  LET s == st[p]
      n == call[p].name
  IN
  /\ pc[p] = "alias" => Visited(p) \subseteq alias
  /\ Past(p, {"table", "chain", "rule", "save", "write"}) => s.aliases \subseteq alias
  /\ pc[p] = "rule" => NftRules(s) \ left[p] \subseteq RulesIn(table[n])
  /\ Past(p, {"save", "write"}) => NftRules(s) \subseteq RulesIn(table[n])
  /\ pc[p] = "write" => file[n] = Torn /\ p \in fd
  /\ Past(p, {}) => file[n] = s

(***************************************************************************)
(* The chain that holds each rule of R once.                               *)
(***************************************************************************)
Exactly(R) == [r \in Rule |-> IF r \in R THEN 1 ELSE 0]

(***************************************************************************)
(* reapply starts from no table, and adds each rule to what it has built.  *)
(***************************************************************************)
Rebuilding(p) ==
  LET s == st[p]
      t == table[call[p].name]
  IN
  /\ pc[p] = "table" => t = NoTable
  /\ pc[p] = "chain" => t = NoChain
  /\ pc[p] = "rule" => t = Exactly(NftRules(s) \ left[p])
  /\ Past(p, {"save", "write"}) => t = Exactly(NftRules(s))

ReassertProgress(p) ==
  LET s == st[p]
      n == call[p].name
  IN
  /\ pc[p] \in {"has", "alias"} => Visited(p) \subseteq alias
  /\ Past(p, {"drop", "table", "chain", "rule", "save", "write"}) => s.aliases \subseteq alias
  /\ pc[p] = "rule" => NftRules(s) \ left[p] \subseteq RulesIn(table[n])
  /\ Past(p, {"save", "write"}) => NftRules(s) \subseteq RulesIn(table[n])
  /\ "unload" \notin Faults => Rebuilding(p)
  /\ pc[p] = "write" => file[n] = Torn /\ p \in fd
  /\ Past(p, {}) => file[n] = s

VerifyProgress(p) ==
  /\ pc[p] = "has" => Visited(p) \subseteq alias
  /\ Past(p, {"list"}) => st[p].aliases \subseteq alias
  /\ Past(p, {}) => RulesIn(table[call[p].name]) # {}

DownProgress(p) ==
  LET s == st[p]
      n == call[p].name
  IN
  /\ pc[p] = "load" => s = NoState
  /\ pc[p] = "del" /\ ret[p] = "ok" => Visited(p) \cap alias = {}
  /\ Past(p, {"clear"}) /\ ret[p] = "ok" => s.aliases \cap alias = {}
  /\ Past(p, {"del", "clear"}) /\ ret[p] = "ok" => table[n] = NoTable
  /\ Past(p, {}) => file[n] = NoFile
  /\ pc[p] = "idle" /\ s \in State /\ "clear" \notin Faults => file[n] = NoFile

Progress(p) ==
  /\ call[p].op = "up" => UpProgress(p)
  /\ call[p].op = "reassert" => ReassertProgress(p)
  /\ call[p].op = "verify" => VerifyProgress(p)
  /\ call[p].op = "down" => DownProgress(p)

(***************************************************************************)
(* The inductive invariant behind the contracts.                           *)
(***************************************************************************)
ContractInv == NamedInv /\ \A p \in calm : Progress(p)

-----------------------------------------------------------------------------
(* Progress under the steps of others.                                     *)

(***************************************************************************)
(* A calm process has what it had: its call is where it was, and what its  *)
(* binding stands on is unchanged.                                         *)
(***************************************************************************)
LEMMA ProgressKept ==
  ASSUME NamedInv, NEW q \in Proc, Progress(q), CallKept(q),
         Footprint(call[q].name)' = Footprint(call[q].name)
  PROVE  Progress(q)'
<1> DEFINE n == call[q].name
<1>1. /\ pc[q] \notin {"idle", "load"} => st[q] \in State
      /\ pc[q] = "idle" /\ ret[q] = "ok" => st[q] \in State
      /\ st[q] \in State => st[q].aliases \subseteq AliasesOf(n)
      /\ call[q].op \in {"up", "reassert", "verify", "down"} /\ OnTrack(q)
  BY TypeFacts DEF NamedInv, CallNamed, OnTrack, Ops
<1>2. /\ file'[n] = file[n] /\ table'[n] = table[n]
      /\ AliasesOf(n) \cap alias' = AliasesOf(n) \cap alias
  BY DEF Footprint, CallKept
<1>3. /\ pc'[q] = pc[q] /\ call'[q] = call[q] /\ st'[q] = st[q]
      /\ todo'[q] = todo[q] /\ ret'[q] = ret[q] /\ left'[q] = left[q]
      /\ file[n] = Torn /\ q \in fd => q \in fd'
  BY <1>2, SentinelAssumption DEF CallKept
<1>4. CASE call[q].op = "up"
  BY <1>1, <1>2, <1>3, <1>4 DEF Progress, UpProgress, Past, Visited
<1>5. CASE call[q].op = "reassert"
  BY <1>1, <1>2, <1>3, <1>5 DEF Progress, ReassertProgress, Rebuilding, Past, Visited
<1>6. CASE call[q].op = "verify"
  BY <1>1, <1>2, <1>3, <1>6 DEF Progress, VerifyProgress, Past, Visited
<1>7. CASE call[q].op = "down"
  BY <1>1, <1>2, <1>3, <1>7 DEF Progress, DownProgress, Past, Visited
<1> QED BY <1>1, <1>4, <1>5, <1>6, <1>7

-----------------------------------------------------------------------------
(* Progress of a command.                                                  *)

(***************************************************************************)
(* `nft add rule` adds the rule it is about to what the table holds.       *)
(***************************************************************************)
LEMMA RuleAdded ==
  ASSUME NamedInv, NEW p \in Proc, AddRule(p)
  PROVE  LET t == table[call[p].name]
             t1 == table'[call[p].name]
             all == NftRules(st[p])
         IN
         \/ pc'[p] \in {"idle", "untable"} /\ ret'[p] = "err"
         \/ /\ ret'[p] = ret[p] /\ todo' = todo
            /\ RulesIn(t) \subseteq RulesIn(t1)
            /\ all \ left'[p] \subseteq RulesIn(t1) \/ ~(all \ left[p] \subseteq RulesIn(t))
            /\ t = Exactly(all \ left[p]) => t1 = Exactly(all \ left'[p])
            /\ pc'[p] = "rule" \/ (pc'[p] = "save" /\ left'[p] = {})
<1> DEFINE r == CHOOSE x \in left[p] : TRUE
           t == table[call[p].name]
           all == NftRules(st[p])
<1>1. /\ pc[p] = "rule" /\ r \in left[p] /\ r \in Rule /\ call[p].name \in Name
      /\ left[p] \subseteq all /\ all \subseteq Rule
      /\ pc \in [Proc -> Labels] /\ ret \in [Proc -> Results]
      /\ left \in [Proc -> SUBSET Rule]
      /\ table \in [Name -> Chain \cup {NoTable, NoChain}]
  BY TypeFacts, StateRules DEF AddRule, NamedInv, OnTrack
<1>2. CASE Abort(p)
  BY <1>1, <1>2 DEF Abort, Goto, Note
<1>3. CASE ~Abort(p)
  <2>1. /\ t \in Chain /\ table'[call[p].name] = Append1(t, r)
        /\ left'[p] = left[p] \ {r} /\ UNCHANGED <<todo, ret>>
        /\ pc'[p] = "rule" \/ (pc'[p] = "save" /\ left'[p] = {})
    BY <1>1, <1>3 DEF AddRule, SetTable, Left, Goto
  <2>2. RulesIn(Append1(t, r)) = RulesIn(t) \cup {r}
    BY <1>1, <2>1, AppendHolds
  <2>3. all \ left'[p] = (all \ left[p]) \cup {r}
    BY <1>1, <2>1
  <2>4. ASSUME t = Exactly(all \ left[p])
        PROVE  Append1(t, r) = Exactly(all \ left'[p])
    <3>1. t[r] = 0
      BY <1>1, <2>4 DEF Exactly
    <3>2. /\ Append1(t, r)[r] = 1 /\ \A x \in Rule \ {r} : Append1(t, r)[x] = t[x]
          /\ Append1(t, r) \in Chain
      <4> HIDE DEF r, t
      <4> QED BY <1>1, <2>1, <3>1, AppendHolds
    <3>3. \A x \in Rule : Append1(t, r)[x] = IF x \in all \ left'[p] THEN 1 ELSE 0
      BY <1>1, <2>3, <2>4, <3>2 DEF Exactly
    <3> QED BY <3>2, <3>3 DEF Exactly, Chain
  <2> HIDE DEF r, t, all
  <2> QED BY <2>1, <2>2, <2>3, <2>4 DEF t, all
<1> QED BY <1>2, <1>3

LEMMA UpCommand ==
  ASSUME NamedInv, NEW p \in Proc, CommandStep(p), call[p].op = "up", UpProgress(p)
  PROVE  UpProgress(p)'
<1> USE AtCommand DEF Goto, Loop, Note, Abort, EndPass, SetTable, Left, UpProgress, Past
<1>1. CASE AddAlias(p)
  BY <1>1 DEF AddAlias, Visited, LoopLabels
<1>2. CASE AddTable(p)
  BY <1>2 DEF AddTable
<1>3. CASE AddChain(p)
  BY <1>3 DEF AddChain
<1>4. CASE AddRule(p)
  <2>1. alias' = alias /\ pc[p] = "rule"
    BY <1>4 DEF AddRule
  <2> QED BY <1>4, <2>1, RuleAdded
<1>5. CASE RollbackTable(p)
  BY <1>5 DEF RollbackTable, OnTrack, UpFails
<1>6. CASE UndoAlias(p)
  BY <1>6 DEF UndoAlias, OnTrack, UpFails
<1>7. CASE DeleteTable(p)
  BY <1>7 DEF DeleteTable
<1>8. CASE DeleteAlias(p)
  BY <1>8 DEF DeleteAlias, OnTrack, UpFails
<1> QED BY <1>1, <1>2, <1>3, <1>4, <1>5, <1>6, <1>7, <1>8
        DEF CommandStep, HasAlias, DropTable, ListTable, OnTrack, UpLabels, UpFails

LEMMA ReassertCommand ==
  ASSUME NamedInv, NEW p \in Proc, CommandStep(p), call[p].op = "reassert",
         ReassertProgress(p)
  PROVE  ReassertProgress(p)'
<1> USE AtCommand
    DEF Goto, Loop, Note, Abort, EndPass, SetTable, Left, ReassertProgress, Rebuilding, Past
<1>1. CASE HasAlias(p)
  BY <1>1 DEF HasAlias, Visited, LoopLabels
<1>2. CASE AddAlias(p)
  BY <1>2 DEF AddAlias, Visited, LoopLabels
<1>3. CASE DropTable(p)
  BY <1>3 DEF DropTable
<1>4. CASE AddTable(p)
  BY <1>4 DEF AddTable
<1>5. CASE AddChain(p)
  <2>1. EmptyChain = Exactly({})
    BY DEF EmptyChain, Exactly
  <2>2. CASE Abort(p)
    BY <1>5, <2>2 DEF AddChain
  <2>3. CASE ~Abort(p)
    <3>1. /\ pc[p] = "chain" /\ pc'[p] = "rule" /\ UNCHANGED <<alias, todo, ret>>
          /\ NftRules(st[p]) \ left'[p] = {}
          /\ table[call[p].name] = NoChain => table'[call[p].name] = EmptyChain
      BY <1>5, <2>3, NoChains DEF AddChain
    <3> QED BY <2>1, <3>1
  <2> QED BY <2>2, <2>3
<1>6. CASE AddRule(p)
  <2>1. alias' = alias /\ pc[p] = "rule"
    BY <1>6 DEF AddRule
  <2>2. CASE pc'[p] \in {"idle", "untable"} /\ ret'[p] = "err"
    BY <2>2
  <2>3. CASE /\ ret'[p] = ret[p] /\ todo' = todo
             /\ NftRules(st[p]) \ left'[p] \subseteq RulesIn(table'[call[p].name])
             /\ "unload" \notin Faults =>
                  table'[call[p].name] = Exactly(NftRules(st[p]) \ left'[p])
             /\ pc'[p] = "rule" \/ (pc'[p] = "save" /\ left'[p] = {})
    <3>1. left'[p] = {} => NftRules(st[p]) \ left'[p] = NftRules(st[p])
      OBVIOUS
    <3>2. NftRules(st[p])' = NftRules(st[p]) /\ RulesIn(table[call[p].name])' = RulesIn(table'[call[p].name])
      BY DEF NftRules, RulesIn
    <3>3. CASE pc'[p] = "rule"
      BY <2>1, <2>3, <3>2, <3>3
    <3>4. CASE pc'[p] = "save" /\ left'[p] = {}
      BY <2>1, <2>3, <3>1, <3>2, <3>4
    <3> QED BY <2>3, <3>3, <3>4
  <2> QED BY <1>6, <2>1, <2>2, <2>3, RuleAdded
<1> QED BY <1>1, <1>2, <1>3, <1>4, <1>5, <1>6
        DEF CommandStep, ListTable, RollbackTable, UndoAlias, DeleteTable, DeleteAlias,
            OnTrack, ReassertLabels

LEMMA VerifyCommand ==
  ASSUME NamedInv, NEW p \in Proc, CommandStep(p), call[p].op = "verify",
         VerifyProgress(p)
  PROVE  VerifyProgress(p)'
<1> USE AtCommand DEF Goto, Loop, Note, Abort, EndPass, VerifyProgress, Past
<1>1. CASE HasAlias(p)
  BY <1>1 DEF HasAlias, Visited, LoopLabels
<1>2. CASE ListTable(p)
  BY <1>2 DEF ListTable, RulesIn
<1> QED BY <1>1, <1>2
        DEF CommandStep, AddAlias, DropTable, AddTable, AddChain, AddRule, RollbackTable,
            UndoAlias, DeleteTable, DeleteAlias, OnTrack, VerifyLabels

LEMMA DownCommand ==
  ASSUME NamedInv, NEW p \in Proc, CommandStep(p), call[p].op = "down", DownProgress(p)
  PROVE  DownProgress(p)'
<1> USE AtCommand DEF Goto, Loop, Note, EndPass, SetTable, DownProgress, Past
<1>1. CASE DeleteTable(p)
  BY <1>1 DEF DeleteTable, Visited
<1>2. CASE DeleteAlias(p)
  BY <1>2 DEF DeleteAlias, Visited, LoopLabels
<1> QED BY <1>1, <1>2
        DEF CommandStep, HasAlias, AddAlias, DropTable, AddTable, AddChain, AddRule,
            ListTable, RollbackTable, UndoAlias, OnTrack, DownLabels

LEMMA ProgressCommand ==
  ASSUME NamedInv, NEW p \in Proc, CommandStep(p), Progress(p)
  PROVE  Progress(p)'
<1>1. call'[p] = call[p]
  BY AtCommand
<1> QED BY <1>1, UpCommand, ReassertCommand, VerifyCommand, DownCommand DEF Progress

-----------------------------------------------------------------------------
(* Progress of the steps around the commands.                              *)

LEMMA ProgressRecord ==
  ASSUME NamedInv, NEW p \in Proc, RecordStep(p), Progress(p)
  PROVE  Progress(p)'
<1>1. /\ pc[p] \notin {"idle", "load"} => st[p] \in State
      /\ OnTrack(p) /\ call' = call /\ UNCHANGED <<alias, table, left>>
  BY TypeFacts, RecordNames DEF NamedInv, RecordStep
<1> USE <1>1, TypeFacts DEF Goto, Loop, Note, Progress, Past, NamedInv
<1>2. CASE LoadForUp(p)
  BY <1>2 DEF LoadForUp, UpProgress, Visited
<1>3. CASE LoadRecord(p)
  BY <1>3, SentinelAssumption
     DEF LoadRecord, ReassertProgress, Rebuilding, VerifyProgress, DownProgress, Visited
<1>4. CASE SaveTruncate(p)
  BY <1>4
     DEF SaveTruncate, SaveFailed, UpProgress, ReassertProgress, Rebuilding, OnTrack,
         DownLabels, VerifyLabels
<1>5. CASE SaveWrite(p)
  BY <1>5
     DEF SaveWrite, Written, SaveFailed, UpProgress, ReassertProgress, Rebuilding,
         OnTrack, DownLabels, VerifyLabels
<1>6. CASE ClearState(p)
  BY <1>6
     DEF ClearState, DownProgress, OnTrack, UpLabels, UpFails, ReassertLabels, VerifyLabels
<1> QED BY <1>2, <1>3, <1>4, <1>5, <1>6 DEF RecordStep

LEMMA ProgressBounds ==
  ASSUME NamedInv, NEW p \in Proc
  PROVE  /\ CallStep(p) => Progress(p)'
         /\ KillStep(p) => Progress(p)'
<1>1. CallStep(p) => pc'[p] = "load" /\ (call'[p].op = "down" => st'[p] = NoState)
  BY CallNames
<1>2. KillStep(p) => pc'[p] = "idle" /\ ret'[p] = "killed" /\ st'[p] = NoState
  BY TypeFacts DEF KillStep, Kill, Goto, Note, NamedInv
<1> QED BY <1>1, <1>2, SentinelAssumption
        DEF Progress, UpProgress, ReassertProgress, Rebuilding, VerifyProgress,
            DownProgress, Past

(***************************************************************************)
(* Whoever is calm after the step is p itself, or has its footprint        *)
(* untouched.                                                              *)
(***************************************************************************)
LEMMA ContractStep ==
  ASSUME ContractInv, [Next]_vars
  PROVE  ContractInv'
<1>1. NamedInv /\ NamedInv' /\ TypeInv /\ calm \subseteq Proc
  BY NamedStep DEF ContractInv, NamedInv, TypeInv, TypeOK
<1>2. ASSUME NEW p \in Proc, ProcStep(p), NEW entering \in SUBSET {p},
             Observe({p}, entering), p \in calm' => Progress(p)'
      PROVE  ContractInv'
  <2>1. ASSUME NEW q \in calm', q # p PROVE Progress(q)'
    <3>1. q \in calm /\ Footprint(call[q].name)' = Footprint(call[q].name)
      BY <1>2, <2>1 DEF Observe
    <3>2. q \in Proc \ {p} /\ Progress(q)
      BY <1>1, <2>1, <3>1 DEF ContractInv
    <3>3. CallKept(q)
      BY <1>1, <1>2, <3>2, ProcTypes DEF TypedStep
    <3> QED BY <1>1, <3>1, <3>2, <3>3, ProgressKept
  <2> QED BY <1>1, <1>2, <2>1 DEF ContractInv
<1>3. ASSUME NEW p \in Proc, CallStep(p), Observe({p}, {p}) PROVE ContractInv'
  BY <1>1, <1>2, <1>3, ProgressBounds DEF ProcStep
<1>4. ASSUME NEW p \in Proc, RecordStep(p) \/ CommandStep(p) \/ KillStep(p),
             Observe({p}, {})
      PROVE  ContractInv'
  <2>1. p \in calm' => Progress(p)'
    <3>1. p \in calm' => p \in calm
      BY <1>4 DEF Observe
    <3> QED BY <1>1, <1>4, <3>1, ProgressRecord, ProgressCommand, ProgressBounds
            DEF ContractInv
  <2> QED BY <1>2, <1>4, <2>1 DEF ProcStep
<1>5. CASE OutsideStep /\ Observe({}, {})
  <2>1. ASSUME NEW q \in calm' PROVE Progress(q)'
    <3>1. q \in calm /\ Footprint(call[q].name)' = Footprint(call[q].name)
      BY <1>5 DEF Observe
    <3>2. CallKept(q)
      BY <1>5 DEF OutsideStep, callVars, CallKept
    <3> QED BY <1>1, <3>1, <3>2, ProgressKept DEF ContractInv
  <2> QED BY <1>1, <2>1 DEF ContractInv
<1>6. CASE Reboot /\ calm' = {}
  BY <1>1, <1>6 DEF ContractInv
<1>7. CASE UNCHANGED vars
  <2>1. calm' = calm /\ \A q : CallKept(q) /\ Footprint(call[q].name)' = Footprint(call[q].name)
    BY <1>7 DEF vars, nftVars, callVars, CallKept, Footprint
  <2> QED BY <1>1, <2>1, ProgressKept DEF ContractInv
<1> QED BY <1>3, <1>4, <1>5, <1>6, <1>7 DEF Next

LEMMA ContractHolds == Spec => []ContractInv
<1>1. Init => ContractInv
  BY NamedInit DEF ContractInv, Init
<1>2. ContractInv /\ [Next]_vars => ContractInv'
  BY ContractStep
<1> QED BY <1>1, <1>2, PTL DEF Spec

-----------------------------------------------------------------------------
(* The contracts.                                                          *)

LEMMA Contracts ==
  ASSUME ContractInv, NEW p \in Proc, p \in calm, ~Busy(p)
  PROVE  LET s == st[p]
             t == table[call[p].name]
             ok(op) == call[p].op = op /\ ret[p] = "ok"
         IN
         /\ ret[p] = "ok" => s.name = call[p].name
         /\ ok("up") \/ ok("reassert") =>
              /\ s.aliases \subseteq alias
              /\ NftRules(s) \subseteq RulesIn(t)
              /\ file[s.name] = s
         /\ ok("reassert") /\ "unload" \notin Faults => t = Exactly(NftRules(s))
         /\ ok("verify") => s.aliases \subseteq alias /\ RulesIn(t) # {}
         /\ ok("down") => t = NoTable /\ s.aliases \cap alias = {} /\ file[s.name] = NoFile
         /\ "clear" \notin Faults /\ call[p].op = "down" /\ s \in State =>
              file[call[p].name] = NoFile
<1>1. Progress(p) /\ pc[p] = "idle"
  BY DEF ContractInv, Busy
<1>2. ret[p] = "ok" => st[p].name = call[p].name
  BY <1>1 DEF ContractInv, NamedInv, CallNamed, OnTrack
<1> QED BY <1>1, <1>2
        DEF Progress, UpProgress, ReassertProgress, Rebuilding, VerifyProgress,
            DownProgress, Past

(***************************************************************************)
(* An Up that returned nil has installed its aliases and rules and has     *)
(* recorded them, as far as nobody else touched the binding during the     *)
(* call: whatever the other calls did in between.                          *)
(***************************************************************************)
THEOREM UpDelivers == Spec => []UpContract
<1>1. ContractInv => UpContract
  BY Contracts DEF UpContract, Returned
<1> QED BY <1>1, ContractHolds, PTL

(***************************************************************************)
(* A Reassert that returned nil leaves each recorded rule in the table     *)
(* exactly once, whatever was there before, if the table can be dropped.   *)
(***************************************************************************)
THEOREM ReassertDelivers == Spec => []ReassertContract
<1>1. ContractInv => ReassertContract
  BY Contracts DEF ReassertContract, Returned, Exactly
<1> QED BY <1>1, ContractHolds, PTL

(***************************************************************************)
(* A Verify that returned nil read aliases and table one after the other,  *)
(* and both are there when it returns.                                     *)
(***************************************************************************)
THEOREM VerifyDelivers == Spec => []VerifyContract
<1>1. ContractInv => VerifyContract
  BY Contracts DEF VerifyContract, Returned
<1> QED BY <1>1, ContractHolds, PTL

(***************************************************************************)
(* A Down that returned nil has removed table, aliases and record,         *)
(* whichever commands may fail.                                            *)
(***************************************************************************)
THEOREM DownDelivers == Spec => []DownContract
<1>1. ContractInv => DownContract
  BY Contracts DEF DownContract, Returned
<1> QED BY <1>1, ContractHolds, PTL

(***************************************************************************)
(* A Down that found a record has removed it when it ends on its own, even *)
(* if every command of the teardown failed.                                *)
(***************************************************************************)
THEOREM DownAlwaysUnblocks ==
  ASSUME "clear" \notin Faults
  PROVE  Spec => []DownUnblocks
<1>1. ContractInv => DownUnblocks
  BY Contracts DEF DownUnblocks
<1> QED BY <1>1, ContractHolds, PTL

-----------------------------------------------------------------------------
(* Binding.  The history knows a name at rest; during a call the machine   *)
(* is what the call has found and the commands so far have made of it.     *)

Mine(n) == AliasesOf(n) \cap alias

(***************************************************************************)
(* Until a call has changed something, and throughout a Verify, only       *)
(* others change the machine, and they install nothing.                    *)
(***************************************************************************)
HostSeen(p) ==
  LET n == CallName(p)
      h == hist[n].host
  IN
  /\ p \in calm => Host(n) = h
  /\ h = "clean" => Host(n) = "clean"

(***************************************************************************)
(* An Up that has found nothing of the binding removes what it adds.       *)
(***************************************************************************)
UpUndoes(p) ==
  LET n == CallName(p) IN
  /\ pc[p] = "alias" => table[n] = NoTable /\ Mine(n) \subseteq Visited(p)
  /\ pc[p] \in {"table", "chain", "rule"} => todo[p] = {}
  /\ pc[p] = "untable" => Mine(n) \subseteq todo[p]
  /\ pc[p] \in {"undo", "del"} => table[n] = NoTable /\ Mine(n) \subseteq todo[p]

DownUndoes(p) ==
  LET n == CallName(p) IN
  /\ pc[p] \in {"del", "clear"} => table[n] = NoTable
  /\ pc[p] = "del" => Mine(n) \subseteq todo[p]
  /\ pc[p] = "clear" => Mine(n) = {}

HostDuring(p) ==
  /\ pc[p] = "load" \/ call[p].op = "verify" => HostSeen(p)
  /\ RemovalsWork /\ call[p].op = "up" /\ hist[CallName(p)].host = "clean" => UpUndoes(p)
  /\ RemovalsWork /\ call[p].op = "down" => DownUndoes(p)

BindInv ==
  /\ ContractInv /\ Alone /\ AskedFor /\ HistTyped
  /\ \A n \in Name : ~Working(n) => SeenAtRest(n) /\ hist[n].host = Host(n)
  /\ \A p \in Proc : Busy(p) => SeenDuring(p) /\ HostDuring(p)

-----------------------------------------------------------------------------
(* What the machine looks like.                                            *)

LEMMA HostIs ==
  ASSUME NEW n \in Name
  PROVE  /\ RecordNamed(n) =>
              /\ Host(n) = "clean" <=> table[n] = NoTable /\ Mine(n) = {}
              /\ Host(n) = "inforce" <=>
                   file[n] \in State /\ file[n].aliases \subseteq alias /\ RulesIn(table[n]) # {}
              /\ Host(n) \in {"clean", "damaged", "inforce"}
         /\ RecordNamed(n)' =>
              /\ Host(n)' = "clean" <=> table'[n] = NoTable /\ Mine(n)' = {}
              /\ Host(n)' = "inforce" <=>
                   file'[n] \in State /\ file'[n].aliases \subseteq alias'
                     /\ RulesIn(table'[n]) # {}
              /\ Host(n)' \in {"clean", "damaged", "inforce"}
<1>1. RulesIn(NoTable) = {}
  BY NoChains DEF RulesIn
<1> QED BY <1>1 DEF RecordNamed, Host, LegsHold, Mine, RulesIn

LEMMA SameHost ==
  ASSUME NEW n \in Name, RecordNamed(n), file'[n] = file[n], table'[n] = table[n],
         Mine(n)' = Mine(n)
  PROVE  Host(n)' = Host(n)
<1>1. file[n] \in State => (file[n].aliases \subseteq alias <=> file[n].aliases \subseteq alias')
  BY DEF RecordNamed, Mine
<1> QED BY <1>1 DEF RecordNamed, Host, LegsHold, Mine, RulesIn

(***************************************************************************)
(* A call's record has all the aliases of its name.                        *)
(***************************************************************************)
LEMMA AllAliases ==
  ASSUME SameAliases, AskedFor, NEW p \in Proc, st[p] \in State
  PROVE  AliasesOf(CallName(p)) = st[p].aliases
<1>1. PICK o \in Options : o.name = CallName(p) /\ o.aliases = st[p].aliases
  BY DEF AskedFor, OptionsOf, Recorded
<1> QED BY <1>1 DEF SameAliases, AliasesOf

LEMMA CallTypesOf ==
  /\ TypeInv => CallTyped
  /\ TypeInv' => CallTyped'
  BY DEF TypeInv, TypeOK, CallTyped

LEMMA RecordTrackOf ==
  ASSUME NamedInv, NEW p \in Proc
  PROVE  RecordTrack(p)
  BY TypeFacts
     DEF NamedInv, OnTrack, RecordTrack, Ops, UpLabels, UpFails, DownLabels, VerifyLabels,
         ReassertLabels

LEMMA Remembered ==
  ASSUME Remember(Host), NEW n \in Name
  PROVE  /\ Working(n)' => hist'[n] = hist[n]
         /\ ~Working(n)' =>
              /\ hist'[n].rec = Recorded(file'[n])
              /\ hist'[n].host = Host(n)'
              /\ hist'[n].ret = [q \in Proc |-> IF call'[q].name = n THEN ret'[q]
                                                                  ELSE hist[n].ret[q]]
<1> DEFINE seen == [rec |-> Recorded(file'[n]), host |-> Host(n)',
                    ret |-> [q \in Proc |-> IF call'[q].name = n THEN ret'[q]
                                                              ELSE hist[n].ret[q]]]
<1>1. hist'[n] = IF Working(n)' THEN hist[n] ELSE seen
  BY DEF Remember, Recorded
<1> QED BY <1>1

-----------------------------------------------------------------------------
(* Steps of the processes.                                                 *)

(***************************************************************************)
(* How p gets into a call.                                                 *)
(***************************************************************************)
LEMMA CallEntered ==
  ASSUME NamedInv, AskedFor, NEW p \in Proc, CallStep(p)
  PROVE  /\ ~Busy(p) /\ Busy(p)' /\ pc'[p] = "load" /\ ret'[p] = "ok"
         /\ call'[p].name \in Name
         /\ Serial => \A q \in Proc : Busy(q) => call[q].name # call'[p].name
         /\ UNCHANGED <<file, fd, alias, table>>
         /\ call'[p].op = "up" => Recorded(st'[p]) \in OptionsOf(call'[p].name)
         /\ st'[p] \in State => Recorded(st'[p]) \in OptionsOf(call'[p].name)
<1> USE TypeFacts DEF NamedInv, Begin, Goto, Note, Busy
<1>1. ASSUME NEW o \in Options, Up(p, o), UNCHANGED <<alias, table, left>>
      PROVE  /\ call'[p].name = o.name /\ o.name \in Name /\ Recorded(st'[p]) = o
  BY <1>1, OptionsName, RecordedOption DEF Up
<1>2. CASE \E o \in Options : Up(p, o)
  BY <1>1, <1>2 DEF CallStep, Up, OptionsOf
<1>3. CASE \E n \in Name : Down(p, n) \/ Verify(p, n) \/ Reassert(p, n)
  BY <1>3, SentinelAssumption DEF CallStep, Down, Verify, Reassert
<1> QED BY <1>2, <1>3 DEF CallStep

(***************************************************************************)
(* How a step moves the others: not at all.                                *)
(***************************************************************************)
LEMMA OthersStay ==
  ASSUME NamedInv, NEW p \in Proc, ProcStep(p)
  PROVE  /\ \A q \in Proc \ {p} :
              /\ pc'[q] = pc[q] /\ call'[q] = call[q] /\ st'[q] = st[q]
              /\ todo'[q] = todo[q] /\ ret'[q] = ret[q]
         /\ ~CallStep(p) => Busy(p) /\ call' = call
<1>1. \A q \in Proc \ {p} : CallKept(q)
  BY ProcTypes DEF TypedStep, NamedInv
<1>2. RecordStep(p) => Busy(p) /\ call' = call
  BY RecordNames
     DEF RecordStep, LoadForUp, LoadRecord, SaveTruncate, SaveWrite, ClearState, Busy
<1>3. CommandStep(p) => Busy(p) /\ call' = call
  BY AtCommand DEF Busy
<1>4. KillStep(p) => Busy(p) /\ call' = call
  BY DEF KillStep, Kill
<1> QED BY <1>1, <1>2, <1>3, <1>4 DEF CallKept, ProcStep

LEMMA AloneStays ==
  ASSUME NamedInv, Alone, AskedFor, Serial, NEW p \in Proc, ProcStep(p)
  PROVE  Alone'
<1>1. CASE CallStep(p)
  BY <1>1, CallEntered, OthersStay DEF Alone, Busy, CallName
<1>2. CASE ~CallStep(p)
  BY <1>2, OthersStay DEF Alone, Busy, CallName
<1> QED BY <1>1, <1>2

LEMMA AskedStays ==
  ASSUME NamedInv, AskedFor, NEW p \in Proc, ProcStep(p)
  PROVE  AskedFor'
<1>1. CASE CallStep(p)
  <2>1. file' = file /\ (st'[p] \in State => Recorded(st'[p]) \in OptionsOf(CallName(p)'))
    BY <1>1, CallEntered DEF CallName
  <2>2. \A q \in Proc \ {p} : st'[q] = st[q] /\ CallName(q)' = CallName(q)
    BY <1>1, OthersStay DEF CallName, ProcStep
  <2> QED BY <2>1, <2>2 DEF AskedFor, Recorded
<1>2. CASE RecordStep(p)
  BY <1>2, CallTypesOf, AskedRecord DEF RecordStep, AccessesRecord, NamedInv
<1>3. CASE CommandStep(p)
  BY <1>3, AtCommand DEF AskedFor, CallName, Recorded
<1>4. CASE KillStep(p)
  <2>1. st' = [st EXCEPT ![p] = NoState] /\ UNCHANGED <<file, call>>
    BY <1>4 DEF KillStep, Kill
  <2> QED BY <2>1, TypeFacts, SentinelAssumption DEF AskedFor, CallName, Recorded, NamedInv
<1> QED BY <1>1, <1>2, <1>3, <1>4 DEF ProcStep

(***************************************************************************)
(* A step of p leaves alone what is there of other names, and an entry     *)
(* into a call what is there of any.                                       *)
(***************************************************************************)
LEMMA OtherNames ==
  ASSUME NamedInv, NEW p \in Proc, ProcStep(p), NEW n \in Name,
         CallStep(p) \/ n # CallName(p)
  PROVE  /\ file'[n] = file[n] /\ table'[n] = table[n] /\ Mine(n)' = Mine(n)
         /\ Host(n)' = Host(n)
<1> SUFFICES file'[n] = file[n] /\ table'[n] = table[n] /\ Mine(n)' = Mine(n)
  BY SameHost DEF NamedInv
<1>1. CASE CallStep(p)
  BY <1>1, CallNames DEF CallStep, Mine
<1>2. CASE RecordStep(p) /\ n # CallName(p)
  BY <1>2, TypeFacts
     DEF RecordStep, LoadForUp, LoadRecord, SaveTruncate, SaveWrite, SaveFailed,
         ClearState, Mine, CallName, NamedInv
<1>3. CASE CommandStep(p) /\ n # CallName(p)
  <2>1. file' = file /\ (table' = table \/ \E t : SetTable(p, t))
    BY <1>3
       DEF CommandStep, HasAlias, AddAlias, DropTable, AddTable, AddChain, AddRule,
           ListTable, RollbackTable, UndoAlias, DeleteTable, DeleteAlias
  <2>2. \/ alias' = alias
        \/ pc[p] \in LoopLabels /\ alias' \in {alias \cup {Cur(p)}, alias \ {Cur(p)}}
    BY <1>3
       DEF CommandStep, HasAlias, AddAlias, DropTable, AddTable, AddChain, AddRule,
           ListTable, RollbackTable, UndoAlias, DeleteTable, DeleteAlias, LoopLabels
  <2>3. pc[p] \in LoopLabels => Cur(p) \notin AliasesOf(n)
    BY <1>3, AtCommand, SeparateAliases DEF CallNamed, CallName
  <2> QED BY <1>3, <2>1, <2>2, <2>3, TypeFacts DEF SetTable, Mine, CallName, NamedInv
<1>4. CASE KillStep(p)
  BY <1>4 DEF KillStep, Kill, Mine
<1> QED BY <1>1, <1>2, <1>3, <1>4 DEF ProcStep

(***************************************************************************)
(* What a step of p makes of the call it is in.                            *)
(***************************************************************************)
LEMMA SeenAlong ==
  ASSUME NamedInv, AskedFor, Serial, NEW p \in Proc, ProcStep(p), Busy(p)',
         CallStep(p) => \A n \in Name : ~Working(n) => SeenAtRest(n),
         Busy(p) => SeenDuring(p), hist'[call'[p].name] = hist[call'[p].name]
  PROVE  SeenDuring(p)'
<1>1. CASE CallStep(p)
  <2>1. PICK n \in Name : n = call'[p].name
    BY <1>1, CallEntered
  <2>2. ~Working(n) /\ UNCHANGED file /\ pc'[p] = "load" /\ ret'[p] = "ok"
    BY <1>1, <2>1, CallEntered DEF Working
  <2> QED BY <1>1, <2>1, <2>2, OthersStay, SeenBegin
<1>2. CASE RecordStep(p)
  <2>1. Busy(p) /\ call' = call /\ AccessesRecord(p) /\ CallTyped /\ RecordTrack(p)
    BY <1>2, OthersStay, CallTypesOf, RecordTrackOf, RecordNames
       DEF RecordStep, AccessesRecord, LoadForUp, LoadRecord, SaveTruncate, SaveWrite,
           ClearState, Busy, NamedInv
  <2> QED BY <2>1, SeenRecord DEF CallName
<1>3. CASE CommandStep(p)
  <2>1. /\ UNCHANGED <<file, fd, call, st>> /\ st[p] \in State /\ OnTrack(p) /\ OnTrack(p)'
        /\ pc[p] # "load" /\ Busy(p) /\ call[p].op \in Ops /\ ret \in [Proc -> Results]
        /\ pc \in [Proc -> Labels]
    BY <1>3, AtCommand, TypeFacts DEF NamedInv, Busy
  <2>2. \A q \in Proc \ {p} : ret'[q] = ret[q]
    BY OthersStay
  <2> USE <2>1 DEF SeenDuring, RollBack, Goto, Note, Abort, EndPass, Busy
  <2>3. /\ pc[p] # "write" /\ pc'[p] \notin {"load", "write"}
        /\ IF call[p].op = "down" THEN ret'[p] \in {"ok", "err"}
           ELSE ret'[p] = IF pc'[p] \in RollBack THEN "err" ELSE "ok"
    <3>1. CASE HasAlias(p)
      BY <3>1 DEF HasAlias, OnTrack, DownLabels, UpLabels, UpFails
    <3>2. CASE AddAlias(p)
      BY <3>2 DEF AddAlias, OnTrack, DownLabels, VerifyLabels
    <3>3. CASE DropTable(p)
      BY <3>3 DEF DropTable, OnTrack, DownLabels
    <3>4. CASE AddTable(p)
      BY <3>4 DEF AddTable, OnTrack, DownLabels
    <3>5. CASE AddChain(p)
      BY <3>5 DEF AddChain, OnTrack, DownLabels
    <3>6. CASE AddRule(p)
      BY <3>6 DEF AddRule, OnTrack, DownLabels
    <3>7. CASE ListTable(p)
      BY <3>7 DEF ListTable, OnTrack, DownLabels, UpLabels, UpFails
    <3>8. CASE RollbackTable(p)
      BY <3>8 DEF RollbackTable
    <3>9. CASE UndoAlias(p)
      BY <3>9 DEF UndoAlias
    <3>10. CASE DeleteTable(p)
      BY <3>10 DEF DeleteTable
    <3>11. CASE DeleteAlias(p)
      BY <3>11 DEF DeleteAlias
    <3> QED BY <1>3, <3>1, <3>2, <3>3, <3>4, <3>5, <3>6, <3>7, <3>8, <3>9, <3>10, <3>11
            DEF CommandStep
  <2> QED BY <2>2, <2>3, SeenCommand DEF CallName
<1>4. CASE KillStep(p)
  BY <1>4, TypeFacts DEF KillStep, Kill, Goto, Busy, NamedInv
<1> QED BY <1>1, <1>2, <1>3, <1>4 DEF ProcStep

LEMMA CommandTargets ==
  ASSUME NamedInv, NEW p \in Proc, CommandStep(p)
  PROVE  pc[p] \notin {"load", "write"} /\ pc'[p] \notin {"load", "write"}
<1> USE AtCommand DEF Goto, Abort, EndPass
<1>1. CASE HasAlias(p) \/ AddAlias(p)
  BY <1>1 DEF HasAlias, AddAlias
<1>2. CASE DropTable(p) \/ AddTable(p) \/ AddChain(p)
  BY <1>2 DEF DropTable, AddTable, AddChain
<1>3. CASE AddRule(p)
  BY <1>3 DEF AddRule
<1>4. CASE ListTable(p) \/ RollbackTable(p) \/ UndoAlias(p)
  BY <1>4 DEF ListTable, RollbackTable, UndoAlias
<1>5. CASE DeleteTable(p) \/ DeleteAlias(p)
  BY <1>5 DEF DeleteTable, DeleteAlias
<1> QED BY <1>1, <1>2, <1>3, <1>4, <1>5 DEF CommandStep

(***************************************************************************)
(* The roll-back takes away what the commands before it have added.        *)
(***************************************************************************)
LEMMA UpUndoing ==
  ASSUME NamedInv, RemovalsWork, NEW p \in Proc, CommandStep(p), call[p].op = "up",
         Mine(CallName(p)) \subseteq st[p].aliases, UpUndoes(p)
  PROVE  UpUndoes(p)'
<1> DEFINE n == CallName(p)
<1>1. "del" \notin Faults /\ "unload" \notin Faults
  BY DEF RemovalsWork
<1>2. /\ pc \in [Proc -> Labels] /\ todo \in [Proc -> SUBSET Alias] /\ n \in Name
      /\ table \in [Name -> Chain \cup {NoTable, NoChain}] /\ UNCHANGED <<call, st>>
      /\ pc[p] \in LoopLabels => Cur(p) \in todo[p] /\ todo[p] \subseteq st[p].aliases
      /\ OnTrack(p)
  BY AtCommand DEF CallName
<1> USE <1>1, <1>2
    DEF UpUndoes, Visited, Mine, CallName, Goto, Loop, Abort, EndPass, SetTable, LoopLabels
<1>3. CASE AddAlias(p)
  BY <1>3 DEF AddAlias
<1>4. CASE AddTable(p)
  BY <1>4 DEF AddTable
<1>5. CASE AddChain(p)
  BY <1>5 DEF AddChain
<1>6. CASE AddRule(p)
  BY <1>6 DEF AddRule
<1>7. CASE RollbackTable(p)
  BY <1>7 DEF RollbackTable
<1>8. CASE UndoAlias(p)
  BY <1>8 DEF UndoAlias
<1>9. CASE DeleteTable(p)
  BY <1>9 DEF DeleteTable
<1>10. CASE DeleteAlias(p)
  BY <1>10 DEF DeleteAlias
<1> QED BY <1>3, <1>4, <1>5, <1>6, <1>7, <1>8, <1>9, <1>10
        DEF CommandStep, HasAlias, DropTable, ListTable, OnTrack, UpLabels, UpFails

LEMMA DownUndoing ==
  ASSUME NamedInv, RemovalsWork, NEW p \in Proc, CommandStep(p), call[p].op = "down",
         Mine(CallName(p)) \subseteq st[p].aliases, DownUndoes(p)
  PROVE  DownUndoes(p)'
<1> DEFINE n == CallName(p)
<1>1. "del" \notin Faults /\ "unload" \notin Faults
  BY DEF RemovalsWork
<1>2. /\ pc \in [Proc -> Labels] /\ todo \in [Proc -> SUBSET Alias] /\ n \in Name
      /\ table \in [Name -> Chain \cup {NoTable, NoChain}] /\ UNCHANGED <<call, st>>
      /\ pc[p] \in LoopLabels => Cur(p) \in todo[p] /\ todo[p] \subseteq st[p].aliases
      /\ OnTrack(p)
  BY AtCommand DEF CallName
<1> USE <1>1, <1>2
    DEF DownUndoes, Mine, CallName, Goto, Loop, EndPass, SetTable, LoopLabels
<1>3. CASE DeleteTable(p)
  BY <1>3 DEF DeleteTable
<1>4. CASE DeleteAlias(p)
  BY <1>4 DEF DeleteAlias
<1> QED BY <1>3, <1>4
        DEF CommandStep, HasAlias, AddAlias, DropTable, AddTable, AddChain, AddRule, ListTable,
            RollbackTable, UndoAlias, OnTrack, DownLabels

LEMMA HostAlong ==
  ASSUME SameAliases, ContractInv, AskedFor, Serial, NEW p \in Proc, ProcStep(p), Busy(p)',
         p \in calm' => p \in calm \/ CallStep(p),
         CallStep(p) => \A n \in Name : ~Working(n) => hist[n].host = Host(n),
         Busy(p) => HostDuring(p), hist'[call'[p].name] = hist[call'[p].name],
         \A n \in Name : RecordNamed(n)'
  PROVE  HostDuring(p)'
<1> DEFINE n == CallName(p)
           h == hist[n].host
<1>1. NamedInv /\ TypeInv
  BY DEF ContractInv, NamedInv
<1>2. CASE CallStep(p)
  <2>1. PICK m \in Name : m = call'[p].name
    BY <1>1, <1>2, CallEntered
  <2>2. ~Working(m) /\ pc'[p] = "load"
    BY <1>1, <1>2, <2>1, CallEntered DEF Working
  <2>3. hist'[m].host = Host(m)'
    BY <1>1, <1>2, <2>1, <2>2, OtherNames
  <2> QED BY <2>1, <2>2, <2>3 DEF HostDuring, HostSeen, UpUndoes, DownUndoes, CallName
<1>3. ASSUME ~CallStep(p)
      PROVE  /\ n \in Name /\ call' = call /\ hist'[n] = hist[n] /\ Busy(p)
             /\ call[p].op \in Ops /\ HostDuring(p) /\ p \in calm' => p \in calm
  BY <1>1, <1>3, OthersStay, TypeFacts DEF CallName
<1>4. ASSUME ~CallStep(p), Host(n)' = Host(n), HostSeen(p) PROVE HostSeen(p)'
  BY <1>3, <1>4 DEF HostSeen, CallName
<1>5. CASE RecordStep(p)
  <2>1. /\ ~CallStep(p) /\ UNCHANGED <<alias, table>> /\ call' = call /\ TypeInv
        /\ pc \in [Proc -> Labels] /\ todo \in [Proc -> SUBSET Alias] /\ OnTrack(p)
    BY <1>1, <1>5, TypeFacts, RecordNames DEF RecordStep, CallStep, Up, Down, Verify,
       Reassert, Begin, LoadForUp, LoadRecord, SaveTruncate, SaveWrite, ClearState, Busy, NamedInv
  <2>2. Mine(n)' = Mine(n)
    BY <2>1 DEF Mine, CallName
  <2> USE <1>3, <2>1, <2>2 DEF HostDuring, UpUndoes, DownUndoes, Goto, Loop, Note, Busy, CallName
  <2>3. CASE LoadForUp(p)
    <3>1. h = "clean" => table[n] = NoTable /\ Mine(n) = {}
      BY <1>1, <2>3, HostIs DEF HostSeen, LoadForUp, NamedInv
    <3> QED BY <2>3, <3>1 DEF LoadForUp, Visited
  <2>4. CASE LoadRecord(p)
    <3>1. Host(n)' = Host(n)
      BY <1>1, <2>4, SameHost DEF LoadRecord, NamedInv
    <3> QED BY <1>4, <2>4, <3>1 DEF LoadRecord
  <2>5. CASE SaveTruncate(p)
    BY <2>5 DEF SaveTruncate, SaveFailed, OnTrack, VerifyLabels, DownLabels
  <2>6. CASE SaveWrite(p)
    BY <2>6 DEF SaveWrite, SaveFailed, OnTrack, VerifyLabels, DownLabels
  <2>7. CASE ClearState(p)
    BY <2>7 DEF ClearState
  <2> QED BY <1>5, <2>3, <2>4, <2>5, <2>6, <2>7 DEF RecordStep
<1>6. CASE CommandStep(p)
  <2>1. /\ ~CallStep(p) /\ call' = call /\ pc[p] # "load" /\ pc'[p] # "load"
        /\ pc \in [Proc -> Labels] /\ todo \in [Proc -> SUBSET Alias] /\ OnTrack(p) /\ OnTrack(p)'
        /\ table \in [Name -> Chain \cup {NoTable, NoChain}]
        /\ Mine(n) \subseteq st[p].aliases /\ UNCHANGED <<file, st>>
        /\ pc[p] \in LoopLabels => Cur(p) \in todo[p] /\ todo[p] \subseteq st[p].aliases
    <3>1. ~CallStep(p)
      BY <1>1, <1>6, AtCommand, CallEntered DEF Busy
    <3> QED BY <1>1, <1>6, <3>1, CommandTargets, AtCommand, AllAliases, TypeFacts
            DEF Mine, CallName
  <2> USE <1>3, <2>1 DEF HostDuring, CallName
  <2>2. CASE call[p].op = "verify"
    <3>1. UNCHANGED <<alias, table>>
      BY <1>6, <2>2
         DEF OnTrack, VerifyLabels, CommandStep, HasAlias, AddAlias, DropTable, AddTable,
             AddChain, AddRule, ListTable, RollbackTable, UndoAlias, DeleteTable, DeleteAlias
    <3>2. Host(n)' = Host(n)
      BY <1>1, <3>1, SameHost DEF Mine, NamedInv
    <3> QED BY <1>4, <2>2, <3>2
  <2>3. CASE call[p].op = "up" /\ RemovalsWork /\ h = "clean"
    <3>1. UpUndoes(p)'
      BY <1>1, <1>6, <2>3, UpUndoing
    <3> QED BY <2>3, <3>1
  <2>4. CASE call[p].op = "down" /\ RemovalsWork
    <3>1. DownUndoes(p)'
      BY <1>1, <1>6, <2>4, DownUndoing
    <3> QED BY <2>4, <3>1
  <2> QED BY <2>2, <2>3, <2>4
<1>7. CASE KillStep(p)
  BY <1>1, <1>7, TypeFacts DEF KillStep, Kill, Goto, Busy
<1> QED BY <1>2, <1>5, <1>6, <1>7 DEF ProcStep

-----------------------------------------------------------------------------
(* The calls that a step is not about.                                     *)

LEMMA HostStays ==
  ASSUME NEW q \in Proc, HostDuring(q), NEW n, n = CallName(q),
         pc'[q] = pc[q], call'[q] = call[q], st'[q] = st[q], todo'[q] = todo[q],
         hist'[n] = hist[n], q \in calm' => q \in calm /\ Host(n)' = Host(n),
         Host(n) = "clean" => Host(n)' = "clean",
         table[n] = NoTable => table'[n] = NoTable, Mine(n)' \subseteq Mine(n)
  PROVE  HostDuring(q)'
<1>1. HostSeen(q) => HostSeen(q)'
  BY DEF HostSeen, CallName
<1>2. UpUndoes(q) => UpUndoes(q)'
  BY DEF UpUndoes, Visited, CallName
<1>3. DownUndoes(q) => DownUndoes(q)'
  BY DEF DownUndoes, CallName
<1> QED BY <1>1, <1>2, <1>3 DEF HostDuring, CallName

LEMMA FilesStayOpen ==
  ASSUME NamedInv, Alone, NEW p \in Proc, ProcStep(p), NEW q \in Proc \ {p}, Busy(q), q \in fd
  PROVE  q \in fd'
<1>1. CASE CallStep(p)
  BY <1>1 DEF CallStep, Up, Down, Verify, Reassert, Begin
<1>2. CASE RecordStep(p)
  BY <1>2, OthersStay
     DEF Alone, CallName, RecordStep, LoadForUp, LoadRecord, SaveTruncate, SaveWrite,
         SaveFailed, ClearState, Busy
<1>3. CASE CommandStep(p)
  BY <1>3, AtCommand
<1>4. CASE KillStep(p)
  BY <1>4 DEF KillStep, Kill
<1> QED BY <1>1, <1>2, <1>3, <1>4 DEF ProcStep

LEMMA OthersAlong ==
  ASSUME NamedInv, Alone, Alone', AskedFor, NEW p \in Proc, ProcStep(p), NEW q \in Proc \ {p},
         Busy(q)', q \in calm' => q \in calm, SeenDuring(q), HostDuring(q),
         hist'[CallName(q)] = hist[CallName(q)]
  PROVE  SeenDuring(q)' /\ HostDuring(q)'
<1>3. PICK n \in Name : n = CallName(q)
  BY TypeFacts DEF NamedInv, CallName
<1>1. /\ \A o \in Proc \ {p} :
              /\ pc'[o] = pc[o] /\ call'[o] = call[o] /\ st'[o] = st[o]
              /\ todo'[o] = todo[o] /\ ret'[o] = ret[o]
      /\ Busy(q)
  BY OthersStay DEF Busy
<1>2. CallStep(p) \/ n # CallName(p)
  BY <1>1, <1>3, OthersStay DEF Alone
<1>4. /\ file'[n] = file[n] /\ table'[n] = table[n] /\ Mine(n)' = Mine(n)
      /\ Host(n)' = Host(n)
  BY <1>2, <1>3, OtherNames
<1>5. HostDuring(q)'
  BY <1>1, <1>3, <1>4, HostStays
<1>6. call'[p].name # n
  <2>1. Busy(p)' => call'[p].name # n
    BY <1>1, <1>3 DEF Alone, CallName
  <2>2. ~Busy(p)' => call'[p].name = CallName(p) /\ ~CallStep(p)
    BY OthersStay, CallEntered DEF CallName
  <2> QED BY <1>2, <2>1, <2>2
<1>7. SeenDuring(q)'
  BY <1>1, <1>3, <1>4, <1>6, FilesStayOpen, SeenKept
<1> QED BY <1>5, <1>7

-----------------------------------------------------------------------------
(* The invariant.                                                          *)

LEMMA BindInit ==
  ASSUME Init, HistInit
  PROVE  BindInv
<1>1. ContractInv
  BY NamedInit DEF ContractInv, Init
<1>2. \A p \in Proc : ~Busy(p)
  BY DEF Init, CallInit, Busy
<1>3. ASSUME NEW n \in Name
      PROVE  Host(n) = "clean" /\ SeenAtRest(n) /\ hist[n].host = "clean" /\ file[n] = NoFile
             /\ hist[n] = [rec |-> NoFile, host |-> "clean",
                           ret |-> [p \in Proc |-> "nobinding"]]
  BY SentinelAssumption
     DEF Init, HistInit, CallInit, HostInit, Host, Recorded, SeenAtRest
<1>4. Alone /\ AskedFor
  BY <1>2, <1>3, SentinelAssumption DEF Alone, AskedFor, Init, CallInit
<1>5. HistTyped
  BY <1>3 DEF HistTyped, Results
<1> QED BY <1>1, <1>2, <1>3, <1>4, <1>5 DEF BindInv

(***************************************************************************)
(* Only p gets calm, by entering a call, and it stays calm in its own      *)
(* steps.                                                                  *)
(***************************************************************************)
Watched(p) ==
  /\ \A q \in Proc \ {p} : q \in calm' => q \in calm
  /\ p \in calm' <=> p \in calm \/ CallStep(p)

LEMMA HistTypes ==
  ASSUME HistTyped, NamedInv', AskedFor', Remember(Host)
  PROVE  HistTyped'
<1>1. ASSUME NEW n \in Name
      PROVE  /\ Host(n)' \in {"clean", "damaged", "inforce"}
             /\ Host(n)' = "inforce" => file'[n] \in State
  BY HostIs DEF NamedInv
<1>2. CallTyped'
  BY CallTypesOf DEF NamedInv
<1>3. ASSUME NEW n \in Name
      PROVE  \/ hist'[n] = hist[n]
             \/ /\ hist'[n].rec = Recorded(file'[n])
                /\ hist'[n].host \in {"clean", "damaged", "inforce"}
                /\ hist'[n].host = "inforce" => file'[n] \in State
                /\ hist'[n].ret = [q \in Proc |-> IF call'[q].name = n THEN ret'[q]
                                                                    ELSE hist[n].ret[q]]
  BY <1>1, Remembered
<1> QED BY <1>2, <1>3, HistKeepsTypes

LEMMA RestSeen ==
  ASSUME Remember(Host), NEW n \in Name, ~Working(n)'
  PROVE  SeenAtRest(n)' /\ hist'[n].host = Host(n)'
<1>1. /\ hist'[n].rec = Recorded(file'[n])
      /\ hist'[n].host = Host(n)'
      /\ hist'[n].ret = [q \in Proc |-> IF call'[q].name = n THEN ret'[q]
                                                          ELSE hist[n].ret[q]]
  BY Remembered
<1>2. \A q \in Proc : call'[q].name = n => hist'[n].ret[q] = ret'[q]
  BY <1>1
<1>3. SeenAtRest(n)'
  BY <1>1, <1>2 DEF SeenAtRest, CallName, Recorded
<1> QED BY <1>1, <1>3

LEMMA BindProc ==
  ASSUME SameAliases, Serial, BindInv, ContractInv', NEW p \in Proc, ProcStep(p),
         Watched(p), Remember(Host)
  PROVE  BindInv'
<1>1. /\ ContractInv /\ NamedInv /\ NamedInv' /\ Alone /\ AskedFor /\ HistTyped
      /\ \A n \in Name : ~Working(n) => SeenAtRest(n) /\ hist[n].host = Host(n)
      /\ \A q \in Proc : Busy(q) => SeenDuring(q) /\ HostDuring(q)
  BY DEF BindInv, ContractInv
<1>2. Alone' /\ AskedFor'
  BY <1>1, AloneStays, AskedStays
<1>3. HistTyped'
  BY <1>1, <1>2, HistTypes
<1>4. ASSUME NEW q \in Proc, Busy(q)'
      PROVE  SeenDuring(q)' /\ HostDuring(q)'
  <2>1. PICK n \in Name : n = call'[q].name
    BY <1>1, TypeFacts DEF NamedInv, TypeInv, TypeOK
  <2>2. hist'[n] = hist[n]
    BY <1>4, <2>1, Remembered DEF Working
  <2>3. CASE q = p
    <3>1. SeenDuring(p)'
      BY <1>1, <1>4, <2>1, <2>2, <2>3, SeenAlong
    <3>2. HostDuring(p)'
      BY <1>1, <1>4, <2>1, <2>2, <2>3, HostAlong DEF Watched, NamedInv
    <3> QED BY <2>3, <3>1, <3>2
  <2>4. CASE q # p
    <3>1. call'[q] = call[q] /\ Busy(q)
      BY <1>1, <1>4, <2>4, OthersStay DEF Busy
    <3>2. hist'[CallName(q)] = hist[CallName(q)]
      BY <2>1, <2>2, <3>1 DEF CallName
    <3> QED BY <1>1, <1>2, <1>4, <2>4, <3>1, <3>2, OthersAlong DEF Watched
  <2> QED BY <2>3, <2>4
<1> QED BY <1>1, <1>2, <1>3, <1>4, RestSeen DEF BindInv

LEMMA OutsideTakes ==
  ASSUME NamedInv, NamedInv', OutsideStep \/ UNCHANGED vars, NEW n \in Name
  PROVE  /\ UNCHANGED callVars
         /\ table[n] = NoTable => table'[n] = NoTable
         /\ Mine(n)' \subseteq Mine(n)
         /\ Host(n) = "clean" => Host(n)' = "clean"
         /\ Footprint(n)' = Footprint(n) => Host(n)' = Host(n)
<1>1. UNCHANGED callVars
  BY DEF OutsideStep, vars, nftVars
<1>2. table[n] = NoTable => table'[n] = NoTable
  <2>1. NoTable \notin Chain
    BY TableAssumption
  <2>2. \/ table' = table \/ table' = [m \in Name |-> NoTable]
        \/ \E m \in Name : table[m] \in Chain /\ table' = [table EXCEPT ![m] = EmptyChain]
    BY DEF OutsideStep, OutsideFlush, OutsideAliasLoss, vars, nftVars
  <2> QED BY <2>1, <2>2 DEF NamedInv, TypeInv, TypeOK
<1>3. alias' \subseteq alias
  BY DEF OutsideStep, OutsideFlush, OutsideAliasLoss, vars, nftVars
<1>4. Mine(n)' \subseteq Mine(n)
  BY <1>3 DEF Mine
<1>5. Host(n) = "clean" => Host(n)' = "clean"
  BY <1>2, <1>4, HostIs DEF NamedInv
<1>6. Footprint(n)' = Footprint(n) => Host(n)' = Host(n)
  <2>1. ASSUME Footprint(n)' = Footprint(n)
        PROVE  file'[n] = file[n] /\ table'[n] = table[n] /\ Mine(n)' = Mine(n)
    BY <2>1 DEF Footprint, Mine
  <2> QED BY <2>1, SameHost DEF NamedInv
<1> QED BY <1>1, <1>2, <1>4, <1>5, <1>6

LEMMA BindOutside ==
  ASSUME BindInv, ContractInv', OutsideStep, Observe({}, {}), Remember(Host)
  PROVE  BindInv'
<1>1. /\ ContractInv /\ NamedInv /\ NamedInv' /\ Alone /\ AskedFor /\ HistTyped
      /\ \A n \in Name : ~Working(n) => SeenAtRest(n) /\ hist[n].host = Host(n)
      /\ \A q \in Proc : Busy(q) => SeenDuring(q) /\ HostDuring(q)
  BY DEF BindInv, ContractInv
<1>2. UNCHANGED callVars
  BY DEF OutsideStep
<1>3. Alone' /\ AskedFor'
  BY <1>1, <1>2 DEF callVars, Alone, AskedFor, Busy, CallName, Recorded
<1>4. HistTyped'
  BY <1>1, <1>3, HistTypes
<1>5. ASSUME NEW q \in Proc, Busy(q)'
      PROVE  SeenDuring(q)' /\ HostDuring(q)'
  <2>1. PICK n \in Name : n = CallName(q)
    BY <1>1, TypeFacts DEF NamedInv, CallName
  <2>2. hist'[n] = hist[n] /\ Busy(q)
    BY <1>2, <1>5, <2>1, Remembered DEF Working, callVars, CallName, Busy
  <2>3. SeenDuring(q)'
    BY <1>1, <1>2, <2>1, <2>2 DEF SeenDuring, callVars, CallName, RollBack, Recorded
  <2>4. q \in calm' => q \in calm /\ Host(n)' = Host(n)
    BY <1>1, <1>2, <2>1, OutsideTakes DEF Observe, callVars, CallName
  <2>5. /\ Host(n) = "clean" => Host(n)' = "clean"
        /\ table[n] = NoTable => table'[n] = NoTable
        /\ Mine(n)' \subseteq Mine(n)
    BY <1>1, OutsideTakes
  <2>6. HostDuring(q)'
    <3>1. pc'[q] = pc[q] /\ call'[q] = call[q] /\ st'[q] = st[q] /\ todo'[q] = todo[q]
      BY <1>2 DEF callVars
    <3> QED BY <1>1, <2>1, <2>2, <2>4, <2>5, <3>1, HostStays
  <2> QED BY <2>3, <2>6
<1> QED BY <1>1, <1>3, <1>4, <1>5, RestSeen DEF BindInv

LEMMA BindReboot ==
  ASSUME BindInv, ContractInv', Reboot, Remember(Host)
  PROVE  BindInv'
<1>1. NamedInv' /\ HistTyped
  BY DEF BindInv, ContractInv
<1>2. \A p \in Proc : ~Busy(p)'
  BY DEF Reboot, RebootCalls, Busy
<1>3. Alone' /\ AskedFor'
  BY <1>2, SentinelAssumption DEF Reboot, RebootCalls, Alone, AskedFor
<1>4. HistTyped'
  BY <1>1, <1>3, HistTypes
<1> QED BY <1>2, <1>3, <1>4, RestSeen DEF BindInv

LEMMA BindStays ==
  ASSUME BindInv, ContractInv', UNCHANGED <<vars, hist>>
  PROVE  BindInv'
<1>1. /\ UNCHANGED <<file, pc, call, st, todo, fd, ret, alias, table, calm, hist>>
  BY DEF vars, nftVars, callVars
<1>2. Alone' /\ AskedFor' /\ HistTyped'
  BY <1>1 DEF BindInv, Alone, AskedFor, HistTyped, Busy, CallName, Recorded
<1>3. \A n : Working(n)' = Working(n) /\ SeenAtRest(n)' = SeenAtRest(n) /\ Host(n)' = Host(n)
  BY <1>1 DEF Working, SeenAtRest, Host, LegsHold, Busy, CallName, Recorded
<1>4. \A q : Busy(q)' = Busy(q) /\ SeenDuring(q)' = SeenDuring(q) /\ HostDuring(q)' = HostDuring(q)
  BY <1>1, <1>3 DEF SeenDuring, HostDuring, HostSeen, UpUndoes, DownUndoes, Mine, Visited,
     Busy, CallName, Recorded
<1> QED BY <1>1, <1>2, <1>3, <1>4 DEF BindInv

-----------------------------------------------------------------------------
(* Each step is a step of Binding, for every name.                         *)

StepOf(n) == UNCHANGED B(n)!bindingVars \/ B(n)!BindingNext

LEMMA StepBeside ==
  ASSUME BindInv, BindInv', NEW p \in Proc, ProcStep(p), Watched(p), Remember(Host),
         NEW n \in Name, call'[p].name # n, CallStep(p) \/ CallName(p) # n
  PROVE  StepOf(n)
<1>1. /\ NamedInv /\ Alone /\ HistTyped /\ HistTyped' /\ CallTyped /\ AskedFor
      /\ ~Working(n) => SeenAtRest(n) /\ hist[n].host = Host(n)
  BY CallTypesOf DEF BindInv, ContractInv, NamedInv
<1>2. \A q \in Proc \ {p} : /\ pc'[q] = pc[q] /\ call'[q] = call[q]
                            /\ st'[q] = st[q] /\ ret'[q] = ret[q]
                            /\ q \in calm' => q \in calm
  BY <1>1, OthersStay DEF Watched
<1>3. Busy(p) => CallName(p) # n
  BY <1>1, CallEntered
<1>4. Working(n)' <=> Working(n)
  BY <1>2, <1>3 DEF Working, Busy, CallName
<1>5. file'[n] = file[n] /\ Host(n)' = Host(n)
  BY <1>1, OtherNames
<1>6. Working(n) => hist'[n] = hist[n]
  BY <1>4, Remembered
<1>7. ~Working(n) =>
        /\ SeenAtRest(n)
        /\ hist'[n].rec = Recorded(file'[n])
        /\ hist'[n].ret = [q \in Proc |-> IF call'[q].name = n THEN ret'[q]
                                                               ELSE hist[n].ret[q]]
        /\ hist[n].host = "clean" => hist'[n].host = "clean"
  BY <1>1, <1>4, <1>5, Remembered
<1>8. PICK A \in SUBSET Proc : A = {p}
  OBVIOUS
<1>9. UNCHANGED B(n)!bindingVars \/ B(n)!Interfere
  BY <1>1, <1>2, <1>3, <1>5, <1>6, <1>7, <1>8, AsideSteps
<1> QED BY <1>9 DEF StepOf, B!BindingNext

LEMMA StepEnters ==
  ASSUME BindInv, BindInv', NEW p \in Proc, CallStep(p), Watched(p), Remember(Host),
         NEW n \in Name, call'[p].name = n
  PROVE  StepOf(n)
<1>1. NamedInv /\ NamedInv' /\ AskedFor /\ Alone' /\ CallTyped /\ CallTyped'
  BY CallTypesOf DEF BindInv, ContractInv, NamedInv
<1>2. /\ ~Busy(p) /\ Busy(p)' /\ p \in calm'
      /\ call'[p].op = "up" => Recorded(st'[p]) \in OptionsOf(n)
  BY <1>1, CallEntered DEF Watched
<1>3. hist'[n] = hist[n]
  BY <1>2, Remembered DEF Working
<1>4. \A q \in Proc \ {p} : CallOn(n, q) = [op |-> "idle"] /\ CallOn(n, q)' = [op |-> "idle"]
  BY <1>1, <1>2, OthersStay DEF Alone, CallOn, CallName, Busy, ProcStep
<1>5. B(n)!BindingNext
  BY <1>1, <1>2, <1>3, <1>4, CallBegins
<1> QED BY <1>5 DEF StepOf

LEMMA StepInside ==
  ASSUME BindInv, BindInv', NEW p \in Proc, ProcStep(p), ~CallStep(p), Busy(p)', Watched(p),
         Remember(Host), NEW n \in Name, CallName(p) = n
  PROVE  StepOf(n)
<1>1. NamedInv /\ Alone
  BY DEF BindInv, ContractInv
<1>2. /\ Busy(p) /\ call' = call /\ \A q \in Proc \ {p} : pc'[q] = pc[q]
      /\ p \in calm <=> p \in calm'
  BY <1>1, OthersStay DEF Watched
<1>3. hist'[n] = hist[n]
  BY <1>2, Remembered DEF Working, CallName
<1>4. call[p].op = "up" => st'[p] = st[p]
  <2>1. CASE RecordStep(p)
    BY <1>1, <2>1, TypeFacts DEF RecordStep, LoadForUp, LoadRecord, SaveTruncate, SaveWrite, SaveFailed,
       ClearState
  <2>2. CASE CommandStep(p)
    BY <1>1, <2>2, AtCommand
  <2>3. CASE KillStep(p)
    BY <1>1, <2>3, TypeFacts DEF KillStep, Kill, Goto, Busy, NamedInv
  <2> QED BY <2>1, <2>2, <2>3 DEF ProcStep
<1>5. UNCHANGED B(n)!bindingVars
  BY <1>1, <1>2, <1>3, <1>4, InsideCall
<1> QED BY <1>5 DEF StepOf

LEMMA CallLeft ==
  ASSUME BindInv, BindInv', NEW p \in Proc, ProcStep(p), ~CallStep(p), ~Busy(p)',
         Remember(Host), NEW n \in Name, CallName(p) = n, NEW r, r = ret'[p]
  PROVE  /\ Ends(n, p, r) /\ Busy(p) /\ call' = call
         /\ hist'[n].rec = Recorded(file'[n]) /\ hist'[n].host = Host(n)'
<1>1. NamedInv /\ Alone /\ HistTyped /\ HistTyped' /\ CallTyped /\ CallTyped'
  BY CallTypesOf DEF BindInv, ContractInv, NamedInv
<1>2. /\ Busy(p) /\ call' = call
      /\ \A q \in Proc \ {p} : pc'[q] = pc[q] /\ ret'[q] = ret[q]
  BY <1>1, OthersStay
<1>3. ~Working(n)'
  BY <1>1, <1>2 DEF Working, Alone, Busy, CallName
<1>4. SeenDuring(p)
  BY <1>2 DEF BindInv
<1>5. /\ hist'[n].rec = Recorded(file'[n]) /\ hist'[n].host = Host(n)'
      /\ hist'[n].ret = [q \in Proc |-> IF call'[q].name = n THEN ret'[q]
                                                             ELSE hist[n].ret[q]]
  BY <1>3, Remembered
<1>6. Ends(n, p, r)
  BY <1>1, <1>2, <1>4, <1>5, CallEnded
<1> QED BY <1>2, <1>5, <1>6

(***************************************************************************)
(* What the contracts say of the machine after a calm call that returned   *)
(* nil.                                                                    *)
(***************************************************************************)
LEMMA ContractHost ==
  ASSUME ContractInv', NEW p \in Proc, p \in calm', ~Busy(p)', ret'[p] = "ok",
         NEW n \in Name, call'[p].name = n
  PROVE  /\ call'[p].op = "up" => Host(n)' # "clean"
         /\ call'[p].op = "reassert" => Host(n)' = "inforce"
         /\ call'[p].op = "verify" =>
              st'[p].aliases \subseteq alias' /\ RulesIn(table'[n]) # {}
<1>1. /\ NamedInv' /\ Progress(p)' /\ pc'[p] = "idle" /\ st'[p] \in State
      /\ st'[p].aliases \subseteq AliasesOf(n)
  BY DEF ContractInv, NamedInv, OnTrack, CallNamed, Busy
<1>2. NftRules(st'[p]) # {} /\ st'[p].aliases # {}
  <2>1. PICK a \in st'[p].aliases, b \in st'[p].ports : a \in Alias /\ b \in Port
    BY <1>1 DEF State
  <2>2. [to |-> a, port |-> b] \in NftRules(st'[p])
    BY <2>1 DEF NftRules, Rule
  <2> QED BY <2>1, <2>2
<1>3. CASE call'[p].op = "up"
  <2>1. st'[p].aliases \subseteq alias'
    BY <1>1, <1>3 DEF Progress, UpProgress, Past
  <2>2. Mine(n)' # {}
    BY <1>1, <1>2, <2>1 DEF Mine
  <2> QED BY <1>1, <1>3, <2>2, HostIs DEF NamedInv
<1>4. CASE call'[p].op = "reassert"
  <2>1. /\ st'[p].aliases \subseteq alias' /\ NftRules(st'[p]) \subseteq RulesIn(table'[n])
        /\ file'[n] = st'[p]
    BY <1>1, <1>4 DEF Progress, ReassertProgress, Past, NftRules, RulesIn
  <2> QED BY <1>1, <1>2, <1>4, <2>1, HostIs DEF NamedInv
<1>5. CASE call'[p].op = "verify"
  BY <1>1, <1>5 DEF Progress, VerifyProgress, Past, RulesIn
<1> QED BY <1>3, <1>4, <1>5

LEMMA StepRecordEnds ==
  ASSUME BindInv, BindInv', NEW p \in Proc, RecordStep(p), ~Busy(p)', Watched(p),
         Remember(Host), NEW n \in Name, CallName(p) = n
  PROVE  StepOf(n)
<1>1. PICK r : r = ret'[p]
  OBVIOUS
<1>2. /\ NamedInv /\ NamedInv' /\ ContractInv' /\ CallTyped /\ AskedFor /\ ~CallStep(p)
  BY CallTypesOf, CallEntered DEF BindInv, ContractInv, NamedInv
<1>3. /\ Ends(n, p, r) /\ Busy(p) /\ call' = call
      /\ hist'[n].rec = Recorded(file'[n]) /\ hist'[n].host = Host(n)'
  BY <1>1, <1>2, CallLeft DEF ProcStep
<1>4. SeenDuring(p) /\ HostDuring(p) /\ RecordTrack(p) /\ AccessesRecord(p)
  BY <1>2, <1>3, RecordTrackOf DEF BindInv, RecordStep, AccessesRecord
<1>5. pc[p] = "load" => HostKept(n, p)
  <2>1. ASSUME pc[p] = "load" PROVE Host(n)' = Host(n)
    <3>1. file' = file /\ table' = table /\ alias' = alias
      BY <2>1 DEF RecordStep, LoadForUp, LoadRecord, SaveTruncate, SaveWrite, ClearState
    <3> QED BY <1>2, <3>1, SameHost DEF Mine, NamedInv
  <2> QED BY <1>3, <1>4, <2>1 DEF HostDuring, HostSeen, HostKept
<1>6. /\ call[p].op = "up" /\ r = "ok" /\ p \in calm => hist'[n].host # "clean"
      /\ call[p].op = "reassert" /\ r = "ok" /\ p \in calm => hist'[n].host = "inforce"
  BY <1>1, <1>2, <1>3, ContractHost DEF Watched, CallName
<1>7. pc[p] = "clear" /\ RemovalsWork => hist'[n].host = "clean"
  <2>1. ASSUME pc[p] = "clear", RemovalsWork
        PROVE  table'[n] = NoTable /\ Mine(n)' = {}
    <3>1. DownUndoes(p) /\ UNCHANGED <<table, alias>>
      BY <1>4, <2>1 DEF HostDuring, RecordTrack, RecordStep
    <3> QED BY <2>1, <3>1 DEF DownUndoes, Mine
  <2> QED BY <1>2, <1>3, <2>1, HostIs DEF NamedInv
<1>8. B(n)!BindingNext
  BY <1>1, <1>2, <1>3, <1>4, <1>5, <1>6, <1>7, RecordEnds
<1> QED BY <1>8 DEF StepOf

LEMMA StepCommandEnds ==
  ASSUME BindInv, BindInv', NEW p \in Proc, CommandStep(p), ~Busy(p)', Watched(p),
         Remember(Host), NEW n \in Name, CallName(p) = n
  PROVE  StepOf(n)
<1>1. PICK r : r = ret'[p]
  OBVIOUS
<1>2. /\ NamedInv /\ NamedInv' /\ ContractInv' /\ CallTyped /\ AskedFor /\ ~CallStep(p)
      /\ HistTyped
  BY CallTypesOf, CallEntered, AtCommand DEF BindInv, ContractInv, NamedInv, Busy
<1>3. /\ Ends(n, p, r) /\ Busy(p) /\ call' = call
      /\ hist'[n].rec = Recorded(file'[n]) /\ hist'[n].host = Host(n)'
  BY <1>1, <1>2, CallLeft DEF ProcStep
<1>4. /\ SeenDuring(p) /\ HostDuring(p) /\ pc[p] # "load" /\ UNCHANGED <<file, st>>
      /\ OnTrack(p) /\ call[p].op \in Ops /\ pc \in [Proc -> Labels] /\ ret \in [Proc -> Results]
      /\ st[p] \in State
  BY <1>2, <1>3, AtCommand, TypeFacts DEF BindInv, NamedInv
<1>5. ASSUME call[p].op = "verify"
      PROVE  Host(n)' = Host(n) /\ HostKept(n, p) /\ r \in {"ok", "err"}
  <2>1. UNCHANGED <<alias, table>>
    BY <1>4, <1>5
       DEF OnTrack, VerifyLabels, CommandStep, HasAlias, AddAlias, DropTable, AddTable,
           AddChain, AddRule, ListTable, RollbackTable, UndoAlias, DeleteTable, DeleteAlias
  <2>2. Host(n)' = Host(n)
    BY <1>2, <1>4, <2>1, SameHost DEF Mine, NamedInv
  <2>3. r \in {"ok", "err"}
    BY <1>1, <1>4, <1>5
       DEF OnTrack, VerifyLabels, CommandStep, HasAlias, AddAlias, DropTable, AddTable,
           AddChain, AddRule, ListTable, RollbackTable, UndoAlias, DeleteTable, DeleteAlias,
           SeenDuring, RollBack, Abort, Note
  <2> QED BY <1>3, <1>4, <1>5, <2>2, <2>3 DEF HostDuring, HostSeen, HostKept
<1>6. call[p].op = "verify" /\ r = "ok" /\ p \in calm => hist[n].host = "inforce"
  <2>1. ASSUME call[p].op = "verify", r = "ok", p \in calm PROVE Host(n)' = "inforce"
    <3>1. st'[p].aliases \subseteq alias' /\ RulesIn(table'[n]) # {}
      BY <1>1, <1>2, <1>3, <2>1, ContractHost DEF Watched, CallName
    <3>2. Recorded(file[n]) = Recorded(st[p])
      BY <1>4, <2>1 DEF SeenDuring
    <3>3. file[n] \in State /\ file[n].aliases = st[p].aliases
      <4>1. Recorded(st[p]) \in OptionsOf(n)
        BY <1>2, <1>4 DEF AskedFor
      <4>2. file[n] \in State
        BY <1>2, <3>2, <4>1, RecordedFile
      <4> QED BY <1>4, <3>2, <4>2 DEF Recorded
    <3> QED BY <1>2, <1>4, <3>1, <3>3, HostIs DEF NamedInv
  <2> QED BY <1>3, <1>4, <1>5, <2>1 DEF HostDuring, HostSeen
<1>7. call[p].op # "verify" => call[p].op # "down" /\ r = "err"
  <2> USE <1>1, <1>4 DEF Goto, Note, Abort, EndPass, Busy, SeenDuring, RollBack
  <2>1. CASE HasAlias(p) \/ AddAlias(p)
    BY <1>3, <2>1 DEF HasAlias, AddAlias, OnTrack, DownLabels
  <2>2. CASE DropTable(p) \/ AddTable(p) \/ AddChain(p)
    BY <1>3, <2>2 DEF DropTable, AddTable, AddChain, OnTrack, DownLabels
  <2>3. CASE AddRule(p)
    BY <1>3, <2>3 DEF AddRule, OnTrack, DownLabels
  <2>4. CASE ListTable(p)
    BY <1>3, <2>4 DEF ListTable, OnTrack, UpLabels, UpFails, DownLabels, ReassertLabels, Ops
  <2>5. CASE RollbackTable(p) \/ UndoAlias(p)
    BY <1>3, <2>5 DEF RollbackTable, UndoAlias, OnTrack, DownLabels, ReassertLabels, Ops
  <2>6. CASE DeleteTable(p) \/ DeleteAlias(p)
    BY <1>3, <2>6 DEF DeleteTable, DeleteAlias, OnTrack, ReassertLabels, Ops
  <2> QED BY <2>1, <2>2, <2>3, <2>4, <2>5, <2>6 DEF CommandStep
<1>8. call[p].op = "up" /\ RemovalsWork /\ hist[n].host = "clean" => hist'[n].host = "clean"
  <2>1. ASSUME call[p].op = "up", RemovalsWork, hist[n].host = "clean"
        PROVE  table'[n] = NoTable /\ Mine(n)' = {}
    <3>1. UpUndoes(p) /\ "del" \notin Faults /\ "unload" \notin Faults
      BY <1>4, <2>1 DEF HostDuring, RemovalsWork, CallName
    <3>2. /\ pc[p] \in LoopLabels => Cur(p) \in todo[p]
          /\ todo \in [Proc -> SUBSET Alias] /\ table \in [Name -> Chain \cup {NoTable, NoChain}]
      BY <1>2, AtCommand
    <3> USE <1>3, <1>4, <2>1, <3>1, <3>2
        DEF UpUndoes, Mine, Goto, Loop, Abort, EndPass, SetTable, LoopLabels, Busy, CallName
    <3>3. CASE RollbackTable(p)
      BY <3>3 DEF RollbackTable
    <3>4. CASE UndoAlias(p)
      BY <3>4 DEF UndoAlias
    <3>5. CASE DeleteAlias(p)
      BY <3>5 DEF DeleteAlias
    <3>6. CASE DeleteTable(p)
      BY <3>6 DEF DeleteTable
    <3>7. CASE AddAlias(p) \/ AddTable(p)
      BY <3>7 DEF AddAlias, AddTable
    <3>8. CASE AddChain(p) \/ AddRule(p)
      BY <3>8 DEF AddChain, AddRule
    <3> QED BY <3>3, <3>4, <3>5, <3>6, <3>7, <3>8
            DEF CommandStep, HasAlias, DropTable, ListTable, OnTrack, UpLabels, UpFails
  <2> QED BY <1>2, <1>3, <2>1, HostIs DEF NamedInv
<1>9. call[p].op # "down"
  BY <1>7
<1>10. B(n)!BindingNext
  BY <1>1, <1>2, <1>3, <1>4, <1>5, <1>6, <1>7, <1>8, <1>9, CommandEnds
<1> QED BY <1>10 DEF StepOf

LEMMA StepKillEnds ==
  ASSUME BindInv, BindInv', NEW p \in Proc, KillStep(p), Remember(Host), NEW n \in Name,
         CallName(p) = n
  PROVE  StepOf(n)
<1>1. /\ NamedInv /\ CallTyped /\ AskedFor /\ TypeInv
  BY CallTypesOf DEF BindInv, ContractInv, NamedInv
<1>2. /\ Busy(p) /\ ~Busy(p)' /\ ret'[p] = "killed" /\ ~CallStep(p)
      /\ UNCHANGED <<file, alias, table>>
  BY <1>1, CallEntered, TypeFacts DEF KillStep, Kill, Goto, Note, Busy, CallTyped
<1>3. PICK r : r = "killed"
  OBVIOUS
<1>4. /\ Ends(n, p, r) /\ hist'[n].rec = Recorded(file[n]) /\ hist'[n].host = Host(n)'
  BY <1>2, <1>3, CallLeft DEF ProcStep, Recorded
<1>5. SeenDuring(p) /\ HostDuring(p)
  BY <1>2 DEF BindInv
<1>6. pc[p] = "load" \/ call[p].op = "verify" => HostKept(n, p)
  <2>1. Host(n)' = Host(n)
    BY <1>1, <1>2, SameHost DEF Mine, NamedInv
  <2> QED BY <1>4, <1>5, <2>1 DEF HostDuring, HostSeen, HostKept
<1>7. B(n)!BindingNext
  BY <1>1, <1>3, <1>4, <1>5, <1>6, KilledEnds
<1> QED BY <1>7 DEF StepOf

LEMMA StepOutside ==
  ASSUME BindInv, BindInv', OutsideStep, Observe({}, {}), Remember(Host), NEW n \in Name
  PROVE  StepOf(n)
<1>1. /\ NamedInv /\ NamedInv' /\ Alone /\ HistTyped /\ HistTyped' /\ CallTyped
      /\ ~Working(n) => SeenAtRest(n) /\ hist[n].host = Host(n)
      /\ UNCHANGED callVars
  BY CallTypesOf DEF BindInv, ContractInv, NamedInv, OutsideStep
<1>2. \A q \in Proc : /\ pc'[q] = pc[q] /\ call'[q] = call[q]
                      /\ st'[q] = st[q] /\ ret'[q] = ret[q]
                      /\ q \in calm' => q \in calm
  BY <1>1 DEF callVars, Observe
<1>3. file'[n] = file[n] /\ (Working(n)' <=> Working(n))
  BY <1>1 DEF callVars, Working, Busy
<1>4. Working(n) => hist'[n] = hist[n]
  BY <1>3, Remembered
<1>5. ~Working(n) =>
        /\ SeenAtRest(n)
        /\ hist'[n].rec = Recorded(file'[n])
        /\ hist'[n].ret = [q \in Proc |-> IF call'[q].name = n THEN ret'[q]
                                                               ELSE hist[n].ret[q]]
        /\ hist[n].host = "clean" => hist'[n].host = "clean"
  BY <1>1, <1>3, Remembered, OutsideTakes
<1>6. PICK A \in SUBSET Proc : A = {}
  OBVIOUS
<1>7. UNCHANGED B(n)!bindingVars \/ B(n)!Interfere
  BY <1>1, <1>2, <1>3, <1>4, <1>5, <1>6, AsideSteps
<1> QED BY <1>7 DEF StepOf, B!BindingNext

LEMMA StepReboot ==
  ASSUME BindInv, BindInv', Reboot, Remember(Host), NEW n \in Name
  PROVE  StepOf(n)
<1>1. ~Working(n)' /\ file'[n] = NoFile /\ table'[n] = NoTable /\ Mine(n)' = {}
  BY DEF Reboot, RebootCalls, Working, Busy, Mine
<1>2. Host(n)' = "clean"
  BY <1>1, HostIs DEF BindInv, ContractInv, NamedInv
<1>3. /\ hist'[n].rec = NoFile /\ hist'[n].host = "clean"
      /\ hist'[n].ret = [q \in Proc |-> IF call'[q].name = n THEN ret'[q]
                                                             ELSE hist[n].ret[q]]
  BY <1>1, <1>2, Remembered, SentinelAssumption DEF Recorded
<1>4. HistTyped /\ RebootCalls
  BY DEF BindInv, Reboot
<1>5. B(n)!BindingNext
  BY <1>3, <1>4, RebootSteps
<1> QED BY <1>5 DEF StepOf

(***************************************************************************)
(* Every step of one of the processes.                                     *)
(***************************************************************************)
LEMMA StepProc ==
  ASSUME BindInv, BindInv', NEW p \in Proc, ProcStep(p), Watched(p), Remember(Host),
         NEW n \in Name
  PROVE  StepOf(n)
<1>1. NamedInv /\ AskedFor
  BY DEF BindInv, ContractInv
<1>2. CASE CallStep(p)
  <2>1. CASE call'[p].name = n
    BY <1>2, <2>1, StepEnters
  <2>2. CASE call'[p].name # n
    BY <1>2, <2>2, StepBeside
  <2> QED BY <2>1, <2>2
<1>3. CASE ~CallStep(p)
  <2>1. call' = call
    BY <1>1, <1>3, OthersStay
  <2>2. CASE CallName(p) # n
    BY <2>1, <2>2, StepBeside DEF CallName
  <2>3. CASE CallName(p) = n /\ Busy(p)'
    BY <1>3, <2>3, StepInside
  <2>4. CASE CallName(p) = n /\ ~Busy(p)'
    BY <1>3, <2>4, StepRecordEnds, StepCommandEnds, StepKillEnds DEF ProcStep
  <2> QED BY <2>2, <2>3, <2>4
<1> QED BY <1>2, <1>3

LEMMA ProcWatched ==
  ASSUME BindInv, NEW p \in Proc,
         \/ CallStep(p) /\ Observe({p}, {p})
         \/ (RecordStep(p) \/ CommandStep(p) \/ KillStep(p)) /\ Observe({p}, {})
  PROVE  ProcStep(p) /\ Watched(p)
<1>1. NamedInv /\ AskedFor
  BY DEF BindInv, ContractInv
<1>2. CASE CallStep(p) /\ Observe({p}, {p})
  BY <1>2 DEF ProcStep, Watched, Observe
<1>3. CASE (RecordStep(p) \/ CommandStep(p) \/ KillStep(p)) /\ Observe({p}, {})
  <2>1. ~CallStep(p)
    <3>1. Busy(p)
      BY <1>1, <1>3, RecordNames, AtCommand
         DEF RecordStep, LoadForUp, LoadRecord, SaveTruncate, SaveWrite, ClearState,
             KillStep, Kill, Busy
    <3> QED BY <1>1, <3>1, CallEntered
  <2> QED BY <1>3, <2>1 DEF ProcStep, Watched, Observe
<1> QED BY <1>2, <1>3

LEMMA BindStep ==
  ASSUME SameAliases, Serial, BindInv, [Next /\ Remember(Host)]_<<vars, hist>>
  PROVE  /\ BindInv'
         /\ [\A n \in Name : StepOf(n)]_<<callVars, calm, hist>>
<1>1. ContractInv'
  <2>1. ContractInv /\ [Next]_vars
    BY DEF BindInv
  <2> QED BY <2>1, ContractStep
<1>2. CASE UNCHANGED <<vars, hist>>
  <2>1. UNCHANGED <<callVars, calm, hist>>
    BY <1>2 DEF vars, nftVars
  <2> QED BY <1>1, <1>2, <2>1, BindStays
<1>3. ASSUME NEW p \in Proc, Remember(Host),
             \/ CallStep(p) /\ Observe({p}, {p})
             \/ (RecordStep(p) \/ CommandStep(p) \/ KillStep(p)) /\ Observe({p}, {})
      PROVE  BindInv' /\ \A n \in Name : StepOf(n)
  <2>1. ProcStep(p) /\ Watched(p)
    BY <1>3, ProcWatched
  <2>2. BindInv'
    BY <1>1, <1>3, <2>1, BindProc
  <2> QED BY <1>3, <2>1, <2>2, StepProc
<1>4. CASE OutsideStep /\ Observe({}, {}) /\ Remember(Host)
  <2>1. BindInv'
    BY <1>1, <1>4, BindOutside
  <2> QED BY <1>4, <2>1, StepOutside
<1>5. CASE Reboot /\ Remember(Host)
  <2>1. BindInv'
    BY <1>1, <1>5, BindReboot
  <2> QED BY <1>5, <2>1, StepReboot
<1> QED BY <1>2, <1>3, <1>4, <1>5 DEF Next

LEMMA BindBegins ==
  ASSUME Init, HistInit, NEW n \in Name
  PROVE  B(n)!BindingInit
<1>1. \A p \in Proc : CallOn(n, p) = [op |-> "idle"]
  BY DEF Init, CallInit, CallOn, Busy
<1>2. hist[n] = [rec |-> NoFile, host |-> "clean", ret |-> [p \in Proc |-> "nobinding"]]
  BY DEF HistInit
<1> QED BY <1>1, <1>2 DEF B!BindingInit, B!Idle

(***************************************************************************)
(* Calls on one name that are kept apart are atomic, however their         *)
(* commands fail, are interrupted or interfered with: a caller sees the    *)
(* outcomes Binding allows and no others.  (For options that give a name   *)
(* the same aliases in every Up: the machine is clean when none of them is *)
(* there, and a roll-back takes away those of its own call.)               *)
(***************************************************************************)
THEOREM BindingImplemented ==
  ASSUME Serial, SameAliases
  PROVE  HistSpec => ImplementsBinding
<1>1. Init /\ HistInit => BindInv /\ \A n \in Name : B(n)!BindingInit
  BY BindBegins, BindInit
<1>2. BindInv /\ [Next /\ Remember(Host)]_<<vars, hist>> =>
        /\ BindInv'
        /\ [\A n \in Name :
              \/ UNCHANGED B(n)!bindingVars
              \/ B(n)!BindingNext]_<<callVars, calm, hist>>
  BY BindStep DEF StepOf
<1> QED BY <1>1, <1>2, PTL DEF HistSpec, ImplementsBinding

=============================================================================
