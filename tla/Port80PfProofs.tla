--------------------------- MODULE Port80PfProofs ---------------------------
(***************************************************************************)
(* Theorems about Port80Pf, for any processes, names, aliases, tokens,     *)
(* faults and interference.                                                *)
(***************************************************************************)
EXTENDS Port80PfProps, Port80Proofs

-----------------------------------------------------------------------------
(* Facts about rules.                                                      *)

LEMMA PFAnchorRules ==
  ASSUME NEW s
  PROVE  PFAnchor(s) \subseteq Rule
  BY DEF PFAnchor

-----------------------------------------------------------------------------
(* Type correctness.                                                       *)

LoopLabels == {"has", "alias", "add", "undo", "del", "unroute"}

(***************************************************************************)
(* A call past loadState holds a State, and Up holds one from the start.   *)
(***************************************************************************)
HoldsState(p) ==
  \/ pc[p] = "idle"
  \/ pc[p] = "load" /\ call[p].op # "up"
  \/ st[p] \in State

(***************************************************************************)
(* A loop that is running has an alias to visit.                           *)
(***************************************************************************)
HoldsAlias(p) == pc[p] \in LoopLabels => todo[p] # {}

(***************************************************************************)
(* The inductive strengthening of TypeOK.                                  *)
(***************************************************************************)
TypeInv == TypeOK /\ \A p \in Proc : HoldsState(p) /\ HoldsAlias(p)

LEMMA TypeInit == Init => TypeInv
<1> SUFFICES ASSUME Init PROVE TypeInv
  OBVIOUS
<1>1. (CHOOSE n \in Name : TRUE) \in Name
  BY NameAssumption
<1>2. TypeOK
  BY <1>1 DEF Init, CallInit, HostInit, TypeOK, Labels, Ops, Results,
                   Attachments
<1>3. ASSUME NEW p \in Proc PROVE HoldsState(p) /\ HoldsAlias(p)
  BY DEF Init, CallInit, HoldsState, HoldsAlias, LoopLabels
<1> QED BY <1>2, <1>3 DEF TypeInv

(***************************************************************************)
(* What the conjuncts of TypeInv say of one process.                       *)
(***************************************************************************)
LEMMA TypeFacts ==
  ASSUME TypeInv, NEW p \in Proc
  PROVE  /\ call[p].name \in Name
         /\ call[p].op \in Ops
         /\ pc[p] \notin {"idle", "load"} => st[p] \in State
         /\ pc[p] \in LoopLabels => todo[p] # {} /\ Cur(p) \in todo[p] /\ Cur(p) \in Alias
<1>1. call[p] \in [op: Ops, name: Name]
  BY DEF TypeInv, TypeOK
<1>2. pc[p] \notin {"idle", "load"} => st[p] \in State
  BY DEF TypeInv, HoldsState
<1>3. pc[p] \in LoopLabels => todo[p] # {}
  BY DEF TypeInv, HoldsAlias
<1>4. todo[p] \subseteq Alias
  BY DEF TypeInv, TypeOK
<1> QED BY <1>1, <1>2, <1>3, <1>4, CurInTodo

(***************************************************************************)
(* A step of a call by p changes nothing of the other processes.           *)
(***************************************************************************)
OthersUnchanged(p) ==
  \A q \in Proc \ {p} : /\ pc'[q] = pc[q] /\ call'[q] = call[q]
                        /\ st'[q] = st[q] /\ todo'[q] = todo[q]

LEMMA HoldsForOthers ==
  ASSUME TypeInv, NEW p \in Proc, OthersUnchanged(p),
         HoldsState(p)', HoldsAlias(p)'
  PROVE  \A q \in Proc : (HoldsState(q) /\ HoldsAlias(q))'
  BY DEF TypeInv, OthersUnchanged, HoldsState, HoldsAlias

-----------------------------------------------------------------------------
(* How a step moves the control of p.                                      *)

Moved(p) ==
  /\ pc' \in [Proc -> Labels]
  /\ todo' \in [Proc -> SUBSET Alias]
  /\ pc'[p] # "load"
  /\ HoldsAlias(p)'
  /\ \A q \in Proc \ {p} : pc'[q] = pc[q] /\ todo'[q] = todo[q]

LEMMA GotoMoves ==
  ASSUME TypeInv, NEW p \in Proc, NEW label \in Labels \ {"load"},
         Goto(p, label), todo' = todo, label \in LoopLabels => todo[p] # {}
  PROVE  Moved(p)
  BY DEF TypeInv, TypeOK, Goto, Moved, HoldsAlias

LEMMA AbortMoves ==
  ASSUME TypeInv, NEW p \in Proc, pc[p] \notin {"idle", "load"}, Abort(p)
  PROVE  Moved(p) /\ ret' \in [Proc -> Results] /\ pc'[p] \in {"idle", "undo"}
<1> DEFINE done == st[p].aliases \ todo[p]
           undo == call[p].op = "up" /\ done # {}
<1>1. done \in SUBSET Alias
  BY TypeFacts, StateFields
<1>2. /\ todo' = [todo EXCEPT ![p] = IF undo THEN done ELSE {}]
      /\ pc' = [pc EXCEPT ![p] = IF undo THEN "undo" ELSE "idle"]
      /\ ret' = [ret EXCEPT ![p] = "err"]
  BY DEF Abort, Loop, Goto, Note
<1>3. /\ todo \in [Proc -> SUBSET Alias]
      /\ pc \in [Proc -> Labels]
      /\ ret \in [Proc -> Results]
  BY DEF TypeInv, TypeOK
<1> HIDE DEF done
<1> QED BY <1>1, <1>2, <1>3 DEF Moved, HoldsAlias, LoopLabels, Labels, Results

LEMMA EndPassMoves ==
  ASSUME TypeInv, NEW p \in Proc, pc[p] \in LoopLabels,
         NEW head \in LoopLabels,
         NEW after \in {"wild", "rdr", "idle", "clear"},
         EndPass(p, head, after)
  PROVE  Moved(p) /\ pc'[p] \in {head, after}
<1>1. Cur(p) \in todo[p]
  BY TypeFacts
<1>2. /\ todo' = [todo EXCEPT ![p] = todo[p] \ {Cur(p)}]
      /\ pc' = [pc EXCEPT ![p] = IF todo[p] = {Cur(p)} THEN after ELSE head]
  BY DEF EndPass, Loop, Goto
<1>3. /\ todo \in [Proc -> SUBSET Alias]
      /\ pc \in [Proc -> Labels]
  BY DEF TypeInv, TypeOK
<1>4. todo'[p] = {} => pc'[p] = after
  BY <1>1, <1>2, <1>3
<1>5. pc' \in [Proc -> Labels] /\ pc'[p] \in {head, after}
  BY <1>2, <1>3 DEF Labels, LoopLabels
<1>6. todo' \in [Proc -> SUBSET Alias]
  BY <1>2, <1>3
<1> QED BY <1>2, <1>3, <1>4, <1>5, <1>6 DEF Moved, HoldsAlias, LoopLabels

(***************************************************************************)
(* TypeOK without the history variable.                                    *)
(***************************************************************************)
Types ==
  /\ file \in [Name -> State \cup {NoFile, Torn}]
  /\ pc \in [Proc -> Labels]
  /\ call \in [Proc -> [op: Ops, name: Name]]
  /\ st \in [Proc -> State \cup {NoState}]
  /\ todo \in [Proc -> SUBSET Alias]
  /\ fd \subseteq Proc
  /\ ret \in [Proc -> Results]
  /\ alias \subseteq Alias
  /\ reject \subseteq Alias
  /\ undeleted \subseteq Alias
  /\ anchor \in [Name -> SUBSET Rule]
  /\ ref \in [Token -> Name \cup {Outside, Free}]
  /\ skip \subseteq Iface
  /\ main \subseteq Attachments
  /\ dump \in [Proc -> SUBSET Attachments]

(***************************************************************************)
(* The result of a step of p that is to be shown for every action.         *)
(***************************************************************************)
TypedStep(p) ==
  Types' /\ HoldsState(p)' /\ HoldsAlias(p)' /\ OthersUnchanged(p)

(***************************************************************************)
(* Most steps keep call[p] and st[p]: only the rest is to be typed.        *)
(***************************************************************************)
LEMMA CommandTyped ==
  ASSUME TypeInv, NEW p \in Proc, pc[p] \notin {"idle", "load"},
         Moved(p), ret' \in [Proc -> Results],
         UNCHANGED <<file, fd, call, st>>,
         alias' \subseteq Alias, reject' \subseteq Alias, undeleted' \subseteq Alias,
         anchor' \in [Name -> SUBSET Rule],
         ref' \in [Token -> Name \cup {Outside, Free}],
         skip' \subseteq Iface, main' \subseteq Attachments,
         dump' \in [Proc -> SUBSET Attachments]
  PROVE  TypedStep(p)
<1>1. Types'
  BY DEF TypeInv, TypeOK, Types, Moved
<1>2. HoldsState(p)'
  BY TypeFacts DEF HoldsState
<1> QED BY <1>1, <1>2 DEF Moved, TypedStep, OthersUnchanged

LEMMA HostTypes ==
  ASSUME TypeInv
  PROVE  /\ alias \subseteq Alias
         /\ reject \subseteq Alias
         /\ undeleted \subseteq Alias
         /\ anchor \in [Name -> SUBSET Rule]
         /\ ref \in [Token -> Name \cup {Outside, Free}]
         /\ skip \subseteq Iface
         /\ main \subseteq Attachments
         /\ dump \in [Proc -> SUBSET Attachments]
         /\ ret \in [Proc -> Results]
  BY DEF TypeInv, TypeOK

LEMMA RemoveAliasTypes ==
  ASSUME TypeInv, NEW a, RemoveAlias(a)
  PROVE  alias' \subseteq Alias /\ reject' \subseteq Alias /\ undeleted' \subseteq Alias
  BY HostTypes DEF RemoveAlias

LEMMA DeleteRouteTypes ==
  ASSUME TypeInv, NEW a, DeleteRoute(a)
  PROVE  reject' \subseteq Alias /\ undeleted' \subseteq Alias
  BY HostTypes DEF DeleteRoute

LEMMA CommandTypes ==
  ASSUME TypeInv, NEW p \in Proc, CommandStep(p)
  PROVE  TypedStep(p)
<1>1. CASE HasAlias(p)
  <2>1. pc[p] = "has" /\ HostUnchanged /\ UNCHANGED <<file, fd, call, st, dump>>
    BY <1>1 DEF HasAlias
  <2>2. CASE EndPass(p, "has", IF call[p].op = "verify" THEN "rdr" ELSE "wild") /\ UNCHANGED ret
    BY <2>1, <2>2, EndPassMoves, HostTypes, CommandTyped DEF HostUnchanged, hostVars, LoopLabels
  <2>3. CASE Goto(p, "alias") /\ UNCHANGED <<todo, ret>>
    <3>1. Moved(p)
      BY <2>1, <2>3, GotoMoves, TypeFacts DEF LoopLabels, Labels
    <3> QED BY <2>1, <2>3, <3>1, HostTypes, CommandTyped DEF HostUnchanged, hostVars
  <2>4. CASE Abort(p)
    BY <2>1, <2>4, AbortMoves, HostTypes, CommandTyped DEF HostUnchanged, hostVars
  <2> QED BY <1>1, <2>2, <2>3, <2>4 DEF HasAlias
<1>2. CASE DeleteStaleRoute(p)
  <2>1. Moved(p)
    BY <1>2, GotoMoves, TypeFacts DEF DeleteStaleRoute, LoopLabels, Labels
  <2> QED BY <1>2, <2>1, HostTypes, DeleteRouteTypes, CommandTyped DEF DeleteStaleRoute
<1>3. CASE AddAlias(p)
  <2>1. CASE Abort(p)
    BY <1>3, <2>1, AbortMoves, HostTypes, CommandTyped, TypeFacts DEF AddAlias, LoopLabels
  <2>2. CASE EndPass(p, IF call[p].op = "up" THEN "alias" ELSE "has", "wild") /\ UNCHANGED ret
    <3>1. Moved(p)
      BY <1>3, <2>2, EndPassMoves DEF AddAlias, LoopLabels
    <3>2. alias' \subseteq Alias
      BY <1>3, HostTypes, TypeFacts DEF AddAlias, LoopLabels
    <3> QED BY <1>3, <2>2, <3>1, <3>2, HostTypes, CommandTyped DEF AddAlias
  <2> QED BY <1>3, <2>1, <2>2 DEF AddAlias
<1>4. CASE UndoAlias(p)
  <2>1. Moved(p)
    BY <1>4, EndPassMoves DEF UndoAlias, LoopLabels
  <2>2. alias' \subseteq Alias /\ reject' \subseteq Alias /\ undeleted' \subseteq Alias
    BY <1>4, HostTypes, RemoveAliasTypes DEF UndoAlias
  <2> QED BY <1>4, <2>1, <2>2, HostTypes, CommandTyped DEF UndoAlias
<1>5. CASE EnsureAppleRdrAnchor(p)
  <2>1. pc[p] = "wild"
    BY <1>5 DEF EnsureAppleRdrAnchor
  <2>2. Moved(p) /\ ret' \in [Proc -> Results]
    <3>1. CASE Abort(p)
      BY <2>1, <3>1, AbortMoves
    <3>2. CASE ~Abort(p)
      BY <1>5, <2>1, <3>2, GotoMoves, HostTypes DEF EnsureAppleRdrAnchor, LoopLabels, Labels
    <3> QED BY <3>1, <3>2
  <2> QED BY <1>5, <2>1, <2>2, HostTypes, CommandTyped DEF EnsureAppleRdrAnchor, HostUnchanged, hostVars
<1>6. CASE SkippedAliasIfaces(p)
  <2>1. pc[p] = "skip"
    BY <1>6 DEF SkippedAliasIfaces
  <2>2. Moved(p) /\ ret' \in [Proc -> Results]
    <3>1. CASE Abort(p)
      BY <2>1, <3>1, AbortMoves
    <3>2. CASE ~Abort(p)
      BY <1>6, <2>1, <3>2, GotoMoves, HostTypes DEF SkippedAliasIfaces, LoopLabels, Labels
    <3> QED BY <3>1, <3>2
  <2> QED BY <1>6, <2>1, <2>2, HostTypes, CommandTyped DEF SkippedAliasIfaces, HostUnchanged, hostVars
<1>7. CASE DumpMainRuleset(p)
  <2>1. pc[p] \in {"dump", "dumpnat", "dumpdummynet"}
    BY <1>7 DEF DumpMainRuleset, DumpFilter, DumpNat, DumpDummynet
  <2>2. Moved(p) /\ ret' \in [Proc -> Results]
    <3>1. CASE Abort(p)
      BY <2>1, <3>1, AbortMoves
    <3>2. CASE ~Abort(p)
      BY <1>7, <2>1, <3>2, GotoMoves, HostTypes
         DEF DumpMainRuleset, DumpFilter, DumpNat, DumpDummynet, Dump, LoopLabels, Labels
    <3> QED BY <3>1, <3>2
  <2>3. dump' \in [Proc -> SUBSET Attachments]
    BY <1>7, HostTypes
       DEF DumpMainRuleset, DumpFilter, DumpNat, DumpDummynet, Dump, InSection
  <2>4. HostUnchanged /\ UNCHANGED <<file, fd, call, st>>
    BY <1>7 DEF DumpMainRuleset, DumpFilter, DumpNat, DumpDummynet
  <2> QED BY <2>1, <2>2, <2>3, <2>4, HostTypes, CommandTyped DEF HostUnchanged, hostVars
<1>8. CASE LoadMainRuleset(p)
  <2>1. pc[p] = "main"
    BY <1>8 DEF LoadMainRuleset
  <2>2. Moved(p) /\ ret' \in [Proc -> Results]
    <3>1. CASE Abort(p)
      BY <2>1, <3>1, AbortMoves
    <3>2. CASE ~Abort(p)
      BY <1>8, <2>1, <3>2, GotoMoves, HostTypes DEF LoadMainRuleset, LoopLabels, Labels
    <3> QED BY <3>1, <3>2
  <2> QED BY <1>8, <2>1, <2>2, HostTypes, CommandTyped DEF LoadMainRuleset
<1>9. CASE PFLoadAnchor(p)
  <2>1. pc[p] = "rules"
    BY <1>9 DEF PFLoadAnchor
  <2>2. Moved(p) /\ ret' \in [Proc -> Results]
    <3>1. CASE Abort(p)
      BY <2>1, <3>1, AbortMoves
    <3>2. CASE ~Abort(p)
      BY <1>9, <2>1, <3>2, GotoMoves, HostTypes DEF PFLoadAnchor, LoopLabels, Labels
    <3> QED BY <3>1, <3>2
  <2> QED BY <1>9, <2>1, <2>2, HostTypes, CommandTyped, PFAnchorRules, TypeFacts DEF PFLoadAnchor
<1>10. CASE AnchorHoldsRules(p)
  <2>1. pc[p] = "rdr"
    BY <1>10 DEF AnchorHoldsRules
  <2>2. Moved(p) /\ ret' \in [Proc -> Results]
    <3>1. CASE Abort(p)
      BY <2>1, <3>1, AbortMoves
    <3>2. CASE ~Abort(p)
      BY <1>10, <2>1, <3>2, GotoMoves, HostTypes DEF AnchorHoldsRules, LoopLabels, Labels
    <3> QED BY <3>1, <3>2
  <2> QED BY <1>10, <2>1, <2>2, HostTypes, CommandTyped DEF AnchorHoldsRules, HostUnchanged, hostVars
<1>11. CASE PFStatus(p)
  <2>1. pc[p] = "status"
    BY <1>11 DEF PFStatus
  <2>2. Moved(p) /\ ret' \in [Proc -> Results]
    <3>1. CASE Abort(p)
      BY <2>1, <3>1, AbortMoves
    <3>2. CASE ~Abort(p)
      BY <1>11, <2>1, <3>2, GotoMoves, HostTypes DEF PFStatus, LoopLabels, Labels
    <3> QED BY <3>1, <3>2
  <2> QED BY <1>11, <2>1, <2>2, HostTypes, CommandTyped DEF PFStatus, HostUnchanged, hostVars
<1>12. CASE PFEnable(p)
  <2>1. pc[p] = "enable" /\ st[p] \in State /\ st \in [Proc -> State \cup {NoState}]
    BY <1>12, TypeFacts DEF PFEnable, TypeInv, TypeOK
  <2>2. CASE UNCHANGED <<ref, st>>
    <3>1. CASE Abort(p)
      BY <1>12, <2>1, <2>2, <3>1, AbortMoves, HostTypes, CommandTyped DEF PFEnable
    <3>2. CASE Note(p, "err") /\ Goto(p, "unload") /\ UNCHANGED todo
      <4>1. Moved(p)
        BY <3>2, GotoMoves DEF LoopLabels, Labels
      <4>2. ret' \in [Proc -> Results]
        BY <3>2, HostTypes DEF Note, Results
      <4> QED BY <1>12, <2>1, <2>2, <4>1, <4>2, HostTypes, CommandTyped DEF PFEnable
    <3>3. CASE Goto(p, "save") /\ UNCHANGED <<todo, ret>>
      <4>1. Moved(p)
        BY <3>3, GotoMoves DEF LoopLabels, Labels
      <4> QED BY <1>12, <2>1, <2>2, <3>3, <4>1, HostTypes, CommandTyped DEF PFEnable
    <3> QED BY <1>12, <3>1, <3>2, <3>3 DEF PFEnable
  <2>3. ASSUME NEW t \in Token, NEW tok \in Token \cup {NoToken},
               ref' = [ref EXCEPT ![t] = call[p].name],
               st' = [st EXCEPT ![p].tok = tok],
               Goto(p, "save"), UNCHANGED <<todo, ret>>
        PROVE  TypedStep(p)
    <3>1. Moved(p)
      BY <2>3, GotoMoves DEF LoopLabels, Labels
    <3>2. ref' \in [Token -> Name \cup {Outside, Free}]
      BY <2>3, HostTypes, TypeFacts
    <3>3. [st[p] EXCEPT !.tok = tok] \in State
      BY <2>1, StateToken
    <3>4. st' = [st EXCEPT ![p] = [st[p] EXCEPT !.tok = tok]]
      BY <2>3
    <3>5. st' \in [Proc -> State \cup {NoState}] /\ st'[p] \in State
      BY <2>1, <3>3, <3>4
    <3>6. Types'
      BY <1>12, <2>3, <3>1, <3>2, <3>5 DEF PFEnable, TypeInv, TypeOK, Types, Moved
    <3>7. OthersUnchanged(p)
      BY <1>12, <2>1, <3>1, <3>4 DEF PFEnable, OthersUnchanged, Moved
    <3> QED BY <3>1, <3>5, <3>6, <3>7 DEF TypedStep, HoldsState, Moved
  <2>4. \A t : ParsePFToken(t) \subseteq {t, NoToken}
    BY DEF ParsePFToken
  <2> QED BY <1>12, <2>2, <2>3, <2>4 DEF PFEnable
<1>13. CASE UnloadAfterFailedEnable(p)
  <2>1. Moved(p) /\ ret' \in [Proc -> Results]
    BY <1>13, AbortMoves DEF UnloadAfterFailedEnable
  <2>2. anchor' \in [Name -> SUBSET Rule]
    BY <1>13, HostTypes DEF UnloadAfterFailedEnable, FlushAnchor
  <2> QED BY <1>13, <2>1, <2>2, HostTypes, CommandTyped DEF UnloadAfterFailedEnable
<1>14. CASE FlushForDown(p)
  <2>1. Moved(p)
    BY <1>14, GotoMoves DEF FlushForDown, LoopLabels, Labels
  <2>2. anchor' \in [Name -> SUBSET Rule]
    BY <1>14, HostTypes DEF FlushForDown, FlushAnchor
  <2> QED BY <1>14, <2>1, <2>2, HostTypes, CommandTyped DEF FlushForDown
<1>15. CASE ReleasePF(p)
  <2>1. pc[p] = "release" /\ st[p] \in State
    BY <1>15, TypeFacts DEF ReleasePF
  <2>2. Moved(p)
    BY <1>15, <2>1, StateFields
       DEF ReleasePF, Moved, TypeInv, TypeOK, Goto, Loop, HoldsAlias, Labels
  <2>3. ref' \in [Token -> Name \cup {Outside, Free}]
    BY <1>15, HostTypes DEF ReleasePF
  <2> QED BY <1>15, <2>1, <2>2, <2>3, HostTypes, CommandTyped DEF ReleasePF
<1>16. CASE DeleteAlias(p)
  <2>1. Moved(p)
    BY <1>16, GotoMoves, TypeFacts DEF DeleteAlias, LoopLabels, Labels
  <2>2. ret' \in [Proc -> Results]
    BY <1>16, HostTypes DEF DeleteAlias, Note, Results
  <2>3. alias' \subseteq Alias /\ reject' \subseteq Alias /\ undeleted' \subseteq Alias
    BY <1>16, HostTypes, RemoveAliasTypes DEF DeleteAlias
  <2> QED BY <1>16, <2>1, <2>2, <2>3, HostTypes, CommandTyped DEF DeleteAlias
<1>17. CASE DeleteClonedRoute(p)
  <2>1. Moved(p)
    BY <1>17, EndPassMoves DEF DeleteClonedRoute, LoopLabels
  <2> QED BY <1>17, <2>1, HostTypes, DeleteRouteTypes, CommandTyped DEF DeleteClonedRoute
<1> QED BY <1>1, <1>2, <1>3, <1>4, <1>5, <1>6, <1>7, <1>8, <1>9, <1>10, <1>11,
           <1>12, <1>13, <1>14, <1>15, <1>16, <1>17 DEF CommandStep

LEMMA CallTypes ==
  ASSUME TypeInv, NEW p \in Proc, CallStep(p)
  PROVE  TypedStep(p)
<1>1. ASSUME NEW op \in Ops, NEW n \in Name, NEW s \in State \cup {NoState},
             op = "up" => s \in State, Begin(p, op, n, s), HostUnchanged, UNCHANGED dump
      PROVE  TypedStep(p)
  <2>1. Types'
    BY <1>1 DEF TypeInv, TypeOK, Types, Begin, Goto, Note, Loop, Labels, Results,
                HostUnchanged, hostVars
  <2>2. HoldsState(p)' /\ HoldsAlias(p)'
    BY <1>1 DEF TypeInv, TypeOK, Begin, Goto, HoldsState, HoldsAlias, LoopLabels
  <2>3. OthersUnchanged(p)
    BY <1>1 DEF TypeInv, TypeOK, Begin, Goto, Loop, OthersUnchanged
  <2> QED BY <2>1, <2>2, <2>3 DEF TypedStep
<1>2. ASSUME NEW o \in Options, Up(p, o) PROVE TypedStep(p)
  BY <1>1, <1>2, OptionsState, OptionsName DEF CallStep, Up, Ops
<1>3. ASSUME NEW n \in Name, Down(p, n) \/ Verify(p, n) \/ Reassert(p, n)
      PROVE  TypedStep(p)
  BY <1>1, <1>3 DEF CallStep, Down, Verify, Reassert, Ops
<1> QED BY <1>2, <1>3 DEF CallStep

LEMMA RecordTypes ==
  ASSUME TypeInv, NEW p \in Proc, RecordStep(p)
  PROVE  TypedStep(p)
<1> USE DEF RecordStep, TypedStep, OthersUnchanged, HostUnchanged, hostVars,
            Goto, Note, Loop
<1>1. CASE LoadForUp(p)
  <2>1. st[p] \in State
    BY <1>1 DEF LoadForUp, TypeInv, HoldsState
  <2> QED BY <1>1, <2>1, StateFields
          DEF LoadForUp, TypeInv, TypeOK, Types, HoldsState, HoldsAlias, LoopLabels,
              Labels, Results
<1>2. CASE LoadRecord(p)
  <2> DEFINE f == file[call[p].name]
  <2>1. pc[p] = "load" /\ f \in State \cup {NoFile, Torn}
    BY <1>2, TypeFacts DEF LoadRecord, TypeInv, TypeOK
  <2>2. CASE f \in State /\ st' = [st EXCEPT ![p] = f]
    <3>1. /\ UNCHANGED <<file, call, fd>>
          /\ ret' \in [Proc -> Results]
          /\ \E label \in {"teardown", "has", "idle"} : pc' = [pc EXCEPT ![p] = label]
          /\ todo' \in {todo, [todo EXCEPT ![p] = f.aliases]}
      BY <1>2 DEF LoadRecord, TypeInv, TypeOK, Results
    <3>2. f.aliases \subseteq Alias /\ f.aliases # {}
      BY <2>2, StateFields
    <3>3. pc'[p] # "idle" => todo'[p] = f.aliases
      BY <1>2, <2>1, <2>2, SentinelAssumption DEF LoadRecord, TypeInv, TypeOK
    <3> HIDE DEF f
    <3> QED BY <1>2, <2>2, <3>1, <3>2, <3>3
            DEF TypeInv, TypeOK, Types, HoldsState, HoldsAlias, LoopLabels, Labels
  <2>3. CASE Goto(p, "idle") /\ UNCHANGED <<st, todo>>
    BY <1>2, <2>1, <2>3
       DEF LoadRecord, TypeInv, TypeOK, Types, HoldsState, HoldsAlias, LoopLabels,
           Labels, Results
  <2> QED BY <1>2, <2>2, <2>3 DEF LoadRecord
<1>3. CASE SaveTruncate(p)
  <2>1. st[p] \in State /\ pc[p] = "save"
    BY <1>3, TypeFacts DEF SaveTruncate
  <2>2. /\ file' \in [Name -> State \cup {NoFile, Torn}]
        /\ fd' \subseteq Proc
    BY <1>3, TypeFacts DEF SaveTruncate, TypeInv, TypeOK
  <2>3. /\ UNCHANGED <<call, st, todo>>
        /\ ret' \in [Proc -> Results]
        /\ \E label \in {"write", "teardown", "idle"} : pc' = [pc EXCEPT ![p] = label]
    BY <1>3 DEF SaveTruncate, SaveFailed, TypeInv, TypeOK, Results
  <2> QED BY <2>1, <2>2, <2>3
          DEF TypeInv, TypeOK, Types, HoldsState, HoldsAlias, LoopLabels, Labels
<1>4. CASE SaveWrite(p)
  <2>1. st[p] \in State /\ pc[p] = "write"
    BY <1>4, TypeFacts DEF SaveWrite
  <2>2. Written(p) \subseteq State \cup {NoFile, Torn}
    BY <2>1, TypeFacts DEF Written, TypeInv, TypeOK
  <2>3. file' \in [Name -> State \cup {NoFile, Torn}]
    BY <1>4, <2>2, TypeFacts DEF SaveWrite, TypeInv, TypeOK
  <2>4. /\ UNCHANGED <<call, st, todo>>
        /\ fd' \subseteq Proc
        /\ ret' \in [Proc -> Results]
        /\ \E label \in {"teardown", "idle"} : pc' = [pc EXCEPT ![p] = label]
    BY <1>4 DEF SaveWrite, SaveFailed, TypeInv, TypeOK, Results
  <2> QED BY <1>4, <2>1, <2>3, <2>4
          DEF TypeInv, TypeOK, Types, HoldsState, HoldsAlias, LoopLabels, Labels
<1>5. CASE ClearState(p)
  BY <1>5, TypeFacts
     DEF ClearState, TypeInv, TypeOK, Types, HoldsState, HoldsAlias, LoopLabels,
         Labels, Results
<1> QED BY <1>1, <1>2, <1>3, <1>4, <1>5

LEMMA KillTypes ==
  ASSUME TypeInv, NEW p \in Proc, KillStep(p)
  PROVE  TypedStep(p)
  BY DEF KillStep, Kill, TypedStep, OthersUnchanged, HostUnchanged, hostVars, Goto,
         Note, Loop, TypeInv, TypeOK, Types, HoldsState, HoldsAlias, LoopLabels,
         Labels, Results

LEMMA OutsideTypes ==
  ASSUME TypeInv, OutsideStep
  PROVE  Types'
<1>1. UNCHANGED callVars /\ UNCHANGED dump
  BY DEF OutsideStep
<1>2. /\ alias' \subseteq Alias /\ reject' \subseteq Alias /\ undeleted' \subseteq Alias
      /\ anchor' \in [Name -> SUBSET Rule]
      /\ ref' \in [Token -> Name \cup {Outside, Free}]
      /\ skip' \subseteq Iface /\ main' \subseteq Attachments
  BY HostTypes, RemoveAliasTypes, IfaceAssumption
     DEF OutsideStep, OutsideFlush, OutsideDisable, InternetSharing, OutsideReload,
         OutsideAliasLoss, OutsideReference, Attachments
<1> QED BY <1>1, <1>2 DEF TypeInv, TypeOK, Types, callVars

LEMMA TypeStep ==
  ASSUME TypeInv, [Next]_vars
  PROVE  TypeInv'
<1>1. ASSUME NEW p \in Proc, TypedStep(p), calm' \subseteq Proc
      PROVE  TypeInv'
  <2>1. TypeOK'
    BY <1>1 DEF TypedStep, Types, TypeOK
  <2> QED BY <1>1, <2>1, HoldsForOthers DEF TypedStep, TypeInv
<1>2. calm \subseteq Proc
  BY DEF TypeInv, TypeOK
<1>3. \A A, B : B \subseteq Proc /\ Observe(A, B) => calm' \subseteq Proc
  BY <1>2 DEF Observe
<1>4. ASSUME NEW p \in Proc, CallStep(p), Observe({p}, {p}) PROVE TypeInv'
  BY <1>1, <1>3, <1>4, CallTypes
<1>5. ASSUME NEW p \in Proc, RecordStep(p), Observe({p}, {}) PROVE TypeInv'
  BY <1>1, <1>3, <1>5, RecordTypes
<1>6. ASSUME NEW p \in Proc, CommandStep(p), Observe({p}, {}) PROVE TypeInv'
  BY <1>1, <1>3, <1>6, CommandTypes
<1>7. ASSUME NEW p \in Proc, KillStep(p), Observe({p}, {}) PROVE TypeInv'
  BY <1>1, <1>3, <1>7, KillTypes
<1>8. CASE OutsideStep /\ Observe({}, {})
  <2>1. TypeOK'
    BY <1>3, <1>8, OutsideTypes DEF Types, TypeOK
  <2>2. \A p \in Proc : (HoldsState(p) /\ HoldsAlias(p))'
    BY <1>8 DEF OutsideStep, callVars, TypeInv, HoldsState, HoldsAlias
  <2> QED BY <2>1, <2>2 DEF TypeInv
<1>9. CASE Reboot /\ calm' = {}
  <2>1. TypeOK'
    BY <1>9 DEF Reboot, RebootCalls, TypeInv, TypeOK, Labels, Results, Attachments
  <2>2. \A p \in Proc : (HoldsState(p) /\ HoldsAlias(p))'
    BY <1>9 DEF Reboot, RebootCalls, HoldsState, HoldsAlias, LoopLabels
  <2> QED BY <2>1, <2>2 DEF TypeInv
<1>10. CASE UNCHANGED vars
  BY <1>10 DEF vars, pfVars, callVars, hostVars, TypeInv, TypeOK, HoldsState, HoldsAlias
<1> QED BY <1>4, <1>5, <1>6, <1>7, <1>8, <1>9, <1>10 DEF Next

(***************************************************************************)
(* Whatever the processes, faults and interference, every variable keeps   *)
(* its type: no call reaches a command without the State it works on.      *)
(***************************************************************************)
THEOREM TypeCorrect == Spec => []TypeOK
<1>1. TypeInv => TypeOK
  BY DEF TypeInv
<1> QED BY <1>1, TypeInit, TypeStep, PTL DEF Spec

-----------------------------------------------------------------------------
(* pf references.  Every token that a record or a running call would hand  *)
(* to `pfctl -X` is the binding's own or keeps nothing enabled.            *)

Owned(t, n) == ref[t] \in {n, Free}

RecordOwned(n) ==
  file[n] \in State => file[n].tok \in Token /\ Owned(file[n].tok, n)

(***************************************************************************)
(* Where an Up is while it has taken no reference yet.                     *)
(***************************************************************************)
BeforeToken == {"load", "alias", "add", "undo", "wild", "rules", "enable", "unload"}

CallOwned(p) ==
  pc[p] # "idle" /\ st[p] \in State =>
    /\ st[p].tok = NoToken => call[p].op = "up" /\ pc[p] \in BeforeToken
    /\ st[p].tok \in Token => Owned(st[p].tok, call[p].name)

(***************************************************************************)
(* The inductive invariant behind ReferencesRespected.                     *)
(***************************************************************************)
TokenInv ==
  TypeInv /\ (\A n \in Name : RecordOwned(n)) /\ (\A p \in Proc : CallOwned(p))

LEMMA TokenInit == Init => TokenInv
  BY TypeInit, SentinelAssumption
     DEF Init, CallInit, TokenInv, RecordOwned, CallOwned

(***************************************************************************)
(* A call that is past BeforeToken has a token to release.                 *)
(***************************************************************************)
LEMMA TokenHeld ==
  ASSUME TokenInv, NEW p \in Proc, pc[p] \notin BeforeToken \cup {"idle"}
  PROVE  /\ st[p] \in State
         /\ st[p].tok \in Token
         /\ Owned(st[p].tok, call[p].name)
<1>1. st[p] \in State
  BY TypeFacts DEF TokenInv, BeforeToken
<1>2. st[p].tok # NoToken
  BY <1>1 DEF TokenInv, CallOwned
<1> QED BY <1>1, <1>2, StateFields DEF TokenInv, CallOwned

(***************************************************************************)
(* Steps that touch neither records nor references.                        *)
(***************************************************************************)
LEMMA QuietStep ==
  ASSUME TokenInv, TypeInv', NEW p \in Proc,
         UNCHANGED <<file, ref, call, st>>, OthersUnchanged(p),
         pc[p] \in BeforeToken /\ call[p].op = "up"
           => pc'[p] \in BeforeToken \cup {"idle"},
         pc[p] # "idle"
  PROVE  TokenInv'
<1>1. ASSUME NEW q \in Proc PROVE CallOwned(q)'
  <2>1. CASE q = p
    BY <2>1 DEF TokenInv, CallOwned, Owned
  <2>2. CASE q # p
    BY <2>2 DEF TokenInv, CallOwned, Owned, OthersUnchanged
  <2> QED BY <2>1, <2>2
<1> QED BY <1>1 DEF TokenInv, RecordOwned, Owned

(***************************************************************************)
(* A reference changes hands only when its token is unknown, or becomes    *)
(* free.                                                                   *)
(***************************************************************************)
LEMMA RefStep ==
  ASSUME TokenInv, NEW t \in Token, NEW holder,
         ref' = [ref EXCEPT ![t] = holder],
         holder = Free \/ ~Known(t)
  PROVE  /\ \A n \in Name : file[n] \in State => ref'[file[n].tok] \in {n, Free}
         /\ \A p \in Proc : pc[p] # "idle" /\ st[p] \in State /\ st[p].tok \in Token
              => ref'[st[p].tok] \in {call[p].name, Free}
<1>1. ref \in [Token -> Name \cup {Outside, Free}]
  BY DEF TokenInv, TypeInv, TypeOK
<1>2. ASSUME NEW n \in Name, file[n] \in State
      PROVE  ref'[file[n].tok] \in {n, Free}
  <2>1. file[n].tok = t => holder = Free
    BY <1>2 DEF Known
  <2>2. file[n].tok \in Token /\ ref[file[n].tok] \in {n, Free}
    BY <1>2 DEF TokenInv, RecordOwned, Owned
  <2> QED BY <1>1, <2>1, <2>2
<1>3. ASSUME NEW p \in Proc, pc[p] # "idle", st[p] \in State, st[p].tok \in Token
      PROVE  ref'[st[p].tok] \in {call[p].name, Free}
  <2>1. st[p].tok = t => holder = Free
    BY <1>3, SentinelAssumption DEF Known, Busy
  <2>2. ref[st[p].tok] \in {call[p].name, Free}
    BY <1>3 DEF TokenInv, CallOwned, Owned
  <2> QED BY <1>1, <1>3, <2>1, <2>2
<1> QED BY <1>2, <1>3

LEMMA CommandOwned ==
  ASSUME "parse" \notin Faults, TokenInv, TypeInv', NEW p \in Proc, CommandStep(p),
         OthersUnchanged(p)
  PROVE  TokenInv'
<1>1. pc[p] \notin {"idle", "load"} /\ UNCHANGED <<file, call>>
  BY DEF CommandStep, HasAlias, DeleteStaleRoute, AddAlias, UndoAlias,
         EnsureAppleRdrAnchor, SkippedAliasIfaces, DumpMainRuleset, DumpFilter, DumpNat,
         DumpDummynet, Dump, LoadMainRuleset,
         PFLoadAnchor, AnchorHoldsRules, PFStatus, PFEnable,
         UnloadAfterFailedEnable, FlushForDown, ReleasePF, DeleteAlias,
         DeleteClonedRoute
<1>2. CASE PFEnable(p) /\ pc'[p] = "save"
  <2>1. PICK t \in Token : /\ ~Known(t)
                           /\ ref' = [ref EXCEPT ![t] = call[p].name]
                           /\ st' = [st EXCEPT ![p].tok = t]
                           /\ pc' = [pc EXCEPT ![p] = "save"]
    BY <1>2 DEF PFEnable, ParsePFToken, Goto, Abort, TokenInv, TypeInv, TypeOK
  <2>2. st[p] \in State /\ st \in [Proc -> State \cup {NoState}]
    BY <1>1, TypeFacts DEF TokenInv, TypeInv, TypeOK
  <2>3. st'[p].tok = t
    BY <2>1, <2>2, StateToken
  <2>4. ref'[t] = call[p].name
    BY <2>1 DEF TokenInv, TypeInv, TypeOK
  <2>5. t # NoToken
    BY SentinelAssumption
  <2>6. CallOwned(p)'
    BY <1>1, <2>3, <2>4, <2>5 DEF CallOwned, Owned
  <2>7. ASSUME NEW q \in Proc \ {p} PROVE CallOwned(q)'
    <3>1. /\ pc'[q] = pc[q] /\ st'[q] = st[q] /\ call'[q] = call[q]
      BY DEF OthersUnchanged
    <3>2. CallOwned(q)
      BY DEF TokenInv
    <3> QED BY <2>1, <3>1, <3>2, RefStep DEF CallOwned, Owned
  <2>8. ASSUME NEW n \in Name PROVE RecordOwned(n)'
    BY <1>1, <2>1, RefStep DEF TokenInv, RecordOwned, Owned
  <2> QED BY <2>6, <2>7, <2>8 DEF TokenInv
<1>3. CASE ReleasePF(p)
  <2>1. st[p].tok \in Token /\ st' = st /\ pc[p] = "release" /\ st[p].tok # NoToken
    BY <1>3, TokenHeld, SentinelAssumption DEF ReleasePF, BeforeToken
  <2>2. UNCHANGED ref \/ ref' = [ref EXCEPT ![st[p].tok] = Free]
    BY <1>3, <2>1 DEF ReleasePF
  <2>3. ASSUME NEW q \in Proc PROVE CallOwned(q)'
    <3>1. call'[q] = call[q] /\ st'[q] = st[q] /\ (q # p => pc'[q] = pc[q])
      BY <1>1, <2>1 DEF OthersUnchanged
    <3>2. CallOwned(q)
      BY DEF TokenInv
    <3>3. q = p => pc[q] \notin BeforeToken \cup {"idle"} /\ st[q].tok # NoToken
      BY <2>1 DEF BeforeToken
    <3>4. st[q] \in State /\ pc[q] # "idle" /\ st[q].tok \in Token
            => ref'[st[q].tok] \in {call[q].name, Free}
      BY <2>1, <2>2, <3>2, RefStep DEF CallOwned, Owned
    <3> QED BY <3>1, <3>2, <3>3, <3>4 DEF CallOwned, Owned
  <2>4. ASSUME NEW n \in Name PROVE RecordOwned(n)'
    BY <1>1, <2>1, <2>2, RefStep DEF TokenInv, RecordOwned, Owned
  <2> QED BY <2>3, <2>4 DEF TokenInv
<1>4. CASE UNCHANGED <<ref, st>> /\ ~(PFEnable(p) /\ pc'[p] = "save")
  <2>1. pc[p] \in BeforeToken /\ call[p].op = "up" => pc'[p] \in BeforeToken \cup {"idle"}
    BY <1>1, <1>4, SMTT(30) DEF TokenInv, TypeInv, TypeOK, CommandStep, HasAlias,
         DeleteStaleRoute, AddAlias, UndoAlias,
         EnsureAppleRdrAnchor, SkippedAliasIfaces, DumpMainRuleset, DumpFilter, DumpNat,
         DumpDummynet, Dump, LoadMainRuleset,
         PFLoadAnchor, AnchorHoldsRules, PFStatus, PFEnable,
         UnloadAfterFailedEnable, FlushForDown, ReleasePF, DeleteAlias,
         DeleteClonedRoute, EndPass, Abort, Goto, BeforeToken
  <2> QED BY <1>1, <1>4, <2>1, QuietStep
<1>5. PFEnable(p) => pc'[p] = "save" \/ UNCHANGED <<ref, st>>
  BY DEF PFEnable, Goto, TokenInv, TypeInv, TypeOK
<1> QED BY <1>2, <1>3, <1>4, <1>5
        DEF CommandStep, HasAlias, DeleteStaleRoute, AddAlias, UndoAlias,
         EnsureAppleRdrAnchor, SkippedAliasIfaces, DumpMainRuleset, DumpFilter, DumpNat,
         DumpDummynet, Dump, LoadMainRuleset,
         PFLoadAnchor, AnchorHoldsRules, PFStatus, UnloadAfterFailedEnable,
         FlushForDown, DeleteAlias, DeleteClonedRoute, HostUnchanged, hostVars

LEMMA RecordOwnedStep ==
  ASSUME TokenInv, TypeInv', NEW p \in Proc, RecordStep(p), OthersUnchanged(p)
  PROVE  TokenInv'
<1>1. UNCHANGED <<ref, call>> /\ pc[p] # "idle"
  BY DEF RecordStep, HostUnchanged, hostVars, LoadForUp, LoadRecord, SaveTruncate,
         SaveWrite, SaveFailed, ClearState
<1>2. ASSUME NEW q \in Proc \ {p} PROVE CallOwned(q)'
  BY <1>1 DEF TokenInv, CallOwned, Owned, OthersUnchanged
<1>3. CallOwned(p)'
  <2>1. CASE LoadRecord(p)
    <3>1. CASE pc'[p] = "idle"
      BY <3>1 DEF CallOwned
    <3>2. CASE pc'[p] # "idle"
      <4>1. file[call[p].name] \in State /\ st'[p] = file[call[p].name]
        BY <2>1, <3>2 DEF LoadRecord, Goto, TokenInv, TypeInv, TypeOK
      <4>2. RecordOwned(call[p].name)
        BY TypeFacts DEF TokenInv
      <4> QED BY <1>1, <4>1, <4>2, SentinelAssumption DEF RecordOwned, CallOwned, Owned
    <3> QED BY <3>1, <3>2
  <2>2. CASE ~LoadRecord(p)
    <3>1. UNCHANGED st
      BY <2>2 DEF RecordStep, LoadForUp, SaveTruncate, SaveWrite, SaveFailed, ClearState
    <3>2. pc[p] \in BeforeToken => pc'[p] \in BeforeToken \cup {"idle"}
      BY <2>2 DEF RecordStep, LoadForUp, SaveTruncate, SaveWrite, ClearState, Goto,
                  BeforeToken, TokenInv, TypeInv, TypeOK
    <3> QED BY <1>1, <3>1, <3>2 DEF TokenInv, CallOwned, Owned
  <2> QED BY <2>1, <2>2
<1>4. ASSUME NEW n \in Name PROVE RecordOwned(n)'
  <2>1. CASE file'[n] \in {file[n], NoFile, Torn}
    BY <1>1, <2>1, SentinelAssumption DEF TokenInv, RecordOwned, Owned
  <2>2. CASE SaveWrite(p) /\ n = call[p].name /\ file'[n] = st[p]
    <3>1. st[p].tok \in Token /\ Owned(st[p].tok, call[p].name)
      BY <2>2, TokenHeld DEF SaveWrite, BeforeToken
    <3> QED BY <1>1, <2>2, <3>1 DEF RecordOwned, Owned
  <2>3. CASE SaveWrite(p)
    <3>1. \E f \in Written(p) \cup {file[call[p].name], Torn} :
            file' = [file EXCEPT ![call[p].name] = f]
      BY <2>3 DEF SaveWrite
    <3>2. Written(p) \subseteq {file[call[p].name], st[p], Torn}
      BY DEF Written
    <3>3. DOMAIN file = Name
      BY DEF TokenInv, TypeInv, TypeOK
    <3>4. CASE n = call[p].name
      BY <2>1, <2>2, <2>3, <3>1, <3>2, <3>3, <3>4
    <3>5. CASE n # call[p].name
      BY <2>1, <3>1, <3>3, <3>5
    <3> QED BY <3>4, <3>5
  <2>4. ~SaveWrite(p) => file'[n] \in {file[n], NoFile, Torn}
    BY DEF RecordStep, LoadForUp, LoadRecord, SaveTruncate, SaveFailed, ClearState,
           TokenInv, TypeInv, TypeOK
  <2> QED BY <2>1, <2>3, <2>4
<1> QED BY <1>2, <1>3, <1>4 DEF TokenInv

LEMMA CallOwnedStep ==
  ASSUME TokenInv, TypeInv', NEW p \in Proc, CallStep(p), OthersUnchanged(p)
  PROVE  TokenInv'
<1>1. UNCHANGED <<file, ref>>
  BY DEF CallStep, Up, Down, Verify, Reassert, Begin, HostUnchanged, hostVars
<1>2. ASSUME NEW q \in Proc \ {p} PROVE CallOwned(q)'
  BY <1>1 DEF TokenInv, CallOwned, Owned, OthersUnchanged
<1>3. CallOwned(p)'
  <2>1. ASSUME NEW o \in Options, Up(p, o) PROVE CallOwned(p)'
    <3>1. /\ st'[p].tok = NoToken
          /\ call'[p].op = "up"
          /\ pc'[p] = "load"
      BY <2>1 DEF Up, Begin, Goto, TokenInv, TypeInv, TypeOK
    <3> QED BY <3>1, SentinelAssumption DEF CallOwned, BeforeToken
  <2>2. ASSUME NEW n \in Name, Down(p, n) \/ Verify(p, n) \/ Reassert(p, n)
        PROVE  CallOwned(p)'
    <3>1. st'[p] = NoState
      BY <2>2 DEF Down, Verify, Reassert, Begin, TokenInv, TypeInv, TypeOK
    <3> QED BY <3>1, SentinelAssumption DEF CallOwned
  <2> QED BY <2>1, <2>2 DEF CallStep
<1> QED BY <1>1, <1>2, <1>3 DEF TokenInv, RecordOwned, Owned

LEMMA OutsideOwned ==
  ASSUME TokenInv, TypeInv', OutsideStep
  PROVE  TokenInv'
<1>1. UNCHANGED <<file, pc, call, st>>
  BY DEF OutsideStep, callVars
<1>2. CASE UNCHANGED ref
  BY <1>1, <1>2 DEF TokenInv, RecordOwned, CallOwned, Owned
<1>3. CASE OutsideDisable
  BY <1>1, <1>3 DEF OutsideDisable, TokenInv, RecordOwned, CallOwned, Owned
<1>4. ASSUME NEW t \in Token, OutsideReference(t) PROVE TokenInv'
  <2>1. PICK holder \in {Outside, Free} :
          ref' = [ref EXCEPT ![t] = holder] /\ (holder = Free \/ ~Known(t))
    BY <1>4 DEF OutsideReference
  <2> QED BY <1>1, <2>1, RefStep DEF TokenInv, RecordOwned, CallOwned, Owned
<1> QED BY <1>2, <1>3, <1>4
        DEF OutsideStep, OutsideFlush, InternetSharing, OutsideReload, OutsideAliasLoss

LEMMA TokenStep ==
  ASSUME "parse" \notin Faults, TokenInv, [Next]_vars
  PROVE  TokenInv'
<1>1. TypeInv /\ TypeInv'
  BY TypeStep DEF TokenInv
<1>2. ASSUME NEW p \in Proc, CallStep(p) PROVE TokenInv'
  BY <1>1, <1>2, CallTypes, CallOwnedStep DEF TypedStep
<1>3. ASSUME NEW p \in Proc, RecordStep(p) PROVE TokenInv'
  BY <1>1, <1>3, RecordTypes, RecordOwnedStep DEF TypedStep
<1>4. ASSUME NEW p \in Proc, CommandStep(p) PROVE TokenInv'
  BY <1>1, <1>4, CommandTypes, CommandOwned DEF TypedStep
<1>5. ASSUME NEW p \in Proc, KillStep(p) PROVE TokenInv'
  <2>1. OthersUnchanged(p) /\ UNCHANGED <<file, ref, call>>
    BY <1>1, <1>5, KillTypes DEF TypedStep, KillStep, Kill, HostUnchanged, hostVars
  <2>2. pc'[p] = "idle"
    BY <1>1, <1>5 DEF KillStep, Kill, Goto, TypeInv, TypeOK
  <2>3. ASSUME NEW q \in Proc PROVE CallOwned(q)'
    BY <2>1, <2>2 DEF TokenInv, CallOwned, Owned, OthersUnchanged
  <2> QED BY <1>1, <2>1, <2>3 DEF TokenInv, RecordOwned, Owned
<1>6. CASE OutsideStep
  BY <1>1, <1>6, OutsideOwned
<1>7. CASE Reboot
  BY <1>1, <1>7, SentinelAssumption
     DEF Reboot, RebootCalls, TokenInv, RecordOwned, CallOwned
<1>8. CASE UNCHANGED vars
  BY <1>1, <1>8 DEF vars, pfVars, callVars, hostVars, TokenInv, RecordOwned, CallOwned, Owned
<1> QED BY <1>2, <1>3, <1>4, <1>5, <1>6, <1>7, <1>8 DEF Next

LEMMA ReferenceStep ==
  ASSUME "parse" \notin Faults, TokenInv, [Next]_vars
  PROVE  [RespectsReferences]_vars
<1> SUFFICES ASSUME NEW p \in Proc, NEW t \in Token, Steps(p),
                    ref[t] \notin {Free, call'[p].name}
             PROVE  ref'[t] = ref[t]
  BY DEF RespectsReferences
<1>1. TypeInv
  BY DEF TokenInv
<1>2. ASSUME NEW q \in Proc \ {p}, OthersUnchanged(q) PROVE FALSE
  BY <1>2 DEF OthersUnchanged, Steps
<1>3. ASSUME NEW q \in Proc, CommandStep(q), q = p PROVE ref'[t] = ref[t]
  <2>1. CASE PFEnable(p)
    BY <1>1, <2>1 DEF PFEnable, Known, TypeInv, TypeOK
  <2>2. CASE ReleasePF(p)
    <3>1. /\ st[p].tok # NoToken
          /\ ref[st[p].tok] \in {call[p].name, Free}
          /\ call' = call
      BY <2>2, TokenHeld, SentinelAssumption DEF ReleasePF, BeforeToken, Owned
    <3> QED BY <1>1, <2>2, <3>1 DEF ReleasePF, TypeInv, TypeOK
  <2> QED BY <1>3, <2>1, <2>2
          DEF CommandStep, HasAlias, DeleteStaleRoute, AddAlias, UndoAlias,
              EnsureAppleRdrAnchor, SkippedAliasIfaces, DumpMainRuleset, DumpFilter, DumpNat,
         DumpDummynet, Dump, LoadMainRuleset, PFLoadAnchor, AnchorHoldsRules, PFStatus,
              UnloadAfterFailedEnable, FlushForDown, DeleteAlias, DeleteClonedRoute,
              HostUnchanged, hostVars
<1>4. ASSUME NEW q \in Proc, CallStep(q) \/ RecordStep(q) \/ KillStep(q)
      PROVE  ref'[t] = ref[t]
  BY <1>4 DEF CallStep, RecordStep, KillStep, HostUnchanged, hostVars
<1>5. ASSUME NEW q \in Proc, CommandStep(q) PROVE ref'[t] = ref[t]
  BY <1>1, <1>2, <1>3, <1>5, CommandTypes DEF TypedStep
<1>6. CASE OutsideStep
  BY <1>6 DEF OutsideStep, callVars, Steps
<1>7. CASE Reboot
  BY <1>7 DEF Reboot, RebootCalls, Steps
<1>8. CASE UNCHANGED vars
  BY <1>8 DEF vars, pfVars, callVars, Steps
<1> QED BY <1>4, <1>5, <1>6, <1>7, <1>8 DEF Next

(***************************************************************************)
(* Unless `pfctl -E` output goes unparsed (applyDown then falls back to    *)
(* `pfctl -d`), no call ever drops a reference that another binding or     *)
(* other software holds: the token a record or a call carries is its own,  *)
(* or stale and then free, since the kernel hands out fresh tokens only.   *)
(***************************************************************************)
THEOREM ReferencesSafe ==
  ASSUME "parse" \notin Faults
  PROVE  Spec => ReferencesRespected
<1>1. Init => TokenInv
  BY TokenInit
<1>2. TokenInv /\ [Next]_vars => TokenInv'
  BY TokenStep
<1>3. TokenInv /\ [Next]_vars => [RespectsReferences]_vars
  BY ReferenceStep
<1> QED BY <1>1, <1>2, <1>3, PTL DEF Spec, ReferencesRespected

=============================================================================
