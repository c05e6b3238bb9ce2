--------------------------- MODULE Port80NftProps ---------------------------
(***************************************************************************)
(* What the Linux backend promises.                                        *)
(***************************************************************************)
EXTENDS Port80Nft, Port80Props

Labels ==
  {"idle", "load", "save", "write", "clear", "has", "alias", "drop", "table",
   "chain", "rule", "list", "untable", "undo", "teardown", "del"}

(***************************************************************************)
(* The type invariant of Port80 and Port80Nft.                             *)
(***************************************************************************)
TypeOK ==
  /\ file \in [Name -> State \cup {NoFile, Torn}]
  /\ pc \in [Proc -> Labels]
  /\ call \in [Proc -> [op: Ops, name: Name]]
  /\ st \in [Proc -> State \cup {NoState}]
  /\ todo \in [Proc -> SUBSET Alias]
  /\ fd \subseteq Proc
  /\ ret \in [Proc -> Results]
  /\ alias \subseteq Alias
  /\ table \in [Name -> Chain \cup {NoTable, NoChain}]
  /\ left \in [Proc -> SUBSET Rule]
  /\ calm \subseteq Proc

-----------------------------------------------------------------------------
(* What a call promises when it returns nil (Returned).                    *)

RulesIn(t) == IF t \in Chain THEN {r \in Rule : t[r] > 0} ELSE {}

(***************************************************************************)
(* Up returned nil: all its aliases are there, all its rules are in the    *)
(* table, and the state file records exactly this binding.                 *)
(***************************************************************************)
UpContract ==
  \A p \in Proc : Returned(p, "up", "ok") =>
     LET s == st[p] IN
     /\ s.aliases \subseteq alias
     /\ NftRules(s) \subseteq RulesIn(table[s.name])
     /\ file[s.name] = s

(***************************************************************************)
(* Reassert returned nil: the aliases and every recorded rule are back and *)
(* the record is intact.  reapply's comment: "`nft add rule` appends, so   *)
(* reloading in place would stack duplicates" - whatever was in the table  *)
(* before and however often it is healed, it holds each rule exactly once  *)
(* and nothing else, as long as the table can be dropped.                  *)
(***************************************************************************)
ReassertContract ==
  \A p \in Proc : Returned(p, "reassert", "ok") =>
     LET s == st[p]
         t == table[s.name]
     IN
     /\ s.aliases \subseteq alias
     /\ NftRules(s) \subseteq RulesIn(t)
     /\ "unload" \notin Faults =>
          t = [r \in Rule |-> IF r \in NftRules(s) THEN 1 ELSE 0]
     /\ file[s.name] = s

(***************************************************************************)
(* Verify returned nil: the aliases and a rule were there together, though *)
(* they were read by separate commands.  One rule is enough: that all of   *)
(* them are there, as verifyUp's comment says, is not looked at.           *)
(***************************************************************************)
VerifyContract ==
  \A p \in Proc : Returned(p, "verify", "ok") =>
     /\ st[p].aliases \subseteq alias
     /\ RulesIn(table[call[p].name]) # {}

(***************************************************************************)
(* Down returned nil: table, aliases and record are gone.  Unlike on macOS *)
(* this holds whichever commands may fail, as no error is dropped.         *)
(***************************************************************************)
DownContract ==
  \A p \in Proc : Returned(p, "down", "ok") =>
     LET s == st[p] IN
     /\ table[s.name] = NoTable
     /\ s.aliases \cap alias = {}
     /\ file[s.name] = NoFile

=============================================================================
