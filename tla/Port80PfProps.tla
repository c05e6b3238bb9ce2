---------------------------- MODULE Port80PfProps ----------------------------
(***************************************************************************)
(* What the macOS backend promises.                                        *)
(***************************************************************************)
EXTENDS Port80Pf, Port80Props

Labels ==
  {"idle", "load", "save", "write", "clear",
   "has", "alias", "add", "undo", "wild", "skip",
   "dump", "dumpnat", "dumpdummynet", "main", "rules", "rdr",
   "status", "enable", "unload", "teardown", "release", "del", "unroute"}

(***************************************************************************)
(* The type invariant of Port80 and Port80Pf.                              *)
(***************************************************************************)
TypeOK ==
  /\ file \in [Name -> State \cup {NoFile, Torn}]
  /\ pc \in [Proc -> Labels]
  /\ call \in [Proc -> [op: Ops, name: Name]]
  /\ st \in [Proc -> State \cup {NoState}]
  /\ todo \in [Proc -> SUBSET Alias]
  /\ fd \subseteq Proc
  /\ ret \in [Proc -> Results]
  /\ alias \subseteq Alias
  /\ reject \subseteq Alias
  /\ undeleted \subseteq Alias
  /\ anchor \in [Name -> SUBSET Rule]
  /\ ref \in [Token -> Name \cup {Outside, Free}]
  /\ skip \subseteq Iface
  /\ main \subseteq Attachments
  /\ dump \in [Proc -> SUBSET Attachments]
  /\ calm \subseteq Proc

-----------------------------------------------------------------------------
(* What a call promises when it returns nil (Returned).                    *)

(***************************************************************************)
(* The four legs verifyUp checks.                                          *)
(***************************************************************************)
LegsHold(s) ==
  /\ s.aliases \subseteq alias
  /\ anchor[s.name] # {}
  /\ PFEnabled
  /\ IfacesOf(s) \cap skip = {}

(***************************************************************************)
(* Up returned nil: its aliases are there; no stale route shadows them but *)
(* one that `route delete` failed to delete; its rules are loaded where pf *)
(* evaluates them, pf is on by a reference of its own, and the state file  *)
(* records exactly this binding.                                           *)
(***************************************************************************)
UpContract ==
  \A p \in Proc : Returned(p, "up", "ok") =>
     LET s == st[p] IN
     /\ s.aliases \subseteq alias
     /\ s.aliases \cap reject \subseteq undeleted
     /\ anchor[s.name] = PFAnchor(s)
     /\ Wildcard \in main
     /\ PFEnabled
     /\ s.tok # NoToken => ref[s.tok] = s.name
     /\ file[s.name] = s

(***************************************************************************)
(* Reassert returned nil: whatever was broken before, every leg that       *)
(* Verify looks at holds again, the rules are the recorded ones, and the   *)
(* record is what Reassert converged to.                                   *)
(***************************************************************************)
ReassertContract ==
  \A p \in Proc : Returned(p, "reassert", "ok") =>
     LET s == st[p] IN
     /\ LegsHold(s)
     /\ anchor[s.name] = PFAnchor(s)
     /\ Wildcard \in main
     /\ file[s.name] = s

(***************************************************************************)
(* Verify returned nil: the four legs hold together, although they were    *)
(* read by separate commands.                                              *)
(***************************************************************************)
VerifyContract ==
  \A p \in Proc : Returned(p, "verify", "ok") => LegsHold(st[p])

(***************************************************************************)
(* Down returned nil: aliases and record are gone, and so are the routes   *)
(* of the aliases but those that `route delete` failed to delete; rules    *)
(* and enable reference are gone too unless their commands, which are      *)
(* best-effort in applyDown as well, may fail ("unload").                  *)
(***************************************************************************)
DownContract ==
  \A p \in Proc : Returned(p, "down", "ok") =>
     LET s == st[p] IN
     /\ s.aliases \cap alias = {}
     /\ s.aliases \cap reject \subseteq undeleted
     /\ file[s.name] = NoFile
     /\ "unload" \notin Faults =>
          /\ anchor[s.name] = {}
          /\ s.tok # NoToken => ref[s.tok] # s.name

-----------------------------------------------------------------------------
(* Resources over many calls.                                              *)

Held(n) == {t \in Token : ref[t] = n}

(***************************************************************************)
(* No pf reference leaks, however often the binding is healed: between     *)
(* calls, a name holds at most the reference its state file records.       *)
(* (One call at a time per name, no kill, no failing save or release.)     *)
(***************************************************************************)
NoReferenceLeak ==
  \A n \in Name : ~Working(n) =>
     \A t \in Held(n) : file[n] \in State /\ file[n].tok = t

(***************************************************************************)
(* Every failure path rolls back: between calls, a name without a state    *)
(* file has no rules loaded and none of its aliases on an interface.       *)
(* (Same instances, and no failing alias removal.)                         *)
(***************************************************************************)
NoOrphans ==
  \A n \in Name : ~Working(n) /\ file[n] = NoFile =>
     anchor[n] = {} /\ AliasesOf(n) \cap alias = {}

(***************************************************************************)
(* A step of p leaves references alone that are not its binding's.         *)
(***************************************************************************)
RespectsReferences ==
  \A p \in Proc, t \in Token :
     Steps(p) /\ ref[t] \notin {Free, call'[p].name} => ref'[t] = ref[t]

(***************************************************************************)
(* A step of a call on one name never takes away a pf reference that       *)
(* another binding or other software holds, even with calls racing, tokens *)
(* gone stale and state files overwritten.  ("parse" \notin Faults.)       *)
(***************************************************************************)
ReferencesRespected == [][RespectsReferences]_vars

(***************************************************************************)
(* A step of a Reassert takes nothing away from its binding; nor, while    *)
(* nobody else changes it, from the main ruleset, where dummynet anchors   *)
(* are an exception, since clearPFSkip tolerates a pfctl without them.     *)
(***************************************************************************)
TakesNothingAway ==
  \A p \in Proc :
     Steps(p) /\ Busy(p) /\ call[p].op = "reassert" =>
        /\ alias \subseteq alias'
        /\ anchor[call[p].name] # {} => anchor'[call[p].name] # {}
        /\ PFEnabled => PFEnabled'
        /\ p \in calm => main \subseteq main' \cup InSection(Stock, "dummynet")

(***************************************************************************)
(* Reassert heals without tearing traffic down first: none of its steps    *)
(* takes away an alias, empties the anchor or switches pf off, in whatever *)
(* state it finds the host and whatever else runs.  The main ruleset that  *)
(* it dumps in parts and loads back keeps its wildcard and the attachments *)
(* of other services - unless somebody else changes it meanwhile, see      *)
(* NeverLoadsWithoutWildcard.                                              *)
(***************************************************************************)
ReassertInPlace == [][TakesNothingAway]_vars

-----------------------------------------------------------------------------
(* Statements of the repository that the code does not live up to.  Each   *)
(* is checked by a run of its own, which finds a counterexample.           *)

(***************************************************************************)
(* Verify's comment: it "checks that the recorded binding for name is      *)
(* actually in force", and "loaded rules are never evaluated" is what it   *)
(* warns of.  But every binding also has rules on lo0, while only the      *)
(* interfaces of its aliases are looked at for `skip` flags; and the       *)
(* com.apple/* wildcard, without which no rule is evaluated, not at all.   *)
(***************************************************************************)
VerifiedRulesEvaluated ==
  \A p \in Proc : Returned(p, "verify", "ok") =>
     /\ Wildcard \in main
     /\ \A r \in anchor[call[p].name] : r.on \notin skip

(***************************************************************************)
(* clearPFSkip's comment: "Refuse to load a ruleset that lost the          *)
(* com.apple wildcard".  But a wildcard in any of the dumped sections      *)
(* satisfies its check, also when the one that evaluates redirects went    *)
(* between reapply's own look at it and the dump of its section.           *)
(***************************************************************************)
NeverLoadsWithoutWildcard ==
  [][\A p \in Proc :
        pc[p] = "main" /\ pc'[p] = "rules" => Wildcard \in main']_vars

=============================================================================
