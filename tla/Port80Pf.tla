------------------------------ MODULE Port80Pf ------------------------------
(***************************************************************************)
(* The macOS backend of package port80 (port80/port80_darwin.go): alias    *)
(* IPs added with ifconfig, redirects loaded into the pf sub-anchor        *)
(* com.apple/<name>, pf kept on by an enable reference.                    *)
(*                                                                         *)
(* The state is what the commands act on: interfaces, routing table, pf.   *)
(* Each ifconfig, route or pfctl invocation is one step.  Between any two  *)
(* of them other root processes of this package run their own commands     *)
(* (same name or another), and the rest of the machine interferes with pf  *)
(* in the ways CAVEATS.md lists.                                           *)
(***************************************************************************)
EXTENDS Port80

CONSTANTS
  Iface,         \* network interfaces
  IfaceOf,       \* Alias.Iface of each alias
  Loopback,      \* "lo0"
  Outside,       \* holder of pf references taken by other software
  Free,          \* a token that keeps nothing enabled
  Interference   \* kinds of outside interference in this instance

InterferenceKinds ==
  {"flush", "disable", "sharing", "reload", "alias", "refs", "reboot"}

ASSUME IfaceAssumption == IfaceOf \in [Alias -> Iface] /\ Loopback \in Iface

ASSUME HolderAssumption == {Outside, Free} \cap Name = {} /\ Outside # Free

ASSUME InterferenceAssumption == Interference \subseteq InterferenceKinds

VARIABLES
  alias,     \* alias IPs their interfaces carry
  reject,    \* alias IPs shadowed by an orphaned REJECT host route
  undeleted, \* history: those of them that a `route delete` failed to delete
  anchor,    \* anchor[n]: the rules in sub-anchor com.apple/<n>
  ref,       \* ref[t]: who holds the enable reference t, or Free
  skip,      \* interfaces flagged `set skip`
  main,      \* anchors attached to the main ruleset
  dump       \* dump[p]: what clearPFSkip has read of the main ruleset

hostVars == <<alias, reject, undeleted, anchor, ref, skip, main>>
pfVars == <<callVars, hostVars, dump>>
vars == <<pfVars, calm>>

(***************************************************************************)
(* The main ruleset in the sections pfctl shows one by one: the stock      *)
(* ruleset attaches com.apple/* in each of them, Internet Sharing / vmnet  *)
(* adds translation anchors of its own at run time.  Redirects are         *)
(* evaluated through the wildcard of the translation section.              *)
(***************************************************************************)
Section == {"filter", "nat", "dummynet"}

Stock == Section \X {"apple"}

Attachments == Stock \cup {<<"nat", "vmnet">>}

Wildcard == <<"nat", "apple">>

InSection(rules, section) == {a \in rules : a[1] = section}

(***************************************************************************)
(* renderPFAnchor: two rules per (alias, port), the LAN rule keeping the   *)
(* alias as its target and the host-local rule going to 127.0.0.1.         *)
(***************************************************************************)
Rule == [on: Iface, to: Alias, port: Port, target: {"alias", "localhost"}]

PFAnchor(s) ==
  {r \in Rule :
     /\ r.to \in s.aliases
     /\ r.port \in s.ports
     /\ \/ r.target = "alias" /\ r.on = IfaceOf[r.to]
        \/ r.target = "localhost" /\ r.on = Loopback}

(***************************************************************************)
(* pf is enabled while anybody holds a reference; `pfctl -d` drops all.    *)
(***************************************************************************)
PFEnabled == \E t \in Token : ref[t] # Free

IfacesOf(s) == {IfaceOf[a] : a \in s.aliases}

-----------------------------------------------------------------------------
(* What a step changes beside pc[p], ret[p] and the variables it names.    *)

HostUnchanged == UNCHANGED hostVars

(***************************************************************************)
(* A command failed: applyUp removes the aliases it has added, reapply and *)
(* verifyUp just return the error.                                         *)
(***************************************************************************)
Abort(p) ==
  LET done == st[p].aliases \ todo[p]
      undo == call[p].op = "up" /\ done # {}
  IN /\ Note(p, "err")
     /\ Loop(p, IF undo THEN done ELSE {})
     /\ Goto(p, IF undo THEN "undo" ELSE "idle")

-----------------------------------------------------------------------------
(* Aliases.                                                                *)

(***************************************************************************)
(* The first loop of verifyUp and of reapply: `ifconfig <iface>`.          *)
(***************************************************************************)
HasAlias(p) ==
  /\ pc[p] = "has"
  /\ \/ /\ Cur(p) \in alias
        /\ EndPass(p, "has", IF call[p].op = "verify" THEN "rdr" ELSE "wild")
        /\ UNCHANGED ret
     \/ /\ Cur(p) \notin alias
        /\ call[p].op = "reassert"
        /\ Goto(p, "alias")
        /\ UNCHANGED <<todo, ret>>
     \/ /\ Cur(p) \notin alias
        /\ call[p].op = "verify"
        /\ Abort(p)
     \/ "pf" \in Faults /\ Abort(p)
  /\ HostUnchanged /\ UNCHANGED <<file, fd, call, st, dump>>

(***************************************************************************)
(* `route -n delete <ip>`; the error is dropped.                           *)
(***************************************************************************)
DeleteRoute(a) ==
  \/ /\ reject' = reject \ {a}
     /\ undeleted' = undeleted \ {a}
  \/ /\ "route" \in Faults
     /\ undeleted' = undeleted \cup (reject \cap {a})
     /\ UNCHANGED reject

\* Mutant: the alias is added over whatever route is there.
KeepStaleRoute(p) ==
  /\ pc[p] = "alias"
  /\ Goto(p, "add")
  /\ UNCHANGED <<file, fd, call, st, todo, ret, dump>> /\ HostUnchanged

(***************************************************************************)
(* A stale route is deleted before the alias is added.                     *)
(***************************************************************************)
DeleteStaleRoute(p) ==
  /\ pc[p] = "alias"
  /\ DeleteRoute(Cur(p))
  /\ Goto(p, "add")
  /\ UNCHANGED <<file, fd, call, st, todo, ret, dump>>
  /\ UNCHANGED <<alias, anchor, ref, skip, main>>

(***************************************************************************)
(* `ifconfig <iface> alias <ip>`.                                          *)
(***************************************************************************)
AddAlias(p) ==
  /\ pc[p] = "add"
  /\ \/ /\ alias' = alias \cup {Cur(p)}
        /\ EndPass(p, IF call[p].op = "up" THEN "alias" ELSE "has", "wild")
        /\ UNCHANGED ret
     \/ "add" \in Faults /\ Abort(p) /\ UNCHANGED alias
  /\ UNCHANGED <<file, fd, call, st, dump, reject, undeleted, anchor, ref, skip, main>>

(***************************************************************************)
(* `ifconfig <iface> -alias <ip>`.  It may leave the cloned host route     *)
(* behind ("ifconfig usually removes it").                                 *)
(***************************************************************************)
RemoveAlias(a) ==
  /\ alias' = alias \ {a}
  /\ reject' \in {reject, IF a \in alias THEN reject \cup {a} ELSE reject}
  /\ UNCHANGED undeleted

(***************************************************************************)
(* applyUp's roll-back loop; the errors are dropped.                       *)
(***************************************************************************)
UndoAlias(p) ==
  /\ pc[p] = "undo"
  /\ \/ RemoveAlias(Cur(p))
     \/ "del" \in Faults /\ UNCHANGED <<alias, reject, undeleted>>
  /\ EndPass(p, "undo", "idle")
  /\ UNCHANGED <<file, fd, call, st, ret, dump, anchor, ref, skip, main>>

-----------------------------------------------------------------------------
(* installPFRedirect and the pf half of reapply.                           *)

\* Mutant: the rules are loaded whether or not they will be evaluated.
SkipEnsureAppleRdrAnchor(p) ==
  /\ pc[p] = "wild"
  /\ Goto(p, IF call[p].op = "up" THEN "rules" ELSE "skip")
  /\ UNCHANGED <<todo, ret>>
  /\ HostUnchanged /\ UNCHANGED <<file, fd, call, st, dump>>

(***************************************************************************)
(* ensureAppleRdrAnchor.                                                   *)
(***************************************************************************)
EnsureAppleRdrAnchor(p) ==
  /\ pc[p] = "wild"
  /\ \/ /\ Wildcard \in main
        /\ Goto(p, IF call[p].op = "up" THEN "rules" ELSE "skip")
        /\ UNCHANGED <<todo, ret>>
     \/ Wildcard \notin main /\ Abort(p)
     \/ "pf" \in Faults /\ Abort(p)
  /\ HostUnchanged /\ UNCHANGED <<file, fd, call, st, dump>>

(***************************************************************************)
(* skippedAliasIfaces, the last check of verifyUp and a branch of reapply. *)
(***************************************************************************)
SkippedAliasIfaces(p) ==
  LET hit == IfacesOf(st[p]) \cap skip IN
  /\ pc[p] = "skip"
  /\ \/ /\ call[p].op = "verify"
        /\ IF hit = {} THEN Goto(p, "idle") /\ UNCHANGED <<todo, ret>>
                       ELSE Abort(p)
     \/ /\ call[p].op = "reassert"
        /\ Goto(p, IF hit = {} THEN "rules" ELSE "dump")
        /\ UNCHANGED <<todo, ret>>
     \/ "pf" \in Faults /\ Abort(p)
  /\ HostUnchanged /\ UNCHANGED <<file, fd, call, st, dump>>

(***************************************************************************)
(* clearPFSkip reads the live main ruleset section by section ...          *)
(***************************************************************************)
Dump(p, section, label) ==
  /\ dump' = [dump EXCEPT ![p] = @ \cup InSection(main, section)]
  /\ Goto(p, label)
  /\ UNCHANGED <<todo, ret>>

DumpFilter(p) ==
  /\ pc[p] = "dump"
  /\ \/ Dump(p, "filter", "dumpnat")
     \/ "pf" \in Faults /\ Abort(p) /\ UNCHANGED dump
  /\ HostUnchanged /\ UNCHANGED <<file, fd, call, st>>

\* Mutant: this dump may fail like the one of dummynet, and is taken as empty.
DumpNatOrNothing(p) ==
  /\ pc[p] = "dumpnat"
  /\ \/ Dump(p, "nat", "dumpdummynet")
     \/ "pf" \in Faults /\ Goto(p, "dumpdummynet") /\ UNCHANGED <<dump, todo, ret>>
  /\ HostUnchanged /\ UNCHANGED <<file, fd, call, st>>

DumpNat(p) ==
  /\ pc[p] = "dumpnat"
  /\ \/ Dump(p, "nat", "dumpdummynet")
     \/ /\ "pf" \in Faults /\ Abort(p)
        /\ dump' = [dump EXCEPT ![p] = {}]
  /\ HostUnchanged /\ UNCHANGED <<file, fd, call, st>>

(***************************************************************************)
(* ... goes on without the dummynet section when that cannot be dumped,    *)
(* refuses to load a ruleset without com.apple/* in it - in whichever      *)
(* section -                                                               *)
(***************************************************************************)
DumpDummynet(p) ==
  /\ pc[p] = "dumpdummynet"
  /\ \E got \in {InSection(main, "dummynet")}
                 \cup (IF "pf" \in Faults THEN {{}} ELSE {}) :
       IF Stock \cap (dump[p] \cup got) # {}
         THEN /\ dump' = [dump EXCEPT ![p] = @ \cup got]
              /\ Goto(p, "main")
              /\ UNCHANGED <<todo, ret>>
         ELSE /\ Abort(p)
              /\ dump' = [dump EXCEPT ![p] = {}]
  /\ HostUnchanged /\ UNCHANGED <<file, fd, call, st>>

DumpMainRuleset(p) == DumpFilter(p) \/ DumpNat(p) \/ DumpDummynet(p)

(***************************************************************************)
(* ... and loads what it read, which clears every skip flag.               *)
(***************************************************************************)
LoadMainRuleset(p) ==
  /\ pc[p] = "main"
  /\ \/ /\ main' = dump[p]
        /\ skip' = {}
        /\ Goto(p, "rules")
        /\ UNCHANGED <<todo, ret>>
     \/ "pf" \in Faults /\ Abort(p) /\ UNCHANGED <<main, skip>>
  /\ dump' = [dump EXCEPT ![p] = {}]
  /\ UNCHANGED <<file, fd, call, st, alias, reject, undeleted, anchor, ref>>

(***************************************************************************)
(* pfLoadAnchor replaces the contents of the sub-anchor.                   *)
(***************************************************************************)
PFLoadAnchor(p) ==
  /\ pc[p] = "rules"
  /\ \/ /\ anchor' = [anchor EXCEPT ![call[p].name] = PFAnchor(st[p])]
        /\ Goto(p, IF call[p].op = "up" THEN "enable" ELSE "status")
        /\ UNCHANGED <<todo, ret>>
     \/ "pf" \in Faults /\ Abort(p) /\ UNCHANGED anchor
  /\ UNCHANGED <<file, fd, call, st, dump, alias, reject, undeleted, ref, skip, main>>

\* Mutant: an empty sub-anchor passes.
AnchorExists(p) ==
  /\ pc[p] = "rdr"
  /\ Goto(p, "status")
  /\ UNCHANGED <<file, fd, call, st, todo, ret, dump>> /\ HostUnchanged

(***************************************************************************)
(* verifyUp: does the sub-anchor list any "rdr" line?                      *)
(***************************************************************************)
AnchorHoldsRules(p) ==
  /\ pc[p] = "rdr"
  /\ \/ /\ anchor[call[p].name] # {}
        /\ Goto(p, "status")
        /\ UNCHANGED <<todo, ret>>
     \/ anchor[call[p].name] = {} /\ Abort(p)
     \/ "pf" \in Faults /\ Abort(p)
  /\ HostUnchanged /\ UNCHANGED <<file, fd, call, st, dump>>

\* Mutants: reapply takes a token on every heal, or never.
PFStatusAlwaysEnable(p) ==
  /\ pc[p] = "status"
  /\ IF call[p].op = "verify" /\ ~PFEnabled
       THEN Abort(p)
       ELSE /\ Goto(p, IF call[p].op = "verify" THEN "skip" ELSE "enable")
            /\ UNCHANGED <<todo, ret>>
  /\ UNCHANGED <<file, fd, call, st, dump>> /\ HostUnchanged

PFStatusNeverEnable(p) ==
  /\ pc[p] = "status"
  /\ IF call[p].op = "verify" /\ ~PFEnabled
       THEN Abort(p)
       ELSE /\ Goto(p, IF call[p].op = "verify" THEN "skip" ELSE "save")
            /\ UNCHANGED <<todo, ret>>
  /\ UNCHANGED <<file, fd, call, st, dump>> /\ HostUnchanged

(***************************************************************************)
(* pfEnabled.  reapply takes a fresh token only if pf is down.             *)
(***************************************************************************)
PFStatus(p) ==
  /\ pc[p] = "status"
  /\ \/ /\ call[p].op = "verify"
        /\ IF PFEnabled THEN Goto(p, "skip") /\ UNCHANGED <<todo, ret>>
                        ELSE Abort(p)
     \/ /\ call[p].op = "reassert"
        /\ Goto(p, IF PFEnabled THEN "save" ELSE "enable")
        /\ UNCHANGED <<todo, ret>>
     \/ "pf" \in Faults /\ Abort(p)
  /\ HostUnchanged /\ UNCHANGED <<file, fd, call, st, dump>>

(***************************************************************************)
(* Tokens the kernel or a running call or state file still knows.  The     *)
(* kernel never hands one of them out again.                               *)
(***************************************************************************)
Known(t) ==
  \/ ref[t] # Free
  \/ \E n \in Name : file[n] \in State /\ file[n].tok = t
  \/ \E p \in Proc : Busy(p) /\ st[p] # NoState /\ st[p].tok = t

\* Mutant: something that is no token is recorded as one.
ParseAnything(t) == {t, "garbage"}

(***************************************************************************)
(* parsePFToken: what gets recorded of the token t.                       *)
(***************************************************************************)
ParsePFToken(t) == {t} \cup (IF "parse" \in Faults THEN {NoToken} ELSE {})

(***************************************************************************)
(* `pfctl -E`.  The number of tokens bounds the model.                     *)
(***************************************************************************)
PFEnable(p) ==
  /\ pc[p] = "enable"
  /\ \/ \E t \in Token :
          /\ ~Known(t)
          /\ ref' = [ref EXCEPT ![t] = call[p].name]
          /\ \E tok \in ParsePFToken(t) : st' = [st EXCEPT ![p].tok = tok]
          /\ Goto(p, "save")
          /\ UNCHANGED <<todo, ret>>
     \/ /\ "pf" \in Faults
        /\ IF call[p].op = "up"
             THEN Note(p, "err") /\ Goto(p, "unload") /\ UNCHANGED todo
             ELSE Abort(p)
        /\ UNCHANGED <<ref, st>>
  /\ UNCHANGED <<file, fd, call, dump, alias, reject, undeleted, anchor, skip, main>>

-----------------------------------------------------------------------------
(* applyDown, and the unloading step of installPFRedirect.                 *)

(***************************************************************************)
(* `pfctl -a com.apple/<name> -F all`; the error is dropped.               *)
(***************************************************************************)
FlushAnchor(p) ==
  \/ anchor' = [anchor EXCEPT ![call[p].name] = {}]
  \/ "unload" \in Faults /\ UNCHANGED anchor

\* Mutant: the rules stay loaded when pf cannot be enabled.
AbortAfterFailedEnable(p) ==
  /\ pc[p] = "unload"
  /\ Abort(p)
  /\ UNCHANGED <<file, fd, call, st, dump>> /\ HostUnchanged

UnloadAfterFailedEnable(p) ==
  /\ pc[p] = "unload"
  /\ FlushAnchor(p)
  /\ Abort(p)
  /\ UNCHANGED <<file, fd, call, st, dump, alias, reject, undeleted, ref, skip, main>>

FlushForDown(p) ==
  /\ pc[p] = "teardown"
  /\ FlushAnchor(p)
  /\ Goto(p, "release")
  /\ UNCHANGED <<file, fd, call, st, todo, ret, dump>>
  /\ UNCHANGED <<alias, reject, undeleted, ref, skip, main>>

\* Mutant: `pfctl -d` although a token is recorded.
ReleasePFBluntly(p) ==
  /\ pc[p] = "release"
  /\ ref' = [u \in Token |-> Free]
  /\ Loop(p, st[p].aliases)
  /\ Goto(p, "del")
  /\ UNCHANGED <<file, fd, call, st, ret, dump, alias, reject, undeleted, anchor, skip, main>>

(***************************************************************************)
(* `pfctl -X <token>`, or `pfctl -d` when no token is recorded.            *)
(***************************************************************************)
ReleasePF(p) ==
  LET t == st[p].tok IN
  /\ pc[p] = "release"
  /\ \/ /\ t # NoToken
        /\ ref' = [ref EXCEPT ![t] = Free]
     \/ /\ t = NoToken
        /\ ref' = [u \in Token |-> Free]
     \/ "unload" \in Faults /\ UNCHANGED ref
  /\ Loop(p, st[p].aliases)
  /\ Goto(p, "del")
  /\ UNCHANGED <<file, fd, call, st, ret, dump, alias, reject, undeleted, anchor, skip, main>>

DeleteAlias(p) ==
  /\ pc[p] = "del"
  /\ \/ RemoveAlias(Cur(p)) /\ UNCHANGED ret
     \/ "del" \in Faults /\ Note(p, "err") /\ UNCHANGED <<alias, reject, undeleted>>
  /\ Goto(p, "unroute")
  /\ UNCHANGED <<file, fd, call, st, todo, dump, anchor, ref, skip, main>>

\* Mutant: the cloned host route is left to ifconfig.
LeaveClonedRoute(p) ==
  /\ pc[p] = "unroute"
  /\ EndPass(p, "del", IF call[p].op = "down" THEN "clear" ELSE "idle")
  /\ UNCHANGED <<file, fd, call, st, ret, dump>> /\ HostUnchanged

DeleteClonedRoute(p) ==
  /\ pc[p] = "unroute"
  /\ DeleteRoute(Cur(p))
  /\ EndPass(p, "del", IF call[p].op = "down" THEN "clear" ELSE "idle")
  /\ UNCHANGED <<file, fd, call, st, ret, dump, alias, anchor, ref, skip, main>>

-----------------------------------------------------------------------------
(* The steps of the package.                                               *)

CallStep(p) ==
  /\ \/ \E o \in Options : Up(p, o)
     \/ \E n \in Name : Down(p, n) \/ Verify(p, n) \/ Reassert(p, n)
  /\ HostUnchanged /\ UNCHANGED dump

RecordStep(p) ==
  /\ \/ LoadForUp(p) \/ LoadRecord(p)
     \/ SaveTruncate(p) \/ SaveWrite(p) \/ ClearState(p)
  /\ HostUnchanged /\ UNCHANGED dump

CommandStep(p) ==
  \/ HasAlias(p) \/ DeleteStaleRoute(p) \/ AddAlias(p) \/ UndoAlias(p)
  \/ EnsureAppleRdrAnchor(p) \/ SkippedAliasIfaces(p)
  \/ DumpMainRuleset(p) \/ LoadMainRuleset(p) \/ PFLoadAnchor(p)
  \/ AnchorHoldsRules(p) \/ PFStatus(p) \/ PFEnable(p)
  \/ UnloadAfterFailedEnable(p) \/ FlushForDown(p) \/ ReleasePF(p)
  \/ DeleteAlias(p) \/ DeleteClonedRoute(p)

KillStep(p) ==
  Kill(p) /\ HostUnchanged /\ dump' = [dump EXCEPT ![p] = {}]

-----------------------------------------------------------------------------
(* The rest of the machine (CAVEATS.md).                                   *)

(***************************************************************************)
(* Another tool flushes a sub-anchor.                                      *)
(***************************************************************************)
OutsideFlush(n) ==
  /\ "flush" \in Interference
  /\ anchor' = [anchor EXCEPT ![n] = {}]
  /\ UNCHANGED <<alias, reject, undeleted, ref, skip, main>>

(***************************************************************************)
(* "A blunt `pfctl -d` disables pf regardless of anyone's references."     *)
(***************************************************************************)
OutsideDisable ==
  /\ "disable" \in Interference
  /\ ref' = [t \in Token |-> Free]
  /\ UNCHANGED <<alias, reject, undeleted, anchor, skip, main>>

(***************************************************************************)
(* Internet Sharing attaches its anchors and sets `skip on lo0`.           *)
(***************************************************************************)
InternetSharing ==
  /\ "sharing" \in Interference
  /\ main' = main \cup {<<"nat", "vmnet">>}
  /\ skip' = {Loopback}
  /\ UNCHANGED <<alias, reject, undeleted, anchor, ref>>

(***************************************************************************)
(* `pfctl -f` by another tool: an arbitrary main ruleset.                  *)
(***************************************************************************)
OutsideReload ==
  /\ "reload" \in Interference
  /\ main' \in SUBSET Attachments
  /\ skip' \in SUBSET Iface
  /\ UNCHANGED <<alias, reject, undeleted, anchor, ref>>

(***************************************************************************)
(* An interface loses an alias IP, its host route perhaps left behind.     *)
(***************************************************************************)
OutsideAliasLoss(a) ==
  /\ "alias" \in Interference
  /\ RemoveAlias(a)
  /\ UNCHANGED <<anchor, ref, skip, main>>

(***************************************************************************)
(* Other software takes and drops enable references of its own.            *)
(***************************************************************************)
OutsideReference(t) ==
  /\ "refs" \in Interference
  /\ \/ ~Known(t) /\ ref' = [ref EXCEPT ![t] = Outside]
     \/ ref[t] = Outside /\ ref' = [ref EXCEPT ![t] = Free]
  /\ UNCHANGED <<alias, reject, undeleted, anchor, skip, main>>

OutsideStep ==
  /\ \/ \E n \in Name : OutsideFlush(n)
     \/ OutsideDisable \/ InternetSharing \/ OutsideReload
     \/ \E a \in Alias : OutsideAliasLoss(a)
     \/ \E t \in Token : OutsideReference(t)
  /\ UNCHANGED callVars /\ UNCHANGED dump

HostInit ==
  /\ alias = {}
  /\ reject = {}
  /\ undeleted = {}
  /\ anchor = [n \in Name |-> {}]
  /\ ref = [t \in Token |-> Free]
  /\ skip = {}
  /\ main = Stock

Reboot ==
  /\ "reboot" \in Interference
  /\ RebootCalls
  /\ alias' = {}
  /\ reject' = {}
  /\ undeleted' = {}
  /\ anchor' = [n \in Name |-> {}]
  /\ ref' = [t \in Token |-> Free]
  /\ skip' = {}
  /\ main' = Stock
  /\ dump' = [p \in Proc |-> {}]

-----------------------------------------------------------------------------
(* The specification.                                                      *)

(***************************************************************************)
(* Everything the binding n stands on.                                     *)
(***************************************************************************)
Footprint(n) ==
  << file[n], anchor[n], AliasesOf(n) \cap alias, AliasesOf(n) \cap reject,
     {t \in Token : ref[t] = n}, PFEnabled, skip, main >>

(***************************************************************************)
(* History: a process stays calm while the others leave its footprint as   *)
(* it is.                                                                  *)
(***************************************************************************)
Observe(actor, entering) ==
  calm' = {q \in calm \cup entering :
             \/ q \in actor
             \/ Footprint(call[q].name)' = Footprint(call[q].name)}

Init ==
  /\ CallInit
  /\ HostInit
  /\ dump = [p \in Proc |-> {}]
  /\ calm = {}

Next ==
  \/ \E p \in Proc : CallStep(p) /\ Observe({p}, {p})
  \/ \E p \in Proc : RecordStep(p) /\ Observe({p}, {})
  \/ \E p \in Proc : CommandStep(p) /\ Observe({p}, {})
  \/ \E p \in Proc : KillStep(p) /\ Observe({p}, {})
  \/ OutsideStep /\ Observe({}, {})
  \/ Reboot /\ calm' = {}

Spec == Init /\ [][Next]_vars

=============================================================================
